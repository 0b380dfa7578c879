-------------------------- MODULE ConnectionsProofs --------------------------
(***************************************************************************)
(* Theorems about Connections for every tree of tenants, every set of      *)
(* slugs, connections, keys and payloads, every number of threads, every   *)
(* subset of operations and faults and every bound.                        *)
(*                                                                         *)
(* Ten requests start a handler: Started says what each of them leaves in  *)
(* it.  The other actions are the steps of a handler.  Four invariants     *)
(* are proved, one after the other: the types and what a handler's point   *)
(* says of its fields (TypeInv), who owns the keys in the files (OwnInv),  *)
(* which handler will clear a second default (DefaultInv), and what a      *)
(* handler in the middle of an operation knows of its connection's row and *)
(* file (MatchInv).                                                        *)
(***************************************************************************)
EXTENDS Connections, FiniteSetTheorems, TLAPS

-----------------------------------------------------------------------------
(* Types.                                                                  *)

\* The points between which a handler works on a connection, those where it repairs
\* the defaults when it is done, and those of a settings request.
Repairing == {"clear", "put", "commit", "refresh", "others"}
Working == Repairing \cup {"lookup", "delFile", "delRow", "pick", "promote"}
Llm == {"llmClear", "llmPut", "llmSave"}

HandlerOK(h) ==
    /\ h \in Handler
    /\ h.at \in Working \cup {"key"} => h.conn \in Conns
    /\ h.at \in {"idle", "existing", "insert"} \cup Llm => h.conn = NoConn
    /\ h.at = "promote" => h.next \in Conns
    /\ h.at \in Llm => h.tenant \in Tenants /\ h.new.auth \in {"tenant", "platform"}

TypeInv == TypeOK /\ \A p \in Threads : HandlerOK(thread[p])

\* A key in a file is the file's own, and one a call carries is its connection's, or that
\* of a tenant the lookup visits.
FilesOwned == \A r \in Conns \cup Tenants : file[r].key # 0 => file[r].owner = r

GotOK(h) ==
    h.at = "got" /\ h.got.key # 0 /\ h.got.owner # NoConn =>
        \/ h.got.owner = h.conn
        \/ h.conn = NoConn /\ h.got.owner \in Visited(h.tenant)

\* What a request leaves in the handler h: an object it loaded is the row as it is.
Started(h) ==
    /\ HandlerOK(h)
    /\ h.at \in {"existing", "lookup", "delFile", "key", "got", "llmClear"}
    /\ h.conn \in Conns => row[h.conn].live # "free"
    /\ h.at = "lookup" /\ h.old.live = "live" => h.old = row[h.conn]
    /\ h.at = "delFile" => h.old = row[h.conn]
    /\ h.at = "got" => h.conn = NoConn
    /\ FilesOwned => GotOK(h)

Request(p) == \E op \in Ops : \E h : Started(h) /\ Begin(p, op, h)

LEMMA PointsList ==
    Points = {"existing", "insert", "lookup", "clear", "put", "commit", "refresh", "others",
              "idle", "delFile", "delRow", "pick", "promote", "key", "got",
              "llmClear", "llmPut", "llmSave"}
    BY DEF Points, Saving

LEMMA IdleOK == HandlerOK(Idle)
    BY PointsList, SlugsAssumption, ConnsAssumption
    DEF HandlerOK, Handler, Idle, Working, Repairing, Llm, Free, Config, Modes, NoSecret, Secrets

LEMMA ColumnType ==
    ASSUME NEW S, NEW a \in S, NEW b, NEW c \in S
    PROVE  Column(a, b, c) \in S
    BY DEF Column

LEMMA FlushType ==
    ASSUME NEW new \in Config, NEW old \in Config, NEW stored \in Config
    PROVE  Flush(new, old, stored) \in Config /\ Flush(new, old, stored).live = stored.live
    BY DEF Flush, Column, Config

LEMMA ChosenType ==
    ASSUME NEW choice, NEW value \in BOOLEAN
    PROVE  Chosen(choice, value) \in BOOLEAN
    BY DEF Chosen

LEMMA ApplyType ==
    ASSUME NEW config \in Config, NEW w \in Payloads \cup {NoPayload}
    PROVE  /\ Apply(config, w) \in Config
           /\ Apply(config, w).live = config.live /\ Apply(config, w).keyRef = config.keyRef
<1>1. /\ Chosen(w.default, config.default) \in BOOLEAN
      /\ Chosen(w.active, config.active) \in BOOLEAN
    BY ChosenType DEF Config
<1>2. w.auth \in {"keep", "tenant", "platform", "none"}
    BY PayloadsAssumption DEF NoPayload
<1>. QED
    BY <1>1, <1>2 DEF Apply, Config, Modes

LEMMA KeyForType ==
    ASSUME TypeOK, NEW c \in Conns, NEW config \in Config
    PROVE  KeyFor(c, config) \in Secrets \cup {[owner |-> NoConn, key |-> 1]}
    BY DEF KeyFor, TypeOK, Config, Modes, SecretRef, Platform, Secrets

\* A save, which has loaded no object or the row.
LEMMA AtStarted ==
    ASSUME TypeInv, NEW t \in Tenants, NEW s \in Slugs, NEW c \in Known(t) \cup {NoConn},
           NEW w \in Payloads
    PROVE  /\ Started(At(t, s, c, w))
           /\ Started([At(t, s, c, w) EXCEPT !.old = Free])
           /\ c # NoConn => Started([At(t, s, c, w) EXCEPT !.old = row[c]])
<1>1. c \in Conns \cup {NoConn} /\ (c # NoConn => c \in Conns /\ row[c].live # "free")
    BY DEF Known
<1>2. Free \in Config /\ Free.live = "free" /\ (c # NoConn => row[c] \in Config)
    BY <1>1 DEF TypeInv, TypeOK, Free, Config, Modes
<1>3. CASE c = NoConn
    <2>1. At(t, s, c, w) = [Idle EXCEPT !.at = "existing", !.tenant = t, !.slug = s,
                                        !.conn = NoConn, !.want = w]
        BY <1>3 DEF At
    <2>2. At(t, s, c, w) \in Handler
        BY <1>3, <2>1, IdleOK, PointsList DEF HandlerOK, Handler
    <2>3. [At(t, s, c, w) EXCEPT !.old = Free] \in Handler
        BY <1>2, <2>2 DEF Handler
    <2>4. /\ At(t, s, c, w).at = "existing" /\ At(t, s, c, w).conn = NoConn
          /\ [At(t, s, c, w) EXCEPT !.old = Free].at = "existing"
          /\ [At(t, s, c, w) EXCEPT !.old = Free].conn = NoConn
        BY <2>1 DEF Idle
    <2>. QED
        BY <1>3, <2>2, <2>3, <2>4, ConnsAssumption
        DEF Started, HandlerOK, GotOK, Working, Repairing, Llm
<1>4. CASE c # NoConn
    <2>1. At(t, s, c, w) = [Idle EXCEPT !.at = "lookup", !.tenant = t, !.slug = s,
                                        !.conn = c, !.want = w]
        BY <1>4 DEF At
    <2>2. At(t, s, c, w) \in Handler
        BY <1>1, <1>4, <2>1, IdleOK, PointsList DEF HandlerOK, Handler
    <2>3. \A o \in Config : [At(t, s, c, w) EXCEPT !.old = o] \in Handler
        BY <2>2 DEF Handler
    <2>4. /\ At(t, s, c, w).at = "lookup" /\ At(t, s, c, w).conn = c
          /\ At(t, s, c, w).old = Free
          /\ \A o : LET h == [At(t, s, c, w) EXCEPT !.old = o]
                   IN  h.at = "lookup" /\ h.conn = c /\ h.old = o
        BY <2>1 DEF Idle
    <2>. QED
        BY <1>1, <1>2, <1>4, <2>2, <2>3, <2>4, ConnsAssumption
        DEF Started, HandlerOK, GotOK, Working, Repairing, Llm
<1>. QED
    BY <1>3, <1>4

LEMMA NewRequest ==
    ASSUME TypeInv, NEW p \in Threads,
           \/ ApiSave(p) \/ ApiPatch(p) \/ WebSave(p) \/ ApiDelete(p) \/ WebDelete(p)
           \/ ResolveById(p) \/ ResolveBySlug(p) \/ ResolveLegacy(p)
           \/ ApiSettings(p) \/ WebSettings(p)
    PROVE  Request(p)
<1>0. Free \in Config /\ \A c \in Conns : row[c] \in Config
    BY DEF TypeInv, TypeOK, Free, Config, Modes
<1>1. CASE ApiSave(p)
    <2>1. PICK t, s, w, c :
              /\ t \in Tenants /\ s \in Slugs /\ w \in Payloads
              /\ c \in Known(t) \cup {NoConn} /\ Begin(p, "save", At(t, s, c, w))
        BY <1>1 DEF ApiSave
    <2>2. Started(At(t, s, c, w))
        BY <2>1, AtStarted
    <2>. QED
        BY <2>1, <2>2 DEF Request, Begin
<1>2. CASE ApiPatch(p)
    <2>1. PICK t, s, w, c :
              /\ t \in Tenants /\ s \in Slugs /\ w \in Payloads
              /\ c \in Peers(<<t, s>>) /\ Begin(p, "patch", [At(t, s, c, w) EXCEPT !.old = row[c]])
        BY <1>2 DEF ApiPatch
    <2>2. c \in Known(t) /\ c # NoConn
        BY <2>1, ConnsAssumption DEF Peers, Live, Group, Known
    <2>3. Started([At(t, s, c, w) EXCEPT !.old = row[c]])
        BY <2>1, <2>2, AtStarted
    <2>. QED
        BY <2>1, <2>3 DEF Request, Begin
<1>3. CASE WebSave(p)
    <2>1. PICK t, s, w, c :
              /\ t \in Tenants /\ s \in Slugs /\ w \in Payloads
              /\ c \in Known(t) \cup {NoConn} /\ Begin(p, "form", [At(t, s, c, w) EXCEPT
                                  !.old = IF c # NoConn /\ Live(c) THEN row[c] ELSE Free])
        BY <1>3 DEF WebSave
    <2>2. Started([At(t, s, c, w) EXCEPT !.old = IF c # NoConn /\ Live(c) THEN row[c] ELSE Free])
        BY <2>1, AtStarted
    <2>. QED
        BY <2>1, <2>2 DEF Request, Begin
<1>4. CASE ApiDelete(p) \/ WebDelete(p)
    <2>1. PICK t, s, c :
              /\ t \in Tenants /\ s \in Slugs
              /\ c \in Peers(<<t, s>>) /\ Begin(p, "delete", Deleting(t, s, c))
        BY <1>4 DEF ApiDelete, WebDelete, First
    <2>2. c \in Conns /\ row[c].live = "live"
        BY <2>1 DEF Peers, Live
    <2>3. Started(Deleting(t, s, c))
        BY <1>0, <2>1, <2>2, IdleOK, PointsList, ConnsAssumption
        DEF Started, HandlerOK, GotOK, Handler, Deleting, Idle, Working, Repairing, Llm
    <2>. QED
        BY <2>1, <2>3 DEF Request, Begin
<1>5. CASE ResolveById(p) \/ ResolveBySlug(p)
    <2>1. PICK t \in Tenants, s \in Slugs, c \in Conns :
              Live(c) /\ Begin(p, "resolve", Resolving(t, s, c))
        BY <1>5 DEF ResolveById, ResolveBySlug, Reachable, First, Effective, Peers
    <2>2. Started(Resolving(t, s, c))
        BY <1>0, <2>1, IdleOK, PointsList, ConnsAssumption
        DEF Started, HandlerOK, GotOK, Handler, Resolving, Idle, Working, Repairing, Llm, Live
    <2>. QED
        BY <2>1, <2>2 DEF Request, Begin
<1>6. CASE ResolveLegacy(p)
    <2>1. PICK t, s, key :
              /\ t \in Tenants /\ s \in Slugs
              /\ key \in IF s # Legacy THEN {Platform(s)}
                        ELSE {LegacyKey(u) : u \in LegacySource(t)}
              /\ Begin(p, "resolve", [Idle EXCEPT !.at = "got", !.tenant = t, !.slug = s, !.got = key])
        BY <1>6 DEF ResolveLegacy
    <2>2. key \in Secrets \cup {[owner |-> NoConn, key |-> 1]}
        BY <2>1 DEF LegacyKey, LegacySource, LegacyRef, Platform, Visited, TypeInv, TypeOK, Secrets
    <2>3. FilesOwned /\ key.key # 0 /\ key.owner # NoConn => key.owner \in Visited(t)
        BY <2>1 DEF FilesOwned, LegacyKey, LegacySource, LegacyRef, Platform, NoSecret, Visited
    <2>4. Started([Idle EXCEPT !.at = "got", !.tenant = t, !.slug = s, !.got = key])
        BY <2>1, <2>2, <2>3, IdleOK, PointsList, ConnsAssumption
        DEF Started, HandlerOK, GotOK, Handler, Idle, Working, Repairing, Llm
    <2>. QED
        BY <2>1, <2>4 DEF Request, Begin
<1>7. CASE ApiSettings(p) \/ WebSettings(p)
    <2>1. PICK t \in Tenants, w \in Payloads, auth \in {"tenant", "platform"} :
              Begin(p, "settings", [SettingsOf(t, w) EXCEPT !.new.auth = auth])
        <3>1. CASE ApiSettings(p)
            <4>1. PICK t \in Tenants, w \in Payloads :
                      w.auth \in {"tenant", "platform"} /\ Begin(p, "settings", SettingsOf(t, w))
                BY <3>1 DEF ApiSettings, Settable
            <4>2. SettingsOf(t, w) = [SettingsOf(t, w) EXCEPT !.new.auth = w.auth]
                BY DEF SettingsOf, Idle, Free
            <4>. QED
                BY <4>1, <4>2
        <3>2. CASE WebSettings(p)
            BY <3>2 DEF WebSettings, Settable
        <3>. QED
            BY <1>7, <3>1, <3>2
    <2>2. Started([SettingsOf(t, w) EXCEPT !.new.auth = auth])
        <3>. DEFINE row0 == [Free EXCEPT !.auth = llm[t].mode, !.keyRef = llm[t].keyRef]
                    h == [SettingsOf(t, w) EXCEPT !.new.auth = auth]
        <3>1. row0 \in Config /\ [row0 EXCEPT !.auth = auth] \in Config
            BY DEF TypeInv, TypeOK, Free, Config, Modes
        <3>2. h = [Idle EXCEPT !.at = "llmClear", !.tenant = t, !.want = w, !.old = row0,
                               !.new = [row0 EXCEPT !.auth = auth]]
            BY DEF SettingsOf, Idle, Free
        <3>. HIDE DEF row0, h
        <3>3. h \in Handler
            BY <3>1, <3>2, IdleOK, PointsList DEF HandlerOK, Handler
        <3>4. h.at = "llmClear" /\ h.conn = NoConn /\ h.tenant = t /\ h.new.auth = auth
            BY <3>1, <3>2 DEF Idle, Config
        <3>5. Started(h)
            BY <3>3, <3>4, ConnsAssumption DEF Started, HandlerOK, GotOK, Working, Repairing, Llm
        <3>. QED
            BY <3>5 DEF h
    <2>. QED
        BY <2>1, <2>2 DEF Request, Begin
<1>. QED
    BY <1>1, <1>2, <1>3, <1>4, <1>5, <1>6, <1>7

\* A step is a request, a step of a handler, or a crash.
HandlerStep(p) ==
    \/ Lookup(p) \/ Existing(p) \/ Insert(p) \/ InsertConflict(p) \/ ClearKey(p) \/ PutKey(p)
    \/ PutFails(p) \/ CommitRow(p) \/ Refresh(p) \/ ClearOthers(p)
    \/ RemoveFile(p) \/ DeleteRow(p) \/ Pick(p) \/ Promote(p)
    \/ ReadKey(p) \/ Call(p) \/ LlmClear(p) \/ LlmPut(p) \/ LlmSave(p) \/ Crash(p)

LEMMA StepsOfNext ==
    ASSUME TypeInv, Next
    PROVE  \E p \in Threads : Request(p) \/ HandlerStep(p)
<1>1. PICK p \in Threads : Save(p) \/ Delete(p) \/ Resolve(p) \/ Settings(p) \/ Crash(p)
    BY DEF Next
<1>. QED
    BY <1>1, NewRequest DEF Save, Delete, Resolve, Settings, HandlerStep

\* One handler moves to r and the tables stay well typed.
LEMMA TypesKept ==
    ASSUME TypeInv, NEW p \in Threads, NEW r, thread' = [thread EXCEPT ![p] = r], HandlerOK(r),
           row' \in [Conns -> Config],
           llm' \in [Tenants -> [mode: {"tenant", "platform"}, keyRef: BOOLEAN]],
           file' \in [Conns \cup Tenants -> Secrets],
           disturbed' \subseteq Conns, mixed' \subseteq Tenants \X Slugs,
           requests' \in 0..MaxRequests
    PROVE  TypeInv'
<1>1. thread' \in [Threads -> Handler] /\ \A q \in Threads : HandlerOK(thread'[q])
    BY DEF TypeInv, TypeOK, HandlerOK
<1>. QED
    BY <1>1 DEF TypeInv, TypeOK, HandlerOK

LEMMA TypeInvInit == Init => TypeInv
<1>. SUFFICES ASSUME Init PROVE TypeInv
    OBVIOUS
<1>0. PICK S \in SUBSET Conns, D \in SUBSET Conns :
        /\ row = [c \in Conns |-> IF c \in S
                     THEN [Free EXCEPT !.live = "live", !.default = c \in D, !.keyRef = TRUE]
                     ELSE Free]
        /\ file = [r \in Conns \cup Tenants |->
                      IF r \in S THEN [owner |-> r, key |-> CHOOSE k \in KeyIds : TRUE]
                      ELSE NoSecret]
    BY DEF Init
<1>1. row \in [Conns -> Config]
    <2>1. \A b \in BOOLEAN :
             [Free EXCEPT !.live = "live", !.default = b, !.keyRef = TRUE] \in Config
        BY DEF Free, Config, Modes
    <2>2. Free \in Config
        BY DEF Free, Config, Modes
    <2>3. \A c \in Conns : (c \in D) \in BOOLEAN
        OBVIOUS
    <2>. QED
        BY <1>0, <2>1, <2>2, <2>3
<1>2. file \in [Conns \cup Tenants -> Secrets]
    <2>1. \A r \in Conns : [owner |-> r, key |-> CHOOSE k \in KeyIds : TRUE] \in Secrets
        <3>1. (CHOOSE k \in KeyIds : TRUE) \in KeyIds
            BY ConnsAssumption
        <3>. QED
            BY <3>1 DEF Secrets
    <2>2. NoSecret \in Secrets
        BY DEF Secrets
    <2>. QED
        BY <1>0, <2>1, <2>2
<1>3. \A p \in Threads : HandlerOK(thread[p])
    BY IdleOK DEF Init
<1>4. thread \in [Threads -> Handler]
    BY <1>3 DEF Init, HandlerOK
<1>5. llm \in [Tenants -> [mode: {"tenant", "platform"}, keyRef: BOOLEAN]]
    BY DEF Init
<1>6. disturbed = {} /\ mixed = {}
    BY DEF Init
<1>7. requests \in 0..MaxRequests
    <2>1. requests = 0
        BY DEF Init
    <2>. QED
        BY <2>1, RunAssumption
<1>. QED
    BY <1>1, <1>2, <1>3, <1>4, <1>5, <1>6, <1>7 DEF TypeInv, TypeOK

LEMMA TypeInvRequest ==
    ASSUME TypeInv, NEW p \in Threads, Request(p)
    PROVE  TypeInv'
<1>1. PICK op, h : op \in Ops /\ Started(h) /\ Begin(p, op, h)
    BY DEF Request
<1>2. HandlerOK(h) /\ h.conn \in Conns \cup {NoConn}
    BY <1>1 DEF Started, HandlerOK, Handler
<1>3. disturbed' \subseteq Conns /\ requests' \in 0..MaxRequests
    BY <1>1, <1>2, RunAssumption DEF Begin, TypeInv, TypeOK
<1>. QED
    BY <1>1, <1>2, <1>3, TypesKept DEF Begin, TypeInv, TypeOK

LEMMA TypeInvStep ==
    ASSUME TypeInv, NEW p \in Threads, HandlerStep(p)
    PROVE  TypeInv'
<1>. DEFINE h == thread[p]
<1>0. /\ HandlerOK(h) /\ h \in Handler /\ TypeOK
      /\ h.new \in Config /\ h.old \in Config /\ h.want \in Payloads \cup {NoPayload}
      /\ h.want.key \in KeyIds \cup {0}
    BY PayloadsAssumption DEF TypeInv, TypeOK, Handler, NoPayload
<1>1. ASSUME NEW r, HandlerOK(r), Goto(p, r), UNCHANGED <<row, llm, file, disturbed, mixed>>
      PROVE  TypeInv'
    BY <1>0, <1>1, TypesKept DEF Goto, TypeOK
<1>2. CASE Done(p) /\ UNCHANGED <<row, llm, file, disturbed, mixed>>
    BY <1>1, <1>2, IdleOK DEF Done
<1>3. ASSUME NEW at \in Working \ {"promote"}, h.at \in Working PROVE HandlerOK([h EXCEPT !.at = at])
    BY <1>0, <1>3, PointsList DEF HandlerOK, Handler, Working, Repairing, Llm
<1>4. CASE Lookup(p)
    <2>1. ASSUME NEW old \in Config
          PROVE  HandlerOK([h EXCEPT !.at = "clear", !.old = old, !.new = Apply(old, h.want)])
        <3>1. Apply(old, h.want) \in Config
            BY <1>0, ApplyType
        <3>. QED
            BY <1>0, <1>4, <3>1, PointsList
            DEF Lookup, HandlerOK, Handler, Working, Repairing, Llm
    <2>2. (IF h.old.live = "live" THEN h.old ELSE row[h.conn]) \in Config
        BY <1>0, <1>4 DEF Lookup, HandlerOK, Working, TypeOK
    <2>. QED
        BY <1>1, <1>2, <1>4, <2>1, <2>2 DEF Lookup, Local
<1>5. CASE Existing(p)
    <2>1. \A found \in BOOLEAN : HandlerOK([h EXCEPT !.at = "insert", !.found = found])
        BY <1>0, <1>5, PointsList DEF Existing, HandlerOK, Handler, Working, Repairing, Llm
    <2>. QED
        BY <1>1, <1>5, <2>1 DEF Existing, Local
<1>6. CASE Insert(p)
    <2>. DEFINE first == [Free EXCEPT !.live = "live", !.default = ~h.found]
    <2>1. first \in Config
        BY <1>0 DEF Handler, Free, Config, Modes
    <2>. HIDE DEF first
    <2>2. PICK c \in Conns :
            /\ row' = [row EXCEPT ![c] = first]
            /\ Goto(p, [h EXCEPT !.at = "clear", !.conn = c, !.old = first,
                                 !.new = Apply(first, h.want)])
        BY <1>6 DEF Insert, Fresh, first
    <2>3. Apply(first, h.want) \in Config
        BY <1>0, <2>1, ApplyType
    <2>4. HandlerOK([h EXCEPT !.at = "clear", !.conn = c, !.old = first,
                              !.new = Apply(first, h.want)])
        BY <1>0, <2>1, <2>3, PointsList DEF HandlerOK, Handler, Working, Repairing, Llm
    <2>5. row' \in [Conns -> Config]
        BY <1>0, <2>1, <2>2 DEF TypeOK
    <2>. QED
        BY <1>0, <1>6, <2>2, <2>4, <2>5, TypesKept DEF Insert, Goto, TypeOK
<1>7. CASE InsertConflict(p)
    BY <1>2, <1>7 DEF InsertConflict, Local
<1>8. CASE ClearKey(p)
    <2>1. \A b \in BOOLEAN : HandlerOK([h EXCEPT !.at = "put", !.new.keyRef = b])
        BY <1>0, <1>8, PointsList DEF ClearKey, HandlerOK, Handler, Config, Working, Repairing, Llm
    <2>2. file' \in [Conns \cup Tenants -> Secrets]
        BY <1>0, <1>8 DEF ClearKey, TypeOK, Secrets
    <2>. QED
        BY <1>0, <1>8, <2>1, <2>2, TypesKept DEF ClearKey, Goto, TypeOK
<1>9. CASE PutKey(p)
    <2>1. \A b \in BOOLEAN : HandlerOK([h EXCEPT !.at = "commit", !.new.keyRef = b])
        BY <1>0, <1>9, PointsList DEF PutKey, HandlerOK, Handler, Config, Working, Repairing, Llm
    <2>2. file' \in [Conns \cup Tenants -> Secrets]
        BY <1>0, <1>9 DEF PutKey, HandlerOK, Working, Repairing, TypeOK, Secrets
    <2>. QED
        BY <1>0, <1>9, <2>1, <2>2, TypesKept DEF PutKey, Goto, TypeOK
<1>10. CASE PutFails(p)
    <2>1. h.conn \in Conns
        BY <1>0, <1>10 DEF PutFails, HandlerOK, Working, Repairing
    <2>2. disturbed' \subseteq Conns /\ mixed' \subseteq Tenants \X Slugs
        BY <1>0, <1>10, <2>1, ConnsAssumption DEF PutFails, Group, TypeOK
    <2>. QED
        BY <1>0, <1>10, <2>2, IdleOK, TypesKept DEF PutFails, Done, Goto, TypeOK
<1>11. CASE CommitRow(p)
    <2>1. HandlerOK([h EXCEPT !.at = "refresh"])
        BY <1>3, <1>11 DEF CommitRow, Working, Repairing
    <2>2. h.conn \in Conns
        BY <1>0, <1>11 DEF CommitRow, HandlerOK, Working, Repairing
    <2>3. Flush(h.new, h.old, row[h.conn]) \in Config
        BY <1>0, <2>2, FlushType DEF TypeOK
    <2>. QED
        BY <1>0, <1>2, <1>11, <2>1, <2>2, <2>3, TypesKept
        DEF CommitRow, Move, Goto, TypeOK
<1>12. CASE Refresh(p)
    <2>1. HandlerOK([h EXCEPT !.at = "others"])
        BY <1>3, <1>12 DEF Refresh, Working, Repairing
    <2>. QED
        BY <1>1, <1>2, <1>12, <2>1 DEF Refresh, Move, Local
<1>13. CASE ClearOthers(p)
    <2>1. row' \in [Conns -> Config]
        BY <1>0, <1>13 DEF ClearOthers, TypeOK, Config
    <2>. QED
        BY <1>0, <1>13, <2>1, IdleOK, TypesKept DEF ClearOthers, Done, Goto, TypeOK
<1>14. CASE RemoveFile(p)
    <2>1. HandlerOK([h EXCEPT !.at = "delRow"])
        BY <1>3, <1>14 DEF RemoveFile, Working
    <2>2. file' \in [Conns \cup Tenants -> Secrets]
        BY <1>0, <1>14 DEF RemoveFile, TypeOK, Secrets
    <2>. QED
        BY <1>0, <1>14, <2>1, <2>2, TypesKept DEF RemoveFile, Move, Goto, TypeOK
<1>15. CASE DeleteRow(p)
    <2>1. HandlerOK([h EXCEPT !.at = "pick"])
        BY <1>3, <1>15 DEF DeleteRow, Working
    <2>2. row' \in [Conns -> Config]
        BY <1>0, <1>15 DEF DeleteRow, TypeOK, Free, Config, Modes
    <2>. QED
        BY <1>0, <1>15, <2>1, <2>2, IdleOK, TypesKept DEF DeleteRow, Move, Done, Goto, TypeOK
<1>16. CASE Pick(p)
    <2>1. ASSUME NEW c \in Conns
          PROVE  HandlerOK([h EXCEPT !.at = "promote", !.next = c, !.old = row[c]])
        BY <1>0, <1>16, PointsList DEF Pick, TypeOK, HandlerOK, Handler, Working, Repairing, Llm
    <2>. QED
        BY <1>1, <1>2, <1>16, <2>1 DEF Pick, First, Peers, Local
<1>17. CASE Promote(p)
    <2>1. h.next \in Conns
        BY <1>0, <1>17 DEF Promote, HandlerOK
    <2>2. Column(TRUE, h.old.default, row[h.next].default) \in BOOLEAN
        BY <1>0, <2>1 DEF Column, TypeOK, Config
    <2>3. row' \in [Conns -> Config]
        <3>1. [row[h.next] EXCEPT !.default = Column(TRUE, h.old.default, row[h.next].default)]
                 \in Config
            BY <1>0, <2>1, <2>2 DEF TypeOK, Config
        <3>. QED
            BY <1>0, <1>17, <2>1, <3>1 DEF Promote, TypeOK
    <2>4. mixed' \subseteq Tenants \X Slugs
        BY <1>0, <1>17, <2>1, ConnsAssumption DEF Promote, Group, TypeOK
    <2>. QED
        BY <1>0, <1>17, <2>3, <2>4, IdleOK, TypesKept DEF Promote, Done, Goto, TypeOK
<1>18. CASE ReadKey(p)
    <2>1. KeyFor(h.conn, h.old) \in Secrets \cup {[owner |-> NoConn, key |-> 1]}
        BY <1>0, <1>18, KeyForType DEF ReadKey, HandlerOK
    <2>2. HandlerOK([h EXCEPT !.at = "got", !.got = KeyFor(h.conn, h.old)])
        BY <1>0, <2>1, PointsList DEF HandlerOK, Handler, Working, Repairing, Llm
    <2>. QED
        BY <1>1, <1>2, <1>18, <2>2 DEF ReadKey, Local
<1>19. CASE Call(p)
    BY <1>2, <1>19 DEF Call, Local
<1>20. CASE LlmClear(p)
    <2>1. \A b \in BOOLEAN : HandlerOK([h EXCEPT !.at = "llmPut", !.new.keyRef = b])
        BY <1>0, <1>20, PointsList DEF LlmClear, HandlerOK, Handler, Config, Working, Repairing, Llm
    <2>2. file' \in [Conns \cup Tenants -> Secrets]
        BY <1>0, <1>20 DEF LlmClear, TypeOK, Secrets
    <2>. QED
        BY <1>0, <1>20, <2>1, <2>2, TypesKept DEF LlmClear, Goto, TypeOK
<1>21. CASE LlmPut(p)
    <2>1. \A b \in BOOLEAN : HandlerOK([h EXCEPT !.at = "llmSave", !.new.keyRef = b])
        BY <1>0, <1>21, PointsList DEF LlmPut, HandlerOK, Handler, Config, Working, Repairing, Llm
    <2>2. file' \in [Conns \cup Tenants -> Secrets]
        BY <1>0, <1>21 DEF LlmPut, HandlerOK, Llm, TypeOK, Secrets
    <2>. QED
        BY <1>0, <1>21, <2>1, <2>2, TypesKept DEF LlmPut, Goto, TypeOK
<1>22. CASE LlmSave(p)
    <2>1. h.tenant \in Tenants /\ h.new.auth \in {"tenant", "platform"}
        BY <1>0, <1>22 DEF LlmSave, HandlerOK, Llm
    <2>2. /\ Column(h.new.auth, h.old.auth, llm[h.tenant].mode) \in {"tenant", "platform"}
          /\ Column(h.new.keyRef, h.old.keyRef, llm[h.tenant].keyRef) \in BOOLEAN
        BY <1>0, <2>1 DEF Column, TypeOK, Config
    <2>3. llm' \in [Tenants -> [mode: {"tenant", "platform"}, keyRef: BOOLEAN]]
        BY <1>0, <1>22, <2>1, <2>2 DEF LlmSave, TypeOK
    <2>. QED
        BY <1>0, <1>22, <2>3, IdleOK, TypesKept DEF LlmSave, Done, Goto, TypeOK
<1>23. CASE Crash(p)
    <2>1. h.conn \in Conns \cup {NoConn}
        BY <1>0 DEF Handler
    <2>2. disturbed' \subseteq Conns /\ mixed' \subseteq Tenants \X Slugs
        BY <1>0, <1>23, <2>1, ConnsAssumption DEF Crash, Group, TypeOK
    <2>. QED
        BY <1>0, <1>23, <2>2, IdleOK, TypesKept DEF Crash, Done, Goto, TypeOK
<1>. QED
    BY <1>4, <1>5, <1>6, <1>7, <1>8, <1>9, <1>10, <1>11, <1>12, <1>13, <1>14, <1>15, <1>16,
       <1>17, <1>18, <1>19, <1>20, <1>21, <1>22, <1>23 DEF HandlerStep

LEMMA TypeInvAlways == Spec => []TypeInv
<1>1. TypeInv /\ [Next]_vars => TypeInv'
    <2>. SUFFICES ASSUME TypeInv, [Next]_vars PROVE TypeInv'
        OBVIOUS
    <2>1. CASE Next
        BY <2>1, StepsOfNext, TypeInvRequest, TypeInvStep
    <2>2. CASE UNCHANGED vars
        BY <2>2 DEF vars, TypeInv, TypeOK
    <2>. QED
        BY <2>1, <2>2
<1>. QED
    BY <1>1, TypeInvInit, PTL DEF Spec

\* The rows, the settings, the files and the handlers keep their types.
THEOREM TypeCorrect == Spec => []TypeOK
<1>1. TypeInv => TypeOK
    BY DEF TypeInv
<1>. QED
    BY <1>1, TypeInvAlways, PTL

-----------------------------------------------------------------------------
(* Whose key a call carries.                                               *)

OwnInv == FilesOwned /\ \A p \in Threads : GotOK(thread[p])

\* One handler moves, and the files keep their owners.
LEMMA OwnersKept ==
    ASSUME TypeInv, OwnInv, NEW p \in Threads, NEW r, thread' = [thread EXCEPT ![p] = r],
           GotOK(r), FilesOwned'
    PROVE  OwnInv'
<1>1. ASSUME NEW q \in Threads PROVE GotOK(thread'[q])
    BY DEF TypeInv, TypeOK, OwnInv
<1>. QED
    BY <1>1 DEF OwnInv, GotOK

LEMMA OwnInvInit == Init => OwnInv
<1>. SUFFICES ASSUME Init PROVE OwnInv
    OBVIOUS
<1>1. PICK S \in SUBSET Conns :
        file = [r \in Conns \cup Tenants |->
                  IF r \in S THEN [owner |-> r, key |-> CHOOSE k \in KeyIds : TRUE]
                  ELSE NoSecret]
    BY DEF Init
<1>2. FilesOwned
    BY <1>1 DEF FilesOwned, NoSecret
<1>3. \A p \in Threads : thread[p].at = "idle"
    BY DEF Init, Idle
<1>. QED
    BY <1>2, <1>3 DEF OwnInv, GotOK

LEMMA OwnInvStep ==
    ASSUME TypeInv, OwnInv, NEW p \in Threads, Request(p) \/ HandlerStep(p)
    PROVE  OwnInv'
<1>. DEFINE h == thread[p]
<1>0. HandlerOK(h) /\ h \in Handler /\ TypeOK /\ FilesOwned
    BY DEF TypeInv, TypeOK, OwnInv
<1>1. ASSUME NEW r, Goto(p, r), r.at # "got", FilesOwned' PROVE OwnInv'
    BY <1>1, OwnersKept DEF Goto, GotOK
<1>2. Idle.at # "got"
    BY DEF Idle
<1>3. CASE Request(p)
    <2>1. PICK op, n : op \in Ops /\ Started(n) /\ Begin(p, op, n)
        BY <1>3 DEF Request
    <2>. QED
        BY <1>0, <2>1, OwnersKept DEF Started, Begin, FilesOwned
<1>4. CASE ClearKey(p)
    <2>1. FilesOwned'
        BY <1>0, <1>4 DEF ClearKey, TypeOK, FilesOwned, NoSecret
    <2>. QED
        BY <1>0, <1>1, <1>4, <2>1 DEF ClearKey, Handler
<1>5. CASE PutKey(p)
    <2>1. FilesOwned'
        BY <1>0, <1>5 DEF PutKey, TypeOK, FilesOwned, SecretRef
    <2>. QED
        BY <1>0, <1>1, <1>5, <2>1 DEF PutKey, Handler
<1>6. CASE RemoveFile(p)
    <2>1. FilesOwned'
        BY <1>0, <1>6 DEF RemoveFile, TypeOK, FilesOwned, NoSecret
    <2>. QED
        BY <1>0, <1>1, <1>6, <2>1 DEF RemoveFile, Move, Handler
<1>7. CASE LlmClear(p)
    <2>1. FilesOwned'
        BY <1>0, <1>7 DEF LlmClear, TypeOK, FilesOwned, NoSecret
    <2>. QED
        BY <1>0, <1>1, <1>7, <2>1 DEF LlmClear, Handler
<1>8. CASE LlmPut(p)
    <2>1. FilesOwned'
        BY <1>0, <1>8 DEF LlmPut, TypeOK, FilesOwned, LegacyRef
    <2>. QED
        BY <1>0, <1>1, <1>8, <2>1 DEF LlmPut, Handler
<1>9. CASE ReadKey(p)
    <2>. DEFINE key == KeyFor(h.conn, h.old)
    <2>1. h.conn \in Conns /\ h.old.auth \in Modes
        BY <1>0, <1>9 DEF ReadKey, HandlerOK, Handler, Config
    <2>2. key.key # 0 /\ key.owner # NoConn => key.owner = h.conn
        BY <1>0, <2>1 DEF KeyFor, Modes, SecretRef, Platform, FilesOwned, NoSecret
    <2>3. GotOK([h EXCEPT !.at = "got", !.got = key])
        BY <1>0, <2>2 DEF GotOK, Handler
    <2>4. FilesOwned'
        BY <1>0, <1>9 DEF ReadKey, Local, FilesOwned
    <2>. QED
        BY <1>1, <1>2, <1>9, <2>3, <2>4, OwnersKept DEF ReadKey, Done, Goto
<1>10. CASE /\ UNCHANGED file
            /\ Done(p) \/ \E at \in Points \ {"got"} : Move(p, at)
    <2>1. UNCHANGED file => FilesOwned'
        BY <1>0 DEF FilesOwned
    <2>2. \A at \in Points \ {"got"} : [h EXCEPT !.at = at].at # "got"
        BY <1>0 DEF Handler
    <2>3. PICK r : Goto(p, r) /\ r.at # "got"
        BY <1>2, <1>10, <2>2 DEF Done, Move
    <2>4. FilesOwned'
        BY <1>10, <2>1
    <2>. QED
        BY <1>1, <2>3, <2>4
<1>11. CASE Lookup(p)
    <2>1. UNCHANGED file /\ FilesOwned'
        BY <1>0, <1>11 DEF Lookup, Local, FilesOwned
    <2>2. \A old, new : [h EXCEPT !.at = "clear", !.old = old, !.new = new].at = "clear"
        BY <1>0 DEF Handler
    <2>. QED
        BY <1>1, <1>10, <1>11, <2>1, <2>2 DEF Lookup
<1>12. CASE Existing(p)
    <2>1. FilesOwned'
        BY <1>0, <1>12 DEF Existing, Local, FilesOwned
    <2>2. \A found : [h EXCEPT !.at = "insert", !.found = found].at = "insert"
        BY <1>0 DEF Handler
    <2>. QED
        BY <1>1, <1>12, <2>1, <2>2 DEF Existing
<1>13. CASE Insert(p)
    <2>1. FilesOwned'
        BY <1>0, <1>13 DEF Insert, FilesOwned
    <2>2. \A c, old, new :
             [h EXCEPT !.at = "clear", !.conn = c, !.old = old, !.new = new].at = "clear"
        BY <1>0 DEF Handler
    <2>. QED
        BY <1>1, <1>13, <2>1, <2>2 DEF Insert
<1>14. CASE Pick(p)
    <2>1. UNCHANGED file /\ FilesOwned'
        BY <1>0, <1>14 DEF Pick, Local, FilesOwned
    <2>2. \A c, old : [h EXCEPT !.at = "promote", !.next = c, !.old = old].at = "promote"
        BY <1>0 DEF Handler
    <2>. QED
        BY <1>1, <1>10, <1>14, <2>1, <2>2 DEF Pick
<1>15. CASE \/ InsertConflict(p) \/ PutFails(p) \/ CommitRow(p) \/ Refresh(p) \/ ClearOthers(p)
            \/ DeleteRow(p) \/ Promote(p) \/ Call(p) \/ LlmSave(p) \/ Crash(p)
    <2>1. UNCHANGED file
        BY <1>15 DEF InsertConflict, PutFails, CommitRow, Refresh, ClearOthers,
            DeleteRow, Promote, Call, LlmSave, Crash, Local
    <2>2. Done(p) \/ Move(p, "refresh") \/ Move(p, "others") \/ Move(p, "pick")
        BY <1>15 DEF InsertConflict, PutFails, CommitRow, Refresh, ClearOthers,
            DeleteRow, Promote, Call, LlmSave, Crash
    <2>. QED
        BY <1>10, <2>1, <2>2, PointsList
<1>. QED
    BY <1>3, <1>4, <1>5, <1>6, <1>7, <1>8, <1>9, <1>11, <1>12, <1>13, <1>14, <1>15
    DEF HandlerStep

\* A call never carries a key that was typed for another connection or another tenant
\* (tenant_secrets, resolve_provider_credentials).
THEOREM KeysAlwaysStayHome == Spec => []KeysStayHome
<1>1. TypeInv /\ OwnInv /\ [Next]_vars => OwnInv'
    <2>. SUFFICES ASSUME TypeInv, OwnInv, [Next]_vars PROVE OwnInv'
        OBVIOUS
    <2>1. CASE Next
        BY <2>1, StepsOfNext, OwnInvStep
    <2>2. CASE UNCHANGED vars
        BY <2>2 DEF vars, OwnInv, FilesOwned, GotOK
    <2>. QED
        BY <2>1, <2>2
<1>2. OwnInv => KeysStayHome
    BY DEF OwnInv, GotOK, KeysStayHome
<1>. QED
    BY <1>1, <1>2, TypeInvAlways, OwnInvInit, PTL DEF Spec

-----------------------------------------------------------------------------
(* Who clears a second default.                                            *)

\* Two live connections of one group that are both its default.
Clash(c, d) ==
    /\ c # d /\ Group(c) = Group(d)
    /\ Live(c) /\ Live(d) /\ row[c].default /\ row[d].default

\* The handler has yet to clear the other defaults of one of the two.
Repairs(p, c, d) == thread[p].at \in Repairing /\ thread[p].conn \in {c, d}

DefaultInv ==
    \A c, d \in Conns : Clash(c, d) =>
        Group(c) \in mixed \/ \E p \in Threads : Repairs(p, c, d)

\* One handler moves; it may leave a clash that is not its own, or a group in mixed.
LEMMA DefaultsKept ==
    ASSUME TypeInv, DefaultInv, NEW p \in Threads,
           \A q \in Threads \ {p} : thread'[q] = thread[q],
           mixed \subseteq mixed',
           \A c, d \in Conns : Clash(c, d)' =>
               \/ Group(c) \in mixed'
               \/ Repairs(p, c, d)'
               \/ Clash(c, d) /\ ~Repairs(p, c, d)
    PROVE  DefaultInv'
<1>. SUFFICES ASSUME NEW c \in Conns, NEW d \in Conns, Clash(c, d)', Group(c) \notin mixed'
              PROVE  \E q \in Threads : Repairs(q, c, d)'
    BY DEF DefaultInv, Group
<1>1. CASE Repairs(p, c, d)'
    BY <1>1
<1>2. CASE Clash(c, d) /\ ~Repairs(p, c, d)
    <2>1. PICK q \in Threads : Repairs(q, c, d)
        BY <1>2 DEF DefaultInv, Group
    <2>2. q # p
        BY <1>2, <2>1
    <2>. QED
        BY <2>1, <2>2 DEF Repairs
<1>. QED
    BY <1>1, <1>2

LEMMA AtMostOne ==
    ASSUME NEW D, \A c, d \in D : c = d
    PROVE  Cardinality(D) <= 1
<1>1. CASE D = {}
    <2>1. Cardinality(D) = 0
        BY <1>1, FS_EmptySet
    <2>. QED
        BY <2>1
<1>2. ASSUME NEW c \in D PROVE Cardinality(D) <= 1
    <2>1. D = {c}
        OBVIOUS
    <2>2. Cardinality(D) = 1
        BY <2>1, FS_Singleton
    <2>. QED
        BY <2>2
<1>. QED
    BY <1>1, <1>2

LEMMA DefaultInvInit == Init => DefaultInv
<1>. SUFFICES ASSUME Init, NEW c \in Conns, NEW d \in Conns, Clash(c, d) PROVE FALSE
    BY DEF DefaultInv
<1>1. PICK S \in SUBSET Conns, D \in SUBSET Conns :
        /\ \A a, b \in D : Group(a) = Group(b) => a = b
        /\ row = [r \in Conns |-> IF r \in S
                     THEN [Free EXCEPT !.live = "live", !.default = r \in D, !.keyRef = TRUE]
                     ELSE Free]
    BY DEF Init
<1>2. ASSUME NEW r \in Conns, row[r].default PROVE r \in D
    <2>1. CASE r \in S
        <3>1. row[r] = [Free EXCEPT !.live = "live", !.default = r \in D, !.keyRef = TRUE]
            BY <1>1, <2>1
        <3>2. row[r].default = (r \in D)
            BY <3>1 DEF Free
        <3>. QED
            BY <1>2, <3>2
    <2>2. CASE r \notin S
        BY <1>1, <1>2, <2>2 DEF Free
    <2>. QED
        BY <2>1, <2>2
<1>3. c \in D /\ d \in D
    BY <1>2 DEF Clash
<1>. QED
    BY <1>1, <1>3 DEF Clash

LEMMA DefaultInvStep ==
    ASSUME TypeInv, DefaultInv, NEW p \in Threads, Request(p) \/ HandlerStep(p)
    PROVE  DefaultInv'
<1>. DEFINE h == thread[p]
<1>0. HandlerOK(h) /\ h \in Handler /\ TypeOK
    BY DEF TypeInv, TypeOK
<1>1. ASSUME NEW r, Goto(p, r)
      PROVE  thread'[p] = r /\ \A q \in Threads \ {p} : thread'[q] = thread[q]
    BY <1>0, <1>1 DEF Goto, TypeOK
\* The rows keep their flags, and a handler between the two keeps its connection.
<1>2. ASSUME NEW r, Goto(p, r), UNCHANGED <<row, mixed>>,
             h.at \in Repairing => r.at \in Repairing /\ r.conn = h.conn
      PROVE  DefaultInv'
    <2>1. \A c, d \in Conns : Clash(c, d)' => Clash(c, d)
        BY <1>2 DEF Clash, Live, Group
    <2>2. \A c, d \in Conns : Repairs(p, c, d) => Repairs(p, c, d)'
        BY <1>1, <1>2 DEF Repairs
    <2>. QED
        BY <1>1, <1>2, <2>1, <2>2, DefaultsKept
\* A handler stops that repairs nothing.
<1>3. ASSUME Done(p), UNCHANGED <<row, mixed>>,
             h.at \in Repairing => ~Live(h.conn) \/ ~row[h.conn].default
      PROVE  DefaultInv'
    <2>1. \A c, d \in Conns : Clash(c, d)' => Clash(c, d) /\ ~Repairs(p, c, d)
        BY <1>3 DEF Clash, Repairs, Live, Group
    <2>. QED
        BY <1>1, <1>3, <2>1, DefaultsKept DEF Done
<1>4. CASE Request(p)
    <2>1. PICK op, n : op \in Ops /\ Started(n) /\ Begin(p, op, n)
        BY <1>4 DEF Request
    <2>2. h.at = "idle" /\ thread' = [thread EXCEPT ![p] = n] /\ UNCHANGED <<row, mixed>>
        BY <2>1 DEF Begin
    <2>3. \A c, d \in Conns : Clash(c, d)' => Clash(c, d) /\ ~Repairs(p, c, d)
        BY <2>2 DEF Clash, Repairs, Live, Group, Repairing
    <2>. QED
        BY <1>0, <2>2, <2>3, DefaultsKept DEF TypeOK
<1>5. CASE Lookup(p)
    <2>1. h.at \notin Repairing /\ UNCHANGED <<row, mixed>>
        BY <1>5 DEF Lookup, Local, Repairing
    <2>. QED
        BY <1>2, <1>3, <1>5, <2>1 DEF Lookup
<1>6. CASE Existing(p)
    <2>1. h.at \notin Repairing /\ UNCHANGED <<row, mixed>>
        BY <1>6 DEF Existing, Local, Repairing
    <2>. QED
        BY <1>2, <1>6, <2>1 DEF Existing
<1>7. CASE Insert(p)
    <2>. DEFINE first == [Free EXCEPT !.live = "live", !.default = ~h.found]
    <2>1. PICK n \in Conns :
            /\ row' = [row EXCEPT ![n] = first]
            /\ Goto(p, [h EXCEPT !.at = "clear", !.conn = n, !.old = first,
                                 !.new = Apply(first, h.want)])
        BY <1>7 DEF Insert, Fresh
    <2>. HIDE DEF first
    <2>2. thread'[p].at = "clear" /\ thread'[p].conn = n
        <3>. DEFINE r == [h EXCEPT !.at = "clear", !.conn = n, !.old = first,
                                   !.new = Apply(first, h.want)]
        <3>1. r.at = "clear" /\ r.conn = n
            BY <1>0 DEF Handler
        <3>. HIDE DEF r
        <3>2. Goto(p, r)
            BY <2>1 DEF r
        <3>. QED
            BY <1>1, <3>1, <3>2
    <2>3. \A c, d \in Conns : n \in {c, d} => Repairs(p, c, d)'
        BY <2>2 DEF Repairs, Repairing
    <2>4. \A c, d \in Conns : n \notin {c, d} /\ Clash(c, d)' => Clash(c, d) /\ ~Repairs(p, c, d)
        BY <1>0, <1>7, <2>1 DEF Insert, Clash, Repairs, Repairing, Live, Group, TypeOK
    <2>. QED
        BY <1>1, <1>7, <2>1, <2>3, <2>4, DefaultsKept DEF Insert
<1>8. CASE InsertConflict(p)
    <2>1. h.at \notin Repairing /\ UNCHANGED <<row, mixed>>
        BY <1>8 DEF InsertConflict, Local, Repairing
    <2>. QED
        BY <1>3, <1>8, <2>1 DEF InsertConflict
<1>9. CASE ClearKey(p) \/ PutKey(p)
    <2>0. PICK at \in {"put", "commit"} : \E b : Goto(p, [h EXCEPT !.at = at, !.new.keyRef = b])
        BY <1>9 DEF ClearKey, PutKey
    <2>1. PICK b : Goto(p, [h EXCEPT !.at = at, !.new.keyRef = b])
        BY <2>0
    <2>2. LET r == [h EXCEPT !.at = at, !.new.keyRef = b] IN r.at = at /\ r.conn = h.conn
        BY <1>0 DEF Handler
    <2>3. UNCHANGED <<row, mixed>>
        BY <1>9 DEF ClearKey, PutKey
    <2>. QED
        BY <1>2, <2>1, <2>2, <2>3 DEF Repairing
<1>10. CASE PutFails(p) \/ Crash(p)
    <2>1. Done(p) /\ UNCHANGED row /\ mixed \subseteq mixed'
        BY <1>10 DEF PutFails, Crash
    <2>2. h.at \in Repairing => Group(h.conn) \in mixed'
        BY <1>0, <1>10, ConnsAssumption
        DEF PutFails, Crash, Repairing, Saving, HandlerOK, Working
    <2>3. \A c, d \in Conns : Clash(c, d)' => Clash(c, d) /\ Group(c) = Group(d)
        BY <2>1 DEF Clash, Live, Group
    <2>4. \A c, d \in Conns : Clash(c, d)' =>
             Group(c) \in mixed' \/ (Clash(c, d) /\ ~Repairs(p, c, d))
        BY <2>2, <2>3 DEF Repairs
    <2>. QED
        BY <1>1, <2>1, <2>4, DefaultsKept DEF Done
<1>11. CASE CommitRow(p)
    <2>1. CASE Live(h.conn)
        <3>1. /\ row' = [row EXCEPT ![h.conn] = Flush(h.new, h.old, @)]
              /\ Move(p, "refresh") /\ UNCHANGED mixed
            BY <1>11, <2>1 DEF CommitRow
        <3>2. thread'[p].at = "refresh" /\ thread'[p].conn = h.conn
            BY <1>0, <1>1, <3>1 DEF Move, Handler
        <3>3. \A c, d \in Conns : h.conn \in {c, d} => Repairs(p, c, d)'
            BY <3>2 DEF Repairs, Repairing
        <3>4. \A c, d \in Conns : h.conn \notin {c, d} /\ Clash(c, d)' =>
                 Clash(c, d) /\ ~Repairs(p, c, d)
            BY <1>0, <3>1 DEF Clash, Repairs, Live, Group, TypeOK
        <3>. QED
            BY <1>1, <3>1, <3>3, <3>4, DefaultsKept DEF Move
    <2>2. CASE ~Live(h.conn)
        BY <1>3, <1>11, <2>2 DEF CommitRow
    <2>. QED
        BY <2>1, <2>2
<1>12. CASE Refresh(p)
    <2>1. [h EXCEPT !.at = "others"].at = "others" /\ [h EXCEPT !.at = "others"].conn = h.conn
        BY <1>0 DEF Handler
    <2>2. UNCHANGED <<row, mixed>>
        BY <1>12 DEF Refresh, Local
    <2>. QED
        BY <1>2, <1>3, <1>12, <2>1, <2>2 DEF Refresh, Move, Repairing
<1>13. CASE ClearOthers(p)
    <2>1. /\ row' = [c \in Conns |-> [row[c] EXCEPT
                        !.default = @ /\ c \notin Peers(Group(h.conn)) \ {h.conn}]]
          /\ Done(p) /\ UNCHANGED mixed
        BY <1>13 DEF ClearOthers
    <2>2. ASSUME NEW c \in Conns
          PROVE  /\ row'[c].live = row[c].live
                 /\ row'[c].default => row[c].default /\ c \notin Peers(Group(h.conn)) \ {h.conn}
        BY <1>0, <2>1 DEF TypeOK, Config
    <2>3. \A c, d \in Conns : Clash(c, d)' => Clash(c, d)
        BY <2>2 DEF Clash, Live, Group
    <2>4. \A c, d \in Conns : Clash(c, d)' => c \notin {h.conn} /\ d \notin {h.conn}
        BY <2>2, <2>3 DEF Clash, Peers
    <2>. QED
        BY <1>1, <2>1, <2>3, <2>4, DefaultsKept DEF Done, Repairs
<1>14. CASE RemoveFile(p)
    <2>1. h.at \notin Repairing /\ UNCHANGED <<row, mixed>>
        BY <1>14 DEF RemoveFile, Repairing
    <2>. QED
        BY <1>2, <1>14, <2>1 DEF RemoveFile, Move
<1>15. CASE DeleteRow(p)
    <2>1. /\ row' = [row EXCEPT ![h.conn] = [Free EXCEPT !.live = "gone"]]
          /\ \E r : Goto(p, r)
          /\ UNCHANGED mixed /\ h.at = "delRow"
        BY <1>15 DEF DeleteRow, Move, Done
    <2>2. \A c, d \in Conns : Clash(c, d)' => Clash(c, d) /\ ~Repairs(p, c, d)
        BY <1>0, <2>1 DEF Clash, Repairs, Repairing, Live, Group, TypeOK, Free
    <2>. QED
        BY <1>1, <2>1, <2>2, DefaultsKept
<1>16. CASE Pick(p)
    <2>1. h.at \notin Repairing /\ UNCHANGED <<row, mixed>>
        BY <1>16 DEF Pick, Local, Repairing
    <2>. QED
        BY <1>2, <1>3, <1>16, <2>1 DEF Pick
<1>17. CASE Promote(p)
    <2>1. CASE Live(h.next)
        <3>1. /\ row' = [row EXCEPT ![h.next].default = Column(TRUE, h.old.default, @)]
              /\ mixed' = IF \E d \in Peers(Group(h.next)) \ {h.next} : row[d].default
                          THEN mixed \cup {Group(h.next)} ELSE mixed
              /\ h.at = "promote" /\ Done(p)
            BY <1>17, <2>1 DEF Promote
        <3>2. ASSUME NEW c \in Conns
              PROVE  /\ row'[c].live = row[c].live
                     /\ c # h.next => row'[c] = row[c]
            BY <1>0, <3>1 DEF TypeOK, Config
        <3>3. ASSUME NEW c \in Conns, NEW d \in Conns, Clash(c, d)', h.next \in {c, d}
              PROVE  Group(c) \in mixed'
            <4>1. PICK e \in {c, d} : e # h.next
                BY <3>3 DEF Clash
            <4>2. Live(e) /\ row[e].default /\ Group(e) = Group(h.next) /\ Group(c) = Group(h.next)
                BY <3>2, <3>3, <4>1 DEF Clash, Live, Group
            <4>3. e \in Peers(Group(h.next)) \ {h.next}
                BY <4>1, <4>2 DEF Peers
            <4>. QED
                BY <3>1, <4>2, <4>3
        <3>4. \A c, d \in Conns : Clash(c, d)' /\ h.next \notin {c, d} =>
                 Clash(c, d) /\ ~Repairs(p, c, d)
            BY <3>1, <3>2 DEF Clash, Repairs, Repairing, Live, Group
        <3>. QED
            BY <1>1, <3>1, <3>3, <3>4, DefaultsKept DEF Done
    <2>2. CASE ~Live(h.next)
        <3>1. Done(p) /\ UNCHANGED <<row, mixed>> /\ h.at \notin Repairing
            BY <1>17, <2>2 DEF Promote, Repairing
        <3>. QED
            BY <1>3, <3>1
    <2>. QED
        BY <2>1, <2>2
<1>18. CASE ReadKey(p)
    <2>1. h.at \notin Repairing /\ UNCHANGED <<row, mixed>>
        BY <1>18 DEF ReadKey, Local, Repairing
    <2>. QED
        BY <1>2, <1>3, <1>18, <2>1 DEF ReadKey
<1>19. CASE Call(p) \/ LlmSave(p)
    <2>1. h.at \notin Repairing /\ Done(p) /\ UNCHANGED <<row, mixed>>
        BY <1>19 DEF Call, LlmSave, Local, Repairing
    <2>. QED
        BY <1>3, <2>1
<1>20. CASE LlmClear(p) \/ LlmPut(p)
    <2>1. h.at \notin Repairing /\ UNCHANGED <<row, mixed>>
        BY <1>20 DEF LlmClear, LlmPut, Repairing
    <2>2. \E r : Goto(p, r)
        BY <1>20 DEF LlmClear, LlmPut
    <2>. QED
        BY <1>2, <2>1, <2>2
<1>. QED
    BY <1>4, <1>5, <1>6, <1>7, <1>8, <1>9, <1>10, <1>11, <1>12, <1>13, <1>14, <1>15,
       <1>16, <1>17, <1>18, <1>19, <1>20 DEF HandlerStep

\* Saves of one provider leave at most one default, in any interleaving: a second one has a
\* handler that will clear it (upsert_tenant_provider_config, delete_tenant_provider_config).
THEOREM SecondDefaultsAreRepaired == Spec => []DefaultsAreRepaired
<1>1. TypeInv /\ DefaultInv /\ [Next]_vars => DefaultInv'
    <2>. SUFFICES ASSUME TypeInv, DefaultInv, [Next]_vars PROVE DefaultInv'
        OBVIOUS
    <2>1. CASE Next
        BY <2>1, StepsOfNext, DefaultInvStep
    <2>2. CASE UNCHANGED vars
        BY <2>2 DEF vars, DefaultInv, Clash, Repairs, Live, Group
    <2>. QED
        BY <2>1, <2>2
<1>2. DefaultInv => DefaultsAreRepaired
    <2>. SUFFICES ASSUME DefaultInv, NEW t \in Tenants, NEW s \in Slugs, <<t, s>> \notin mixed,
                         ~\E p \in Threads : thread[p].at \in Repairing
                                              /\ Group(thread[p].conn) = <<t, s>>
                  PROVE  Cardinality({c \in Peers(<<t, s>>) : row[c].default}) <= 1
        BY DEF DefaultsAreRepaired, Repairing
    <2>. DEFINE D == {c \in Peers(<<t, s>>) : row[c].default}
    <2>1. ASSUME NEW c \in D, NEW d \in D PROVE c = d
        <3>. SUFFICES ASSUME c # d PROVE FALSE
            OBVIOUS
        <3>1. Clash(c, d) /\ c \in Conns /\ d \in Conns /\ Group(c) = <<t, s>> /\ Group(d) = <<t, s>>
            BY DEF Clash, Peers
        <3>. QED
            BY <3>1 DEF DefaultInv, Repairs
    <2>. QED
        BY <2>1, AtMostOne
<1>. QED
    BY <1>1, <1>2, TypeInvAlways, DefaultInvInit, PTL DEF Spec

-----------------------------------------------------------------------------
(* What a handler knows of the row and the file it works on.               *)

Match(c) == row[c].keyRef <=> file[c] # NoSecret

BusyOn(p, c) == thread[p].conn = c /\ thread[p].at \notin {"key", "got"}

\* A save compares the key reference of its object with the one it loaded, so both
\* must be the row's until the commit; the file is ahead of the row in between.
Agrees(p) ==
    LET h == thread[p] c == h.conn
    IN  /\ row[c].live # "free" /\ (h.at \in Repairing => Live(c))
        /\ h.at \in Working \ {"put", "commit", "delRow"} => Match(c)
        /\ h.at \in {"clear", "put", "commit", "delFile"} => h.old.keyRef = row[c].keyRef
        /\ h.at = "lookup" /\ h.old.live = "live" => h.old.keyRef = row[c].keyRef
        /\ h.at = "clear" => h.new.keyRef = row[c].keyRef
        /\ h.at \in {"put", "commit"} => (h.new.keyRef <=> file[c] # NoSecret)
        /\ h.at = "delRow" => file[c] = NoSecret

MatchInv ==
    /\ \A p \in Threads : \A c \in Conns \ disturbed : BusyOn(p, c) => Agrees(p)
    /\ \A p, q \in Threads : \A c \in Conns \ disturbed : BusyOn(p, c) /\ BusyOn(q, c) => p = q
    /\ \A c \in Conns \ disturbed : (\A p \in Threads : ~BusyOn(p, c)) => Match(c)
    /\ \A c \in Conns : row[c].live = "free" => ~row[c].keyRef

\* The part of a connection the invariant reads.
SameKey(d) ==
    /\ row'[d].live = row[d].live /\ row'[d].keyRef = row[d].keyRef
    /\ file'[d] = file[d]

\* One handler moves and touches the row and the file of one connection at most.
LEMMA MatchKept ==
    ASSUME TypeInv, MatchInv, NEW p \in Threads, NEW c,
           \A q \in Threads \ {p} : thread'[q] = thread[q],
           disturbed \subseteq disturbed',
           \A d \in Conns \ {c} : SameKey(d) /\ ~BusyOn(p, d) /\ ~BusyOn(p, d)',
           c \in Conns /\ row'[c].live = "free" => ~row'[c].keyRef,
           c \in Conns \ disturbed' =>
               /\ \A q \in Threads \ {p} : ~BusyOn(q, c)
               /\ BusyOn(p, c)' => Agrees(p)'
               /\ ~BusyOn(p, c)' => Match(c)'
    PROVE  MatchInv'
<1>1. ASSUME NEW q \in Threads \ {p} PROVE \A d : BusyOn(q, d)' <=> BusyOn(q, d)
    BY <1>1 DEF BusyOn
<1>2. ASSUME NEW q \in Threads, NEW d \in Conns \ disturbed', BusyOn(q, d)'
      PROVE  Agrees(q)'
    <2>1. CASE d = c
        BY <1>1, <1>2, <2>1
    <2>2. CASE d # c
        <3>1. q # p /\ SameKey(d)
            BY <1>2, <2>2
        <3>2. BusyOn(q, d) /\ Agrees(q) /\ thread[q].conn = d
            BY <1>1, <1>2, <3>1 DEF MatchInv, BusyOn
        <3>. QED
            BY <3>1, <3>2 DEF Agrees, SameKey, Match, Live
    <2>. QED
        BY <2>1, <2>2
<1>3. ASSUME NEW q \in Threads, NEW r \in Threads, NEW d \in Conns \ disturbed',
             BusyOn(q, d)', BusyOn(r, d)'
      PROVE  q = r
    <2>1. CASE d = c
        BY <1>1, <1>3, <2>1
    <2>2. CASE d # c
        BY <1>1, <1>3, <2>2 DEF MatchInv
    <2>. QED
        BY <2>1, <2>2
<1>4. ASSUME NEW d \in Conns \ disturbed', \A q \in Threads : ~BusyOn(q, d)'
      PROVE  Match(d)'
    <2>1. CASE d = c
        BY <1>4, <2>1
    <2>2. CASE d # c
        <3>1. SameKey(d) /\ \A q \in Threads : ~BusyOn(q, d)
            BY <1>1, <1>4, <2>2
        <3>2. Match(d)
            BY <3>1 DEF MatchInv
        <3>. QED
            BY <3>1, <3>2 DEF SameKey, Match
    <2>. QED
        BY <2>1, <2>2
<1>5. ASSUME NEW d \in Conns, row'[d].live = "free" PROVE ~row'[d].keyRef
    <2>1. CASE d # c
        <3>1. SameKey(d)
            BY <2>1
        <3>2. row[d].live = "free" => ~row[d].keyRef
            BY DEF MatchInv
        <3>. QED
            BY <1>5, <3>1, <3>2 DEF SameKey
    <2>. QED
        BY <1>5, <2>1
<1>. QED
    BY <1>2, <1>3, <1>4, <1>5 DEF MatchInv

LEMMA MatchInvInit == Init => MatchInv
<1>. SUFFICES ASSUME Init PROVE MatchInv
    OBVIOUS
<1>1. PICK S \in SUBSET Conns, D \in SUBSET Conns :
        /\ row = [c \in Conns |-> IF c \in S
                     THEN [Free EXCEPT !.live = "live", !.default = c \in D, !.keyRef = TRUE]
                     ELSE Free]
        /\ file = [r \in Conns \cup Tenants |->
                      IF r \in S THEN [owner |-> r, key |-> CHOOSE k \in KeyIds : TRUE]
                      ELSE NoSecret]
    BY DEF Init
<1>2. (CHOOSE k \in KeyIds : TRUE) # 0
    BY ConnsAssumption
<1>3. ASSUME NEW c \in Conns PROVE Match(c) /\ (row[c].live = "free" => ~row[c].keyRef)
    <2>1. CASE c \in S
        <3>1. row[c].keyRef = TRUE /\ row[c].live = "live"
            BY <1>1, <2>1 DEF Free
        <3>2. file[c] = [owner |-> c, key |-> CHOOSE k \in KeyIds : TRUE]
            BY <1>1, <2>1
        <3>3. file[c].key # 0
            BY <1>2, <3>2
        <3>4. file[c] # NoSecret
            BY <3>3 DEF NoSecret
        <3>. QED
            BY <3>1, <3>4 DEF Match
    <2>2. CASE c \notin S
        BY <1>1, <2>2 DEF Match, Free
    <2>. QED
        BY <2>1, <2>2
<1>4. \A p \in Threads : thread[p].conn = NoConn
    BY DEF Init, Idle
<1>5. \A p \in Threads : \A c \in Conns : ~BusyOn(p, c)
    BY <1>4, ConnsAssumption DEF BusyOn
<1>. QED
    BY <1>3, <1>5 DEF MatchInv

LEMMA MatchInvRequest ==
    ASSUME TypeInv, MatchInv, NEW p \in Threads, Request(p)
    PROVE  MatchInv'
<1>1. PICK op, n : op \in Ops /\ Started(n) /\ Begin(p, op, n)
    BY DEF Request
<1>2. /\ thread[p].at = "idle" /\ UNCHANGED <<row, file>>
      /\ disturbed' = disturbed \cup {c \in {n.conn} \ {NoConn} : Shared(p, c)}
      /\ thread' = [thread EXCEPT ![p] = n]
    BY <1>1 DEF Begin
<1>3. thread'[p] = n /\ \A q \in Threads \ {p} : thread'[q] = thread[q]
    BY <1>2 DEF TypeInv, TypeOK
<1>4. HandlerOK(n) /\ n.at \in {"existing", "lookup", "delFile", "key", "got", "llmClear"}
    BY <1>1 DEF Started
<1>5. thread[p].conn = NoConn /\ \A d \in Conns : SameKey(d) /\ ~BusyOn(p, d)
    BY <1>2, ConnsAssumption DEF TypeInv, HandlerOK, SameKey, BusyOn
<1>6. \A d \in Conns \ {n.conn} : ~BusyOn(p, d)'
    BY <1>3 DEF BusyOn
<1>7. ASSUME n.conn \in Conns PROVE row'[n.conn].live = "free" => ~row'[n.conn].keyRef
    BY <1>2, <1>7 DEF MatchInv
<1>8. ASSUME n.at \in {"lookup", "delFile"}, n.conn \in Conns \ disturbed'
      PROVE  /\ \A q \in Threads \ {p} : ~BusyOn(q, n.conn)
             /\ Agrees(p)'
    <2>1. n.conn # NoConn /\ n.conn \in Conns \ disturbed /\ ~Shared(p, n.conn)
        BY <1>2, <1>8, ConnsAssumption
    <2>2. \A q \in Threads \ {p} : ~BusyOn(q, n.conn)
        BY <2>1 DEF Shared, BusyOn
    <2>3. Match(n.conn)
        BY <1>5, <2>1, <2>2 DEF MatchInv
    <2>4. Match(n.conn)'
        BY <1>2, <2>3 DEF Match
    <2>5. /\ row[n.conn].live # "free"
          /\ n.at = "lookup" /\ n.old.live = "live" => n.old.keyRef = row[n.conn].keyRef
          /\ n.at = "delFile" => n.old.keyRef = row[n.conn].keyRef
        BY <1>1, <2>1 DEF Started
    <2>6. Agrees(p)'
        BY <1>2, <1>3, <1>8, <2>4, <2>5 DEF Agrees, Repairing
    <2>. QED
        BY <2>2, <2>6
<1>9. CASE n.at \in {"lookup", "delFile"}
    <2>1. BusyOn(p, n.conn)'
        BY <1>3, <1>9 DEF BusyOn
    <2>. QED
        BY <1>2, <1>3, <1>5, <1>6, <1>7, <1>8, <1>9, <2>1, MatchKept
<1>10. CASE n.at \notin {"lookup", "delFile"}
    <2>1. \A d \in Conns : ~BusyOn(p, d)'
        BY <1>3, <1>4, <1>10, ConnsAssumption DEF HandlerOK, BusyOn, Llm
    <2>. QED
        BY <1>2, <1>3, <1>5, <2>1, ConnsAssumption, MatchKept
<1>. QED
    BY <1>9, <1>10

LEMMA MatchInvStep ==
    ASSUME TypeInv, MatchInv, NEW p \in Threads, HandlerStep(p)
    PROVE  MatchInv'
<1>. DEFINE h == thread[p]
<1>0. HandlerOK(h) /\ h \in Handler /\ TypeOK /\ h.new \in Config /\ h.old \in Config
    BY DEF TypeInv, TypeOK, Handler
<1>1. ASSUME NEW r, Goto(p, r)
      PROVE  thread'[p] = r /\ \A q \in Threads \ {p} : thread'[q] = thread[q]
    BY <1>0, <1>1 DEF Goto, TypeOK
<1>2. UNCHANGED <<row, file>> => \A d : SameKey(d)
    BY DEF SameKey
\* A handler that works on no connection, before and after.
<1>3. ASSUME NEW r, Goto(p, r), disturbed \subseteq disturbed',
             h.conn = NoConn \/ h.at \in {"key", "got"},
             r.conn = NoConn \/ r.at \in {"key", "got"},
             \A d \in Conns : SameKey(d)
      PROVE  MatchInv'
    <2>1. \A d \in Conns : ~BusyOn(p, d) /\ ~BusyOn(p, d)'
        BY <1>1, <1>3, ConnsAssumption DEF BusyOn
    <2>. QED
        BY <1>1, <1>3, <2>1, ConnsAssumption, MatchKept
\* A handler that stays with its connection ...
<1>4. ASSUME NEW c \in Conns, h.conn = c, h.at \in Working, disturbed \subseteq disturbed',
             NEW r, Goto(p, r), r.conn = c, r.at \in Working,
             \A d \in Conns \ {c} : SameKey(d),
             row'[c].live = "free" => ~row'[c].keyRef,
             Agrees(p) => Agrees(p)'
      PROVE  MatchInv'
    <2>1. BusyOn(p, c) /\ BusyOn(p, c)'
        BY <1>1, <1>4 DEF BusyOn, Working, Repairing
    <2>2. \A d \in Conns \ {c} : ~BusyOn(p, d) /\ ~BusyOn(p, d)'
        BY <1>1, <1>4 DEF BusyOn
    <2>3. c \in Conns \ disturbed' => Agrees(p)' /\ \A q \in Threads \ {p} : ~BusyOn(q, c)
        BY <1>4, <2>1 DEF MatchInv
    <2>. QED
        BY <1>1, <1>4, <2>1, <2>2, <2>3, MatchKept
\* ... or leaves it.
<1>5. ASSUME NEW c \in Conns, h.conn = c, h.at \in Working, disturbed \subseteq disturbed',
             Done(p),
             \A d \in Conns \ {c} : SameKey(d),
             row'[c].live = "free" => ~row'[c].keyRef,
             Agrees(p) => c \in disturbed' \/ Match(c)'
      PROVE  MatchInv'
    <2>1. thread'[p] = Idle /\ Idle.conn = NoConn
        BY <1>1, <1>5 DEF Done, Idle
    <2>2. BusyOn(p, c) /\ ~BusyOn(p, c)'
        BY <1>5, <2>1, ConnsAssumption DEF BusyOn, Working, Repairing
    <2>3. \A d \in Conns \ {c} : ~BusyOn(p, d) /\ ~BusyOn(p, d)'
        BY <1>5, <2>1, ConnsAssumption DEF BusyOn
    <2>4. c \in Conns \ disturbed' => Match(c)' /\ \A q \in Threads \ {p} : ~BusyOn(q, c)
        BY <1>5, <2>2 DEF MatchInv
    <2>. QED
        BY <1>1, <1>5, <2>2, <2>3, <2>4, MatchKept DEF Done
\* It leaves it as it is.
<1>6. ASSUME NEW c \in Conns, h.conn = c, h.at \in Working, UNCHANGED <<row, file>>,
             disturbed \subseteq disturbed', Done(p),
             Agrees(p) => c \in disturbed' \/ Match(c)
      PROVE  MatchInv'
    <2>1. row'[c].live = "free" => ~row'[c].keyRef
        BY <1>6 DEF MatchInv
    <2>2. Match(c) => Match(c)'
        BY <1>6 DEF Match
    <2>. QED
        BY <1>2, <1>5, <1>6, <2>1, <2>2
<1>7. CASE Lookup(p)
    <2>1. PICK c \in Conns : h.conn = c
        BY <1>0, <1>7 DEF Lookup, HandlerOK, Working
    <2>2. h.at = "lookup" /\ UNCHANGED <<row, file, disturbed>>
        BY <1>7 DEF Lookup, Local
    <2>. DEFINE old == IF h.old.live = "live" THEN h.old ELSE row[h.conn]
                r == [h EXCEPT !.at = "clear", !.old = old, !.new = Apply(old, h.want)]
    <2>3. CASE Live(c) /\ Goto(p, r)
        <3>1. old \in Config /\ h.want \in Payloads \cup {NoPayload}
            BY <1>0, <2>1 DEF TypeOK, Handler
        <3>2. r.at = "clear" /\ r.conn = c /\ r.old.keyRef = old.keyRef /\ r.new.keyRef = old.keyRef
            BY <1>0, <2>1, <3>1, ApplyType DEF Handler
        <3>3. Agrees(p) => old.keyRef = row[c].keyRef /\ row[c].live # "free" /\ Match(c)
            BY <2>1, <2>2 DEF Agrees, Working
        <3>. HIDE DEF r, old
        <3>4. Match(c) => Match(c)'
            BY <2>2 DEF Match
        <3>5. Agrees(p) => Agrees(p)'
            BY <1>1, <2>2, <2>3, <3>2, <3>3, <3>4 DEF Agrees, Live
        <3>6. row'[c].live = "free" => ~row'[c].keyRef
            BY <2>2 DEF MatchInv
        <3>. QED
            BY <1>2, <1>4, <2>1, <2>2, <2>3, <3>2, <3>5, <3>6 DEF Working, Repairing
    <2>4. CASE Done(p)
        <3>1. Agrees(p) => Match(c)
            BY <2>1, <2>2 DEF Agrees, Working
        <3>. QED
            BY <1>6, <2>1, <2>2, <2>4, <3>1 DEF Working
    <2>. QED
        BY <1>7, <2>1, <2>3, <2>4 DEF Lookup
<1>8. CASE Existing(p)
    <2>. DEFINE r == [h EXCEPT !.at = "insert", !.found = Peers(<<h.tenant, h.slug>>) # {}]
    <2>1. h.conn = NoConn /\ Goto(p, r) /\ UNCHANGED <<row, file, disturbed>>
        BY <1>0, <1>8 DEF Existing, Local, HandlerOK
    <2>2. r.conn = NoConn
        BY <1>0, <2>1 DEF Handler
    <2>. QED
        BY <1>2, <1>3, <2>1, <2>2
<1>9. CASE Insert(p)
    <2>. DEFINE first == [Free EXCEPT !.live = "live", !.default = ~h.found]
    <2>1. PICK c \in Conns :
            /\ row[c].live = "free" /\ row' = [row EXCEPT ![c] = first]
            /\ Goto(p, [h EXCEPT !.at = "clear", !.conn = c, !.old = first,
                                 !.new = Apply(first, h.want)])
        BY <1>9 DEF Insert, Fresh
    <2>2. first \in Config /\ first.live = "live" /\ first.keyRef = FALSE
        BY <1>0 DEF Handler, Free, Config, Modes
    <2>. DEFINE r == [h EXCEPT !.at = "clear", !.conn = c, !.old = first,
                               !.new = Apply(first, h.want)]
    <2>. HIDE DEF first
    <2>3. /\ r.at = "clear" /\ r.conn = c
          /\ r.old.keyRef = FALSE /\ r.new.keyRef = FALSE
        BY <1>0, <2>2, ApplyType DEF Handler
    <2>4. Goto(p, r)
        BY <2>1
    <2>. HIDE DEF r
    <2>5. h.conn = NoConn /\ h.at = "insert" /\ UNCHANGED <<file, disturbed>>
        BY <1>0, <1>9 DEF Insert, HandlerOK
    <2>6. row'[c] = first /\ \A d \in Conns \ {c} : SameKey(d)
        BY <1>0, <2>1, <2>5 DEF TypeOK, SameKey
    <2>7. /\ \A d \in Conns : ~BusyOn(p, d)
          /\ \A d \in Conns \ {c} : ~BusyOn(p, d)'
          /\ BusyOn(p, c)'
        BY <1>1, <2>3, <2>4, <2>5, ConnsAssumption DEF BusyOn
    <2>8. ASSUME c \in Conns \ disturbed'
          PROVE  /\ \A q \in Threads \ {p} : ~BusyOn(q, c)
                 /\ Agrees(p)'
        <3>1. \A q \in Threads : ~BusyOn(q, c)
            BY <2>1, <2>5, <2>8 DEF MatchInv, Agrees, BusyOn
        <3>2. Match(c) /\ ~row[c].keyRef
            BY <2>1, <2>5, <2>8, <3>1 DEF MatchInv
        <3>3. file'[c] = NoSecret
            BY <2>5, <3>2 DEF Match
        <3>4. Agrees(p)'
            BY <1>1, <2>2, <2>3, <2>4, <2>6, <3>3 DEF Agrees, Match, Live
        <3>. QED
            BY <3>1, <3>4
    <2>9. row'[c].live = "free" => ~row'[c].keyRef
        BY <2>2, <2>6
    <2>. QED
        BY <1>1, <2>4, <2>5, <2>6, <2>7, <2>8, <2>9, MatchKept
<1>10. CASE InsertConflict(p)
    <2>1. h.conn = NoConn /\ Done(p) /\ UNCHANGED <<row, file, disturbed>>
        BY <1>0, <1>10 DEF InsertConflict, Local, HandlerOK
    <2>. QED
        BY <1>2, <1>3, <2>1 DEF Done, Idle
<1>11. CASE ClearKey(p)
    <2>1. PICK c \in Conns : h.conn = c
        BY <1>0, <1>11 DEF ClearKey, HandlerOK, Working, Repairing
    <2>. DEFINE clears == h.want.clear /\ h.new.keyRef
                r == [h EXCEPT !.at = "put", !.new.keyRef = @ /\ ~clears]
    <2>2. /\ h.at = "clear" /\ Goto(p, r) /\ UNCHANGED <<row, disturbed>>
          /\ file' = IF clears THEN [file EXCEPT ![c] = NoSecret] ELSE file
        BY <1>11, <2>1 DEF ClearKey, SecretRef
    <2>3. /\ r.at = "put" /\ r.conn = c /\ r.old = h.old
          /\ r.new.keyRef <=> h.new.keyRef /\ ~clears
        BY <1>0, <2>1 DEF Handler, Config
    <2>. HIDE DEF r
    <2>4. /\ \A d \in Conns \ {c} : SameKey(d)
          /\ IF clears THEN file'[c] = NoSecret ELSE file'[c] = file[c]
        BY <1>0, <2>2 DEF SameKey, TypeOK
    <2>5. Agrees(p) => /\ Live(c) /\ Match(c)
                       /\ h.old.keyRef = row[c].keyRef /\ h.new.keyRef = row[c].keyRef
        BY <2>1, <2>2 DEF Agrees, Working, Repairing
    <2>6. Agrees(p) => (r.new.keyRef <=> file'[c] # NoSecret)
        BY <2>3, <2>4, <2>5 DEF Match
    <2>7. Agrees(p) => Agrees(p)'
        BY <1>1, <2>2, <2>3, <2>5, <2>6 DEF Agrees, Live
    <2>8. row'[c].live = "free" => ~row'[c].keyRef
        BY <2>2 DEF MatchInv
    <2>. QED
        BY <1>4, <2>1, <2>2, <2>3, <2>4, <2>7, <2>8 DEF Working, Repairing
<1>12. CASE PutKey(p)
    <2>1. PICK c \in Conns : h.conn = c
        BY <1>0, <1>12 DEF PutKey, HandlerOK, Working, Repairing
    <2>. DEFINE typed == h.want.key # 0
                r == [h EXCEPT !.at = "commit", !.new.keyRef = @ \/ typed]
    <2>2. /\ h.at = "put" /\ Goto(p, r) /\ UNCHANGED <<row, disturbed>>
          /\ file' = IF typed THEN [file EXCEPT ![c] = [owner |-> c, key |-> h.want.key]] ELSE file
        BY <1>12, <2>1 DEF PutKey, SecretRef
    <2>3. /\ r.at = "commit" /\ r.conn = c /\ r.old = h.old
          /\ r.new.keyRef <=> h.new.keyRef \/ typed
        BY <1>0, <2>1 DEF Handler, Config
    <2>. HIDE DEF r
    <2>4. /\ \A d \in Conns \ {c} : SameKey(d)
          /\ IF typed THEN file'[c].key # 0 ELSE file'[c] = file[c]
        BY <1>0, <2>2 DEF SameKey, TypeOK
    <2>5. Agrees(p) => /\ Live(c) /\ h.old.keyRef = row[c].keyRef
                       /\ h.new.keyRef <=> file[c] # NoSecret
        BY <2>1, <2>2 DEF Agrees, Repairing
    <2>6. Agrees(p) => (r.new.keyRef <=> file'[c] # NoSecret)
        BY <2>3, <2>4, <2>5 DEF NoSecret
    <2>7. Agrees(p) => Agrees(p)'
        BY <1>1, <2>2, <2>3, <2>5, <2>6 DEF Agrees, Live
    <2>8. row'[c].live = "free" => ~row'[c].keyRef
        BY <2>2 DEF MatchInv
    <2>. QED
        BY <1>4, <2>1, <2>2, <2>3, <2>4, <2>7, <2>8 DEF Working, Repairing
<1>13. CASE PutFails(p)
    <2>1. PICK c \in Conns : h.conn = c
        BY <1>0, <1>13 DEF PutFails, HandlerOK, Working, Repairing
    <2>2. /\ h.at = "put" /\ Done(p) /\ UNCHANGED <<row, file>>
          /\ disturbed' = disturbed \cup {c}
        BY <1>13, <2>1 DEF PutFails
    <2>. QED
        BY <1>6, <2>1, <2>2 DEF Working, Repairing
<1>14. CASE CommitRow(p)
    <2>1. PICK c \in Conns : h.conn = c
        BY <1>0, <1>14 DEF CommitRow, HandlerOK, Working, Repairing
    <2>2. h.at = "commit" /\ UNCHANGED <<file, disturbed>>
        BY <1>14 DEF CommitRow
    <2>3. CASE Live(c)
        <3>. DEFINE r == [h EXCEPT !.at = "refresh"]
        <3>1. Goto(p, r) /\ row' = [row EXCEPT ![c] = Flush(h.new, h.old, row[c])]
            BY <1>14, <2>1, <2>3 DEF CommitRow, Move
        <3>2. r.at = "refresh" /\ r.conn = c
            BY <1>0, <2>1 DEF Handler
        <3>. HIDE DEF r
        <3>3. /\ row'[c].live = "live" /\ row'[c].keyRef = Column(h.new.keyRef, h.old.keyRef, row[c].keyRef)
              /\ \A d \in Conns \ {c} : SameKey(d)
            BY <1>0, <2>2, <2>3, <3>1 DEF TypeOK, SameKey, Flush, Live
        <3>4. Agrees(p) => row'[c].keyRef = h.new.keyRef /\ (h.new.keyRef <=> file'[c] # NoSecret)
            BY <2>1, <2>2, <3>3 DEF Agrees, Column
        <3>5. Agrees(p) => Agrees(p)'
            BY <1>1, <3>1, <3>2, <3>3, <3>4 DEF Agrees, Match, Live
        <3>. QED
            BY <1>4, <2>1, <2>2, <3>1, <3>2, <3>3, <3>5 DEF Working, Repairing
    <2>4. CASE ~Live(c)
        <3>1. Done(p) /\ UNCHANGED row
            BY <1>14, <2>1, <2>4 DEF CommitRow
        <3>2. ~Agrees(p)
            BY <2>1, <2>2, <2>4 DEF Agrees, Repairing
        <3>. QED
            BY <1>6, <2>1, <2>2, <3>1, <3>2 DEF Working, Repairing
    <2>. QED
        BY <2>3, <2>4
<1>15. CASE Refresh(p)
    <2>1. PICK c \in Conns : h.conn = c
        BY <1>0, <1>15 DEF Refresh, HandlerOK, Working, Repairing
    <2>2. h.at = "refresh" /\ UNCHANGED <<row, file, disturbed>>
        BY <1>15 DEF Refresh, Local
    <2>3. Agrees(p) => Match(c) /\ Live(c)
        BY <2>1, <2>2 DEF Agrees, Working, Repairing
    <2>4. CASE Move(p, "others")
        <3>. DEFINE r == [h EXCEPT !.at = "others"]
        <3>1. Goto(p, r) /\ r.at = "others" /\ r.conn = c
            BY <1>0, <2>1, <2>4 DEF Move, Handler
        <3>. HIDE DEF r
        <3>2. Agrees(p) => Agrees(p)'
            BY <1>1, <2>2, <2>3, <3>1 DEF Agrees, Match, Live
        <3>3. row'[c].live = "free" => ~row'[c].keyRef
            BY <2>2 DEF MatchInv
        <3>. QED
            BY <1>2, <1>4, <2>1, <2>2, <3>1, <3>2, <3>3 DEF Working, Repairing
    <2>5. CASE Done(p)
        BY <1>6, <2>1, <2>2, <2>3, <2>5 DEF Working, Repairing
    <2>. QED
        BY <1>15, <2>4, <2>5 DEF Refresh
<1>16. CASE ClearOthers(p)
    <2>1. PICK c \in Conns : h.conn = c
        BY <1>0, <1>16 DEF ClearOthers, HandlerOK, Working, Repairing
    <2>2. h.at = "others" /\ Done(p) /\ UNCHANGED <<file, disturbed>>
        BY <1>16 DEF ClearOthers
    <2>3. \A d \in Conns : SameKey(d)
        BY <1>0, <1>16, <2>2 DEF ClearOthers, SameKey, TypeOK, Config
    <2>4. Match(c) => Match(c)'
        BY <2>3 DEF Match, SameKey
    <2>5. Agrees(p) => Match(c)
        BY <2>1, <2>2 DEF Agrees, Working, Repairing
    <2>6. row'[c].live = "free" => ~row'[c].keyRef
        BY <2>3 DEF MatchInv, SameKey
    <2>. QED
        BY <1>5, <2>1, <2>2, <2>3, <2>4, <2>5, <2>6 DEF Working, Repairing
<1>17. CASE RemoveFile(p)
    <2>1. PICK c \in Conns : h.conn = c
        BY <1>0, <1>17 DEF RemoveFile, HandlerOK, Working
    <2>. DEFINE r == [h EXCEPT !.at = "delRow"]
    <2>2. /\ h.at = "delFile" /\ Goto(p, r) /\ UNCHANGED <<row, disturbed>>
          /\ file' = IF h.old.keyRef THEN [file EXCEPT ![c] = NoSecret] ELSE file
        BY <1>17, <2>1 DEF RemoveFile, SecretRef, Move
    <2>3. r.at = "delRow" /\ r.conn = c
        BY <1>0, <2>1 DEF Handler
    <2>. HIDE DEF r
    <2>4. /\ \A d \in Conns \ {c} : SameKey(d)
          /\ IF h.old.keyRef THEN file'[c] = NoSecret ELSE file'[c] = file[c]
        BY <1>0, <2>2 DEF SameKey, TypeOK
    <2>5. Agrees(p) => /\ row[c].live # "free" /\ Match(c)
                       /\ h.old.keyRef = row[c].keyRef
        BY <2>1, <2>2 DEF Agrees, Working
    <2>6. Agrees(p) => file'[c] = NoSecret
        BY <2>4, <2>5 DEF Match
    <2>7. Agrees(p) => Agrees(p)'
        BY <1>1, <2>2, <2>3, <2>5, <2>6 DEF Agrees, Repairing
    <2>8. row'[c].live = "free" => ~row'[c].keyRef
        BY <2>2 DEF MatchInv
    <2>. QED
        BY <1>4, <2>1, <2>2, <2>3, <2>4, <2>7, <2>8 DEF Working
<1>18. CASE DeleteRow(p)
    <2>1. PICK c \in Conns : h.conn = c
        BY <1>0, <1>18 DEF DeleteRow, HandlerOK, Working
    <2>2. /\ h.at = "delRow" /\ row' = [row EXCEPT ![c] = [Free EXCEPT !.live = "gone"]]
          /\ UNCHANGED <<file, disturbed>>
        BY <1>18, <2>1 DEF DeleteRow
    <2>3. /\ row'[c].live = "gone" /\ row'[c].keyRef = FALSE
          /\ \A d \in Conns \ {c} : SameKey(d)
        BY <1>0, <2>2 DEF TypeOK, SameKey, Free
    <2>4. Agrees(p) => Match(c)'
        BY <2>1, <2>2, <2>3 DEF Agrees, Match
    <2>5. CASE Move(p, "pick")
        <3>. DEFINE r == [h EXCEPT !.at = "pick"]
        <3>1. Goto(p, r) /\ r.at = "pick" /\ r.conn = c
            BY <1>0, <2>1, <2>5 DEF Move, Handler
        <3>. HIDE DEF r
        <3>2. Agrees(p) => Agrees(p)'
            BY <1>1, <2>3, <2>4, <3>1 DEF Agrees, Repairing
        <3>. QED
            BY <1>4, <2>1, <2>2, <2>3, <3>1, <3>2 DEF Working
    <2>6. CASE Done(p)
        BY <1>5, <2>1, <2>2, <2>3, <2>4, <2>6 DEF Working
    <2>. QED
        BY <1>18, <2>5, <2>6 DEF DeleteRow
<1>19. CASE Pick(p)
    <2>1. PICK c \in Conns : h.conn = c
        BY <1>0, <1>19 DEF Pick, HandlerOK, Working
    <2>2. h.at = "pick" /\ UNCHANGED <<row, file, disturbed>>
        BY <1>19 DEF Pick, Local
    <2>3. Agrees(p) => Match(c) /\ row[c].live # "free"
        BY <2>1, <2>2 DEF Agrees, Working
    <2>4. ASSUME NEW n, Goto(p, [h EXCEPT !.at = "promote", !.next = n, !.old = row[n]])
          PROVE  MatchInv'
        <3>. DEFINE r == [h EXCEPT !.at = "promote", !.next = n, !.old = row[n]]
        <3>1. Goto(p, r) /\ r.at = "promote" /\ r.conn = c
            BY <1>0, <2>1, <2>4 DEF Handler
        <3>. HIDE DEF r
        <3>2. Match(c) => Match(c)'
            BY <2>2 DEF Match
        <3>3. Agrees(p) => Agrees(p)'
            BY <1>1, <2>2, <2>3, <3>1, <3>2 DEF Agrees, Repairing
        <3>4. row'[c].live = "free" => ~row'[c].keyRef
            BY <2>2 DEF MatchInv
        <3>. QED
            BY <1>2, <1>4, <2>1, <2>2, <3>1, <3>3, <3>4 DEF Working
    <2>5. CASE Done(p)
        BY <1>6, <2>1, <2>2, <2>3, <2>5 DEF Working
    <2>. QED
        BY <1>19, <2>4, <2>5 DEF Pick
<1>20. CASE Promote(p)
    <2>1. PICK c \in Conns : h.conn = c
        BY <1>0, <1>20 DEF Promote, HandlerOK, Working
    <2>2. h.at = "promote" /\ Done(p) /\ UNCHANGED <<file, disturbed>>
        BY <1>20 DEF Promote
    <2>3. \A d \in Conns : SameKey(d)
        <3>1. CASE Live(h.next)
            <4>1. row' = [row EXCEPT ![h.next].default = Column(TRUE, h.old.default, @)]
                BY <1>20, <3>1 DEF Promote
            <4>. QED
                BY <1>0, <2>2, <4>1 DEF SameKey, TypeOK, Config
        <3>2. CASE ~Live(h.next)
            BY <1>20, <2>2, <3>2 DEF Promote, SameKey
        <3>. QED
            BY <3>1, <3>2
    <2>4. Match(c) => Match(c)'
        BY <2>3 DEF Match, SameKey
    <2>5. Agrees(p) => Match(c)
        BY <2>1, <2>2 DEF Agrees, Working
    <2>6. row'[c].live = "free" => ~row'[c].keyRef
        BY <2>3 DEF MatchInv, SameKey
    <2>. QED
        BY <1>5, <2>1, <2>2, <2>3, <2>4, <2>5, <2>6 DEF Working
<1>21. CASE ReadKey(p)
    <2>. DEFINE r == [h EXCEPT !.at = "got", !.got = KeyFor(h.conn, h.old)]
    <2>1. h.at = "key" /\ UNCHANGED <<row, file, disturbed>> /\ (Goto(p, r) \/ Done(p))
        BY <1>21 DEF ReadKey, Local
    <2>2. r.at = "got" /\ Idle.conn = NoConn
        BY <1>0 DEF Handler, Idle
    <2>. HIDE DEF r
    <2>. QED
        BY <1>2, <1>3, <2>1, <2>2 DEF Done
<1>22. CASE Call(p)
    <2>1. h.at = "got" /\ Done(p) /\ UNCHANGED <<row, file, disturbed>>
        BY <1>22 DEF Call, Local
    <2>. QED
        BY <1>2, <1>3, <2>1 DEF Done, Idle
<1>23. CASE LlmClear(p) \/ LlmPut(p)
    <2>0. PICK at \in {"llmPut", "llmSave"} : \E b : Goto(p, [h EXCEPT !.at = at, !.new.keyRef = b])
        BY <1>23 DEF LlmClear, LlmPut
    <2>1. PICK b : Goto(p, [h EXCEPT !.at = at, !.new.keyRef = b])
        BY <2>0
    <2>2. h.conn = NoConn /\ h.tenant \in Tenants /\ UNCHANGED <<row, disturbed>>
        BY <1>0, <1>23 DEF LlmClear, LlmPut, HandlerOK, Llm
    <2>3. \A d \in Conns : file'[d] = file[d]
        BY <1>0, <1>23, <2>2, ConnsAssumption DEF LlmClear, LlmPut, LegacyRef, TypeOK
    <2>4. \A d \in Conns : SameKey(d)
        BY <2>2, <2>3 DEF SameKey
    <2>. DEFINE r == [h EXCEPT !.at = at, !.new.keyRef = b]
    <2>5. r.conn = NoConn
        BY <1>0, <2>2 DEF Handler
    <2>. HIDE DEF r
    <2>6. Goto(p, r)
        BY <2>1 DEF r
    <2>. QED
        BY <1>3, <2>2, <2>4, <2>5, <2>6
<1>24. CASE LlmSave(p)
    <2>1. h.conn = NoConn /\ Done(p) /\ UNCHANGED <<row, file, disturbed>>
        BY <1>0, <1>24 DEF LlmSave, HandlerOK, Llm
    <2>. QED
        BY <1>2, <1>3, <2>1 DEF Done, Idle
<1>25. CASE Crash(p)
    <2>1. /\ h.at # "idle" /\ Done(p) /\ UNCHANGED <<row, file>>
          /\ disturbed' = disturbed \cup ({h.conn} \ {NoConn})
        BY <1>25 DEF Crash
    <2>2. CASE h.at \in Working
        <3>1. PICK c \in Conns : h.conn = c
            BY <1>0, <2>2 DEF HandlerOK
        <3>2. c \in disturbed' /\ disturbed \subseteq disturbed'
            BY <2>1, <3>1, ConnsAssumption
        <3>. QED
            BY <1>6, <2>1, <2>2, <3>1, <3>2
    <2>3. CASE h.at \notin Working
        <3>1. h.conn = NoConn \/ h.at \in {"key", "got"}
            BY <1>0, <2>3, PointsList DEF HandlerOK, Handler, Working, Repairing, Llm
        <3>2. disturbed \subseteq disturbed'
            BY <2>1
        <3>. QED
            BY <1>2, <1>3, <2>1, <3>1, <3>2 DEF Done, Idle
    <2>. QED
        BY <2>2, <2>3
<1>. QED
    BY <1>7, <1>8, <1>9, <1>10, <1>11, <1>12, <1>13, <1>14, <1>15, <1>16, <1>17, <1>18,
       <1>19, <1>20, <1>21, <1>22, <1>23, <1>24, <1>25 DEF HandlerStep

\* The secret file of a connection exists exactly when its row names it, except where two
\* operations on it overlapped or one was cut short (upsert_tenant_provider_config,
\* delete_tenant_provider_config, tenant_secrets).
THEOREM UndisturbedRowsAlwaysMatch == Spec => []UndisturbedRowsMatchFiles
<1>1. TypeInv /\ MatchInv /\ [Next]_vars => MatchInv'
    <2>. SUFFICES ASSUME TypeInv, MatchInv, [Next]_vars PROVE MatchInv'
        OBVIOUS
    <2>1. CASE Next
        BY <2>1, StepsOfNext, MatchInvRequest, MatchInvStep
    <2>2. CASE UNCHANGED vars
        BY <2>2 DEF vars, MatchInv, BusyOn, Agrees, Match, Live
    <2>. QED
        BY <2>1, <2>2
<1>2. MatchInv => UndisturbedRowsMatchFiles
    BY DEF MatchInv, BusyOn, Match, UndisturbedRowsMatchFiles, SecretRef
<1>. QED
    BY <1>1, <1>2, TypeInvAlways, MatchInvInit, PTL DEF Spec

-----------------------------------------------------------------------------
(* What is offered as ready can be called.                                 *)

\* A connection that the pages offer is reached by its identifier, and its row and key
\* pass the tests of the resolution (provider_config_is_ready,
\* resolve_provider_credentials).
THEOREM ReadyIsResolvable == Spec => []ReadyMeansResolvable
<1>1. TypeOK => ReadyMeansResolvable
    <2>. SUFFICES ASSUME TypeOK, NEW t \in Tenants, NEW s \in Slugs, NEW c \in ReadyConnections(t, s)
                  PROVE  Reachable(t, c) /\ Resolves(c)
        BY DEF ReadyMeansResolvable
    <2>1. Ready(c) /\ c \in Conns /\ Live(c) /\ Home[c] \in Visited(t)
        BY DEF ReadyConnections, Effective, Peers, Group
    <2>2. Reachable(t, c)
        BY <2>1 DEF Reachable
    <2>3. row[c].auth \in Modes
        BY <2>1 DEF TypeOK, Config
    <2>4. Admits(row[c])
        BY <2>1 DEF Ready, Admits, HasKey
    <2>5. Enough(SlugOf[c], row[c].auth, KeyFor(c, row[c]))
        <3>1. CASE row[c].auth = "tenant"
            BY <2>1, <3>1 DEF Ready, HasKey, Enough, KeyFor
        <3>2. CASE row[c].auth = "platform"
            <4>1. PlatformKey[SlugOf[c]] /\ KeyFor(c, row[c]) = Platform(SlugOf[c])
                BY <2>1, <3>2 DEF Ready, KeyFor
            <4>2. KeyFor(c, row[c]) # NoSecret
                BY <4>1 DEF Platform, NoSecret
            <4>. QED
                BY <4>2 DEF Enough
        <3>3. CASE row[c].auth = "none"
            BY <3>3 DEF Enough
        <3>. QED
            BY <2>3, <3>1, <3>2, <3>3 DEF Modes
    <2>. QED
        BY <2>2, <2>4, <2>5 DEF Resolves
<1>. QED
    BY <1>1, TypeCorrect, PTL
=============================================================================
