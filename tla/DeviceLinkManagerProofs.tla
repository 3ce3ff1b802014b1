----------------------- MODULE DeviceLinkManagerProofs -----------------------
(***************************************************************************)
(* Invariance proofs for DeviceLinkManager, for any ids, any number of     *)
(* session incarnations, any caps and any mailbox bound.                   *)
(***************************************************************************)
EXTENDS DeviceLinkManager, FiniteSetTheorems, TLAPS

-----------------------------------------------------------------------------
(* Partial functions *)

(* A partial function, by its domain and its values.                       *)
LEMMA PartialIs ==
    ASSUME NEW S, NEW T, NEW f
    PROVE  f \in Partial(S, T) <=>
              /\ f = [x \in DOMAIN f |-> f[x]]
              /\ DOMAIN f \subseteq S
              /\ \A x \in DOMAIN f : f[x] \in T
<1>1. ASSUME f \in Partial(S, T)
      PROVE  /\ f = [x \in DOMAIN f |-> f[x]]
             /\ DOMAIN f \subseteq S
             /\ \A x \in DOMAIN f : f[x] \in T
  <2>1. PICK D \in SUBSET S : f \in [D -> T]
    BY <1>1 DEF Partial
  <2> QED
    BY <2>1
<1>2. ASSUME /\ f = [x \in DOMAIN f |-> f[x]]
             /\ DOMAIN f \subseteq S
             /\ \A x \in DOMAIN f : f[x] \in T
      PROVE  f \in Partial(S, T)
  <2>1. f \in [DOMAIN f -> T]
    BY <1>2
  <2> QED
    BY <1>2, <2>1 DEF Partial
<1> QED
  BY <1>1, <1>2

(* Inserting, removing and starting empty keep partial functions partial.  *)
LEMMA PartialOps ==
    ASSUME NEW S, NEW T
    PROVE  /\ Empty \in Partial(S, T) /\ DOMAIN Empty = {}
           /\ \A f \in Partial(S, T), k \in S, v \in T : Put(f, k, v) \in Partial(S, T)
           /\ \A f \in Partial(S, T) : \A K : Drop(f, K) \in Partial(S, T)
<1>1. Empty \in Partial(S, T) /\ DOMAIN Empty = {}
  <2>1. DOMAIN Empty = {} /\ Empty = [x \in DOMAIN Empty |-> Empty[x]]
    BY DEF Empty
  <2> QED
    BY <2>1, PartialIs
<1>2. ASSUME NEW f \in Partial(S, T), NEW k \in S, NEW v \in T
      PROVE  Put(f, k, v) \in Partial(S, T)
  <2>1. DOMAIN f \subseteq S /\ \A x \in DOMAIN f : f[x] \in T
    BY PartialIs
  <2>2. Put(f, k, v) \in [DOMAIN f \cup {k} -> T]
    BY <2>1 DEF Put
  <2> QED
    BY <2>1, <2>2 DEF Partial
<1>3. ASSUME NEW f \in Partial(S, T), NEW K
      PROVE  Drop(f, K) \in Partial(S, T)
  <2>1. DOMAIN f \subseteq S /\ \A x \in DOMAIN f : f[x] \in T
    BY PartialIs
  <2>2. Drop(f, K) \in [DOMAIN f \ K -> T]
    BY <2>1 DEF Drop
  <2> QED
    BY <2>1, <2>2 DEF Partial
<1> QED
  BY <1>1, <1>2, <1>3

-----------------------------------------------------------------------------
(* Types *)

(* Every message posted is a Msg, whoever posts it.                        *)
LEMMA EventTypes ==
    /\ \A k \in {"DeviceDiscovered", "DeviceRemoved", "CheckStaleness", "SeedRestored", "Stop"},
          x \in Ids \cup {NoId} : Event(k, x) \in Msg
  BY DEF Event, Msg

(* A session's messages are Msg values.                                    *)
LEMMA ReportTypes ==
    ASSUME TypeOK, NEW i \in Incs
    PROVE  /\ \A c \in Ids : Identity(i, c) \in Msg
           /\ \A s \in Statuses : Status(i, s) \in Msg
<1>1. prov[i] \in Ids \cup {NoId}
  BY ConstantsAssumption DEF TypeOK
<1> QED
  BY <1>1 DEF Identity, Status, Msg

(* The stages a session may enter are stages.                              *)
LEMMA FollowsTypes ==
    ASSUME NEW s \in Stages
    PROVE  /\ Follows[s] \subseteq Stages
           /\ \A t \in Follows[s] \ Final : t = "Resolved" \/ LastReport(t) \in Statuses
  BY DEF Stages, Follows, Final, Statuses, LastReport

(* Taking a message and posting one keep the mailbox well-typed.           *)
LEMMA MailTypes ==
    ASSUME NEW s \in Seq(Msg)
    PROVE  /\ s # <<>> => Tail(s) \in Seq(Msg) /\ Head(s) \in Msg
           /\ \A x \in Msg : Append(s, x) \in Seq(Msg)
           /\ \A x, y \in Msg : s \o <<x, y>> \in Seq(Msg)
  OBVIOUS

(* Taking a message: the new mailbox, and the message taken.               *)
LEMMA TakeTypes ==
    ASSUME TypeOK, NEW m, Take(m)
    PROVE  mail' \in Seq(Msg) /\ m \in Msg /\ m = Head(mail)
  BY MailTypes DEF TypeOK, Take

(* Stop goes to incarnations.                                              *)
LEMMA SendStopTypes ==
    ASSUME TypeOK, NEW P, SendStop(P)
    PROVE  stopSent' \subseteq Incs
<1>1. \A p \in DOMAIN sessions : sessions[p] \in Incs
  BY PartialIs DEF TypeOK
<1> QED
  BY <1>1 DEF TypeOK, SendStop

(* TypeOK holds initially.                                                 *)
LEMMA TypeInit == Init => TypeOK
  BY PartialOps, PartialIs DEF Init, TypeOK

(* Starting a session keeps the tables well-typed.                         *)
LEMMA SpawnTypes ==
    ASSUME TypeOK, NEW p \in Prov, spawn_session(p)
    PROVE  /\ sessions' \in Partial(Prov, Incs)
           /\ stage' \in [Incs -> Stages \cup {"unborn"}]
           /\ prov' \in [Incs -> Prov \cup {NoId}]
  BY PartialOps DEF TypeOK, spawn_session, Stages

(* No handler of the manager breaks TypeOK.                                *)
LEMMA TypeManager ==
    ASSUME TypeOK, Manager
    PROVE  TypeOK'
<1> USE DEF TypeOK
<1>1. ASSUME NEW p \in Prov, DeviceDiscovered(p) PROVE TypeOK'
  BY <1>1, TakeTypes, SpawnTypes DEF DeviceDiscovered
<1>2. ASSUME NEW p \in Ids, DeviceRemoved(p) PROVE TypeOK'
  <2>1. mail' \in Seq(Msg)
    BY <1>2, TakeTypes DEF DeviceRemoved
  <2>2. CASE session_is_active(p)
    BY <1>2, <2>1, <2>2 DEF DeviceRemoved
  <2>3. CASE ~session_is_active(p)
    BY <1>2, <2>1, <2>3, PartialOps, SendStopTypes DEF DeviceRemoved
  <2> QED
    BY <2>2, <2>3
<1>3. CASE SessionIdentityResolved
  <2> DEFINE p == Head(mail).id
             c == Head(mail).canon
  <2>1. mail' \in Seq(Msg) /\ Head(mail) \in Msg
    BY <1>3, TakeTypes DEF SessionIdentityResolved
  <2>2. restored' \subseteq Ids
    BY <1>3 DEF SessionIdentityResolved
  <2>3. CASE c \in DOMAIN canonical
    BY <1>3, <2>1, <2>2, <2>3, SendStopTypes DEF SessionIdentityResolved
  <2>4. CASE c \notin DOMAIN canonical /\ p \notin discovered
    BY <1>3, <2>1, <2>2, <2>4 DEF SessionIdentityResolved
  <2>5. CASE c \notin DOMAIN canonical /\ p \in discovered
    <3>1. p \in Prov /\ p \in Ids
      BY <2>5, ConstantsAssumption
    <3>2. c \in Ids
      BY <1>3, <2>1 DEF SessionIdentityResolved, Msg
    <3> QED
      BY <1>3, <2>1, <2>2, <2>5, <3>1, <3>2, PartialOps DEF SessionIdentityResolved, Statuses
  <2> QED
    BY <2>3, <2>4, <2>5
<1>4. CASE SessionStatusChanged
  <2>1. mail' \in Seq(Msg) /\ Head(mail) \in Msg
    BY <1>4, TakeTypes DEF SessionStatusChanged
  <2>2. Head(mail).status \in Statuses
    BY <1>4, <2>1 DEF SessionStatusChanged, Msg
  <2>3. canonical' \in [DOMAIN canonical -> Statuses]
    <3>1. \A x \in DOMAIN canonical : canonical[x] \in Statuses
      BY PartialIs
    <3> QED
      BY <1>4, <2>2, <3>1 DEF SessionStatusChanged
  <2>4. canonical' \in Partial(Ids, Statuses)
    BY <2>3, PartialIs DEF Partial
  <2> QED
    BY <1>4, <2>1, <2>4 DEF SessionStatusChanged
<1>5. CASE CheckStaleness
  <2>1. mail' \in Seq(Msg) /\ stopSent' \subseteq Incs
    BY <1>5, TakeTypes, SendStopTypes DEF CheckStaleness
  <2>2. sessions' \in Partial(Prov, Incs)
    BY <1>5, PartialOps DEF CheckStaleness
  <2> QED
    BY <1>5, <2>1, <2>2 DEF CheckStaleness
<1>6. ASSUME NEW c \in Ids, SeedRestoredDevice(c) PROVE TypeOK'
  BY <1>6, TakeTypes DEF SeedRestoredDevice
<1>7. CASE Stop
  <2>1. /\ Empty \in Partial(Ids, Statuses) /\ Empty \in Partial(Prov, Ids)
        /\ Empty \in Partial(Ids, Prov) /\ Empty \in Partial(Prov, Incs)
    BY PartialOps
  <2>2. stopSent' \subseteq Incs
    BY <1>7, SendStopTypes DEF Stop
  <2>3. mail' \in Seq(Msg)
    BY <1>7 DEF Stop
  <2> QED
    BY <1>7, <2>1, <2>2, <2>3 DEF Stop
<1> QED
  BY <1>1, <1>2, <1>3, <1>4, <1>5, <1>6, <1>7 DEF Manager

(* Everything but the manager: it leaves the manager's variables alone,    *)
(* except that records grow old, and only adds to the mailbox.             *)
Surroundings ==
    \/ \E p \in Prov : MdnsFound(p) \/ MdnsRemoved(p) \/ RecordAges(p)
    \/ \E c \in UNION {Canon[p] : p \in Prov} : Seed(c)
    \/ StalenessTick \/ Shutdown
    \/ \E i \in Incs : SessionReports(i) \/ SessionRefused(i) \/ SessionStops(i)

(* A session i moves on along its life cycle.                              *)
Moves(i) ==
    /\ stage[i] \in Stages
    /\ \E s \in Follows[stage[i]] : stage' = [stage EXCEPT ![i] = s]

(* The messages of a session that says who it is.                          *)
Announces(i) ==
    \/ \E c \in Canon[prov[i]] :
        \/ mail' = Append(mail, Identity(i, c))
        \/ mail' = mail \o <<Identity(i, c), Status(i, "UnsupportedAuth")>>
    \/ \E s \in Statuses : mail' = Append(mail, Status(i, s))
    \/ mail' = mail

(* The shape of a step of the surroundings.                                *)
LEMMA SurroundingsShape ==
    ASSUME TypeOK, Surroundings
    PROVE  /\ UNCHANGED <<discovered, canonical, p2c, c2p, restored, sessions, running, prov,
                          stopSent>>
           /\ old' \subseteq discovered
           /\ \/ /\ stage' = stage
                 /\ \/ mail' = mail
                    \/ \E x \in Msg : /\ x.kind \notin {"Identity", "Status"}
                                     /\ mail' = Append(mail, x)
              \/ \E i \in Incs : Moves(i) /\ Announces(i)
<1>1. ASSUME NEW p \in Prov, MdnsFound(p) \/ MdnsRemoved(p)
      PROVE  /\ UNCHANGED <<managerVars, stage, prov, stopSent>>
             /\ \E x \in Msg : x.kind \notin {"Identity", "Status"} /\ mail' = Append(mail, x)
  <2>0. p \in Ids /\ RemovalId[p] \in Ids
    BY ConstantsAssumption
  <2>1. PICK k \in {"DeviceDiscovered", "DeviceRemoved"}, x \in Ids : mail' = Append(mail, Event(k, x))
    BY <1>1, <2>0 DEF MdnsFound, MdnsRemoved, Post
  <2>2. Event(k, x) \in Msg /\ Event(k, x).kind \notin {"Identity", "Status"}
    BY DEF Event, Msg
  <2> QED
    BY <1>1, <2>1, <2>2 DEF MdnsFound, MdnsRemoved
<1>2. ASSUME NEW p \in Prov, RecordAges(p)
      PROVE  /\ UNCHANGED <<discovered, canonical, p2c, c2p, restored, sessions, running, prov,
                            stopSent, stage, mail>>
             /\ old' \subseteq discovered
  BY <1>2 DEF RecordAges, TypeOK
<1>3. ASSUME NEW c \in Ids, Seed(c)
      PROVE  /\ UNCHANGED <<managerVars, stage, prov, stopSent>>
             /\ \E x \in Msg : x.kind \notin {"Identity", "Status"} /\ mail' = Append(mail, x)
  <2>1. mail' = Append(mail, Event("SeedRestored", c))
    BY <1>3 DEF Seed, Post
  <2>2. Event("SeedRestored", c) \in Msg /\ Event("SeedRestored", c).kind \notin {"Identity", "Status"}
    BY DEF Event, Msg
  <2> QED
    BY <1>3, <2>1, <2>2 DEF Seed
<1>4. ASSUME StalenessTick \/ Shutdown
      PROVE  /\ UNCHANGED <<managerVars, stage, prov, stopSent>>
             /\ \E x \in Msg : x.kind \notin {"Identity", "Status"} /\ mail' = Append(mail, x)
  <2>1. PICK k \in {"CheckStaleness", "Stop"} : mail' = Append(mail, Event(k, NoId))
    BY <1>4 DEF StalenessTick, Shutdown, Post
  <2>2. Event(k, NoId) \in Msg /\ Event(k, NoId).kind \notin {"Identity", "Status"}
    BY DEF Event, Msg
  <2> QED
    BY <1>4, <2>1, <2>2 DEF StalenessTick, Shutdown
<1>5. ASSUME NEW i \in Incs, SessionReports(i) \/ SessionRefused(i) \/ SessionStops(i)
      PROVE  /\ UNCHANGED <<managerVars, prov, stopSent>>
             /\ Moves(i) /\ Announces(i)
  <2>1. CASE SessionReports(i)
    <3>1. PICK s \in Follows[stage[i]] \ Final :
            /\ stage[i] \in Stages /\ stage' = [stage EXCEPT ![i] = s]
            /\ IF s = "Resolved" THEN \E c \in Canon[prov[i]] : Tell(Identity(i, c))
                                 ELSE Tell(Status(i, LastReport(s)))
      BY <2>1 DEF SessionReports
    <3>2. s = "Resolved" \/ LastReport(s) \in Statuses
      BY <3>1, FollowsTypes
    <3> QED
      BY <2>1, <3>1, <3>2 DEF SessionReports, Moves, Announces, Tell, Post
  <2>2. CASE SessionRefused(i)
    <3>1. stage[i] \in Stages /\ "UnsupportedAuth" \in Follows[stage[i]]
      BY <2>2 DEF SessionRefused, Stages, Follows
    <3> QED
      BY <2>2, <3>1 DEF SessionRefused, Moves, Announces
  <2>3. CASE SessionStops(i)
    BY <2>3 DEF SessionStops, Moves, Announces
  <2> QED
    BY <1>5, <2>1, <2>2, <2>3
<1>6. UNION {Canon[p] : p \in Prov} \subseteq Ids
  BY ConstantsAssumption
<1>7. managerVars' = managerVars =>
        /\ UNCHANGED <<discovered, canonical, p2c, c2p, restored, sessions, running>>
        /\ old' \subseteq discovered
  BY DEF managerVars, TypeOK
<1> QED
  BY <1>1, <1>2, <1>3, <1>4, <1>5, <1>6, <1>7 DEF Surroundings

(* Every session that was started was started for a provisional id.        *)
Born == \A i \in Incs : stage[i] \in Stages => prov[i] \in Prov

(* Born is inductive.                                                      *)
LEMMA BornStep ==
    ASSUME TypeOK, Born, [Next]_vars
    PROVE  Born'
<1>1. ASSUME NEW p \in Prov, DeviceDiscovered(p) PROVE Born'
  <2>1. CASE UNCHANGED <<stage, prov>>
    BY <2>1 DEF Born
  <2>2. CASE spawn_session(p)
    BY <2>2 DEF Born, spawn_session, TypeOK
  <2> QED
    BY <1>1, <2>1, <2>2 DEF DeviceDiscovered
<1>2. CASE Manager /\ ~(\E p \in Prov : DeviceDiscovered(p))
  <2>1. UNCHANGED <<stage, prov>>
    BY <1>2 DEF Manager, DeviceRemoved, SessionIdentityResolved, SessionStatusChanged,
                CheckStaleness, SeedRestoredDevice, Stop
  <2> QED
    BY <2>1 DEF Born
<1>3. CASE Surroundings
  <2>1. prov' = prov /\ (stage' = stage \/ \E i \in Incs : Moves(i))
    BY <1>3, SurroundingsShape
  <2> QED
    BY <2>1 DEF Born, Moves, TypeOK
<1>4. CASE UNCHANGED vars
  BY <1>4 DEF vars, Born
<1> QED
  BY <1>1, <1>2, <1>3, <1>4 DEF Next, Surroundings, Manager

(* TypeOK is inductive.                                                    *)
LEMMA TypeStep ==
    ASSUME TypeOK, Born, [Next]_vars
    PROVE  TypeOK'
<1>1. CASE Manager
  BY <1>1, TypeManager
<1>2. CASE Surroundings
  <2>1. ASSUME NEW i \in Incs, Moves(i)
        PROVE  stage' \in [Incs -> Stages \cup {"unborn"}]
    BY <2>1, FollowsTypes DEF Moves, TypeOK
  <2>2. ASSUME NEW i \in Incs, Announces(i), Moves(i)
        PROVE  mail' \in Seq(Msg)
    <3>1. \A c \in Canon[prov[i]] : Identity(i, c) \in Msg
      BY <2>2, ConstantsAssumption, ReportTypes DEF Born, Moves
    <3>2. \A s \in Statuses : Status(i, s) \in Msg
      BY ReportTypes
    <3>3. Status(i, "UnsupportedAuth") \in Msg
      BY <3>2 DEF Statuses
    <3>4. mail \in Seq(Msg)
      BY DEF TypeOK
    <3> QED
      BY <2>2, <3>1, <3>2, <3>3, <3>4, MailTypes DEF Announces
  <2>3. stage' \in [Incs -> Stages \cup {"unborn"}] /\ mail' \in Seq(Msg)
    <3>1. CASE stage' = stage
      BY <1>2, <2>1, <2>2, <3>1, SurroundingsShape, MailTypes DEF TypeOK
    <3>2. CASE \E i \in Incs : Moves(i) /\ Announces(i)
      BY <2>1, <2>2, <3>2
    <3> QED
      BY <1>2, <3>1, <3>2, SurroundingsShape
  <2> QED
    BY <1>2, <2>3, SurroundingsShape DEF TypeOK
<1>3. CASE UNCHANGED vars
  BY <1>3 DEF vars, TypeOK
<1> QED
  BY <1>1, <1>2, <1>3 DEF Next, Surroundings

-----------------------------------------------------------------------------
(* Sessions and records *)

(* No handler and no surrounding step forgets a running session.           *)
LEMMA LeakStep ==
    ASSUME TypeOK, NoLeakedSession, [Next]_vars
    PROVE  NoLeakedSession'
<1> USE DEF NoLeakedSession
<1>1. ASSUME NEW P, stage' = stage, SendStop(P), sessions' = Drop(sessions, P)
      PROVE  NoLeakedSession'
  BY <1>1 DEF SendStop, Drop
<1>2. ASSUME NEW p \in Prov, DeviceDiscovered(p) PROVE NoLeakedSession'
  <2>1. CASE UNCHANGED <<stage, sessions>>
    BY <1>2, <2>1 DEF DeviceDiscovered
  <2>2. CASE spawn_session(p) /\ p \notin DOMAIN sessions /\ ~(UNCHANGED <<stage, sessions>>)
    <3>1. PICK i \in Incs : /\ sessions' = Put(sessions, p, i)
                            /\ stage' = [stage EXCEPT ![i] = "Discovered"]
      BY <2>2 DEF spawn_session
    <3>2. stopSent' = stopSent
      BY <1>2 DEF DeviceDiscovered
    <3>3. sessions'[p] = i /\ p \in DOMAIN sessions'
      BY <3>1 DEF Put
    <3>4. \A q \in DOMAIN sessions : q \in DOMAIN sessions' /\ sessions'[q] = sessions[q]
      BY <2>2, <3>1 DEF Put
    <3>5. \A j \in Incs : j # i => stage'[j] = stage[j]
      BY <3>1 DEF TypeOK
    <3> QED
      BY <3>2, <3>3, <3>4, <3>5
  <2> QED
    BY <1>2, <2>1, <2>2 DEF DeviceDiscovered, spawn_session
<1>3. ASSUME NEW p \in Ids, DeviceRemoved(p) PROVE NoLeakedSession'
  <2>1. CASE session_is_active(p)
    BY <1>3, <2>1 DEF DeviceRemoved
  <2>2. CASE ~session_is_active(p)
    BY <1>1, <1>3, <2>2 DEF DeviceRemoved
  <2> QED
    BY <2>1, <2>2
<1>4. CASE SessionIdentityResolved
  BY <1>4 DEF SessionIdentityResolved, SendStop
<1>5. CASE CheckStaleness
  BY <1>1, <1>5 DEF CheckStaleness
<1>6. CASE SessionStatusChanged \/ \E c \in Ids : SeedRestoredDevice(c)
  BY <1>6 DEF SessionStatusChanged, SeedRestoredDevice
<1>7. CASE Stop
  BY <1>7 DEF Stop, SendStop
<1>8. CASE Surroundings
  <2>1. UNCHANGED <<sessions, stopSent>> /\ (stage' = stage \/ \E i \in Incs : Moves(i))
    BY <1>8, SurroundingsShape
  <2>2. \A i \in Incs : stage'[i] \in Stages \ Final => stage[i] \in Stages \ Final
    <3>1. ASSUME NEW i \in Incs, Moves(i) PROVE stage[i] \in Stages \ Final
      BY <3>1 DEF Moves, Follows, Stages, Final
    <3> QED
      BY <2>1, <3>1 DEF Moves, TypeOK
  <2> QED
    BY <2>1, <2>2
<1>9. CASE UNCHANGED vars
  BY <1>9 DEF vars
<1> QED
  BY <1>2, <1>3, <1>4, <1>5, <1>6, <1>7, <1>8, <1>9 DEF Next, Manager, Surroundings

(* Sessions and identities stay within the discovery records.              *)
LEMMA RecordsStep ==
    ASSUME TypeOK, RecordsCoverSessions, [Next]_vars
    PROVE  RecordsCoverSessions'
<1> USE DEF RecordsCoverSessions
<1>1. ASSUME NEW p \in Prov, DeviceDiscovered(p) PROVE RecordsCoverSessions'
  <2>1. CASE p \in discovered \/ Cardinality(discovered) >= MAX_DISCOVERED
    BY <1>1, <2>1 DEF DeviceDiscovered
  <2>2. CASE ~(p \in discovered \/ Cardinality(discovered) >= MAX_DISCOVERED)
    <3>1. DOMAIN sessions' \subseteq DOMAIN sessions \cup {p}
      BY <1>1, <2>2 DEF DeviceDiscovered, spawn_session, Put
    <3> QED
      BY <1>1, <2>2, <3>1 DEF DeviceDiscovered
  <2> QED
    BY <2>1, <2>2
<1>2. ASSUME NEW p \in Ids, DeviceRemoved(p) PROVE RecordsCoverSessions'
  <2>1. CASE session_is_active(p)
    BY <1>2, <2>1 DEF DeviceRemoved
  <2>2. CASE ~session_is_active(p)
    BY <1>2, <2>2 DEF DeviceRemoved, Drop
  <2> QED
    BY <2>1, <2>2
<1>3. CASE SessionIdentityResolved
  BY <1>3 DEF SessionIdentityResolved, Put
<1>4. CASE CheckStaleness
  BY <1>4 DEF CheckStaleness, Evictable, Drop
<1>5. CASE SessionStatusChanged \/ \E c \in Ids : SeedRestoredDevice(c)
  BY <1>5 DEF SessionStatusChanged, SeedRestoredDevice
<1>6. CASE Stop
  BY <1>6 DEF Stop
<1>7. CASE Surroundings
  BY <1>7, SurroundingsShape
<1>8. CASE UNCHANGED vars
  BY <1>8 DEF vars
<1> QED
  BY <1>1, <1>2, <1>3, <1>4, <1>5, <1>6, <1>7, <1>8 DEF Next, Manager, Surroundings

-----------------------------------------------------------------------------
(* The two id maps *)

(* Every identity on its way to the manager, and every identity it has     *)
(* filed, is one the board behind the provisional id may have.             *)
Announced ==
    \A j \in 1..Len(mail) : mail[j].kind = "Identity" => mail[j].canon \in Canon[mail[j].id]
Filed == \A p \in DOMAIN p2c : p2c[p] \in Canon[p]

(* Announced is inductive.                                                 *)
LEMMA AnnouncedStep ==
    ASSUME TypeOK, Born, Announced, [Next]_vars
    PROVE  Announced'
<1> USE DEF Announced
<1>1. mail \in Seq(Msg)
  BY DEF TypeOK
<1>2. ASSUME mail # <<>>, mail' = Tail(mail) PROVE Announced'
  BY <1>1, <1>2
<1>3. ASSUME NEW x, mail' = Append(mail, x),
             x.kind = "Identity" => x.canon \in Canon[x.id]
      PROVE  Announced'
  BY <1>1, <1>3
<1>4. CASE Manager
  <2>1. mail' = <<>> \/ (mail # <<>> /\ mail' = Tail(mail))
    BY <1>4 DEF Manager, DeviceDiscovered, DeviceRemoved, SessionIdentityResolved,
                SessionStatusChanged, CheckStaleness, SeedRestoredDevice, Stop, Take
  <2> QED
    BY <1>2, <2>1
<1>5. CASE Surroundings
  <2>1. CASE \/ mail' = mail
             \/ \E x \in Msg : /\ x.kind \notin {"Identity", "Status"}
                              /\ mail' = Append(mail, x)
    BY <1>3, <2>1
  <2>2. ASSUME NEW i \in Incs, Announces(i) PROVE Announced'
    <3>1. \A c \in Canon[prov[i]] : Identity(i, c).canon \in Canon[Identity(i, c).id]
      BY DEF Identity
    <3>2. \A s : Status(i, s).kind # "Identity"
      BY DEF Status
    <3>3. ASSUME NEW c \in Canon[prov[i]],
                 mail' = mail \o <<Identity(i, c), Status(i, "UnsupportedAuth")>>
          PROVE  Announced'
      BY <1>1, <3>1, <3>2, <3>3
    <3> QED
      BY <1>3, <2>2, <3>1, <3>2, <3>3 DEF Announces
  <2> QED
    BY <1>5, <2>1, <2>2, SurroundingsShape
<1>6. CASE UNCHANGED vars
  BY <1>6 DEF vars
<1> QED
  BY <1>4, <1>5, <1>6 DEF Next, Surroundings

(* A board does not change its hardware address, and no other board takes  *)
(* its place behind the same provisional id.                               *)
StableIdentity == \A p \in Prov : \A c, d \in Canon[p] : c = d

(* The maps stay inverse to each other as long as identities are stable.   *)
LEMMA MapsStep ==
    ASSUME StableIdentity, TypeOK, Announced, Filed, MapsInverse, [Next]_vars
    PROVE  Filed' /\ MapsInverse'
<1> USE DEF Filed, MapsInverse
<1>1. CASE UNCHANGED <<p2c, c2p>> /\ DOMAIN canonical' = DOMAIN canonical
  BY <1>1
<1>2. ASSUME NEW p \in Ids, DeviceRemoved(p) PROVE Filed' /\ MapsInverse'
  <2>1. CASE session_is_active(p)
    BY <1>2, <2>1 DEF DeviceRemoved
  <2>2. CASE ~session_is_active(p) /\ p \notin DOMAIN p2c
    BY <1>2, <2>2 DEF DeviceRemoved, Drop
  <2>3. CASE ~session_is_active(p) /\ p \in DOMAIN p2c
    <3>1. /\ p2c' = Drop(p2c, {p}) /\ c2p' = Drop(c2p, {p2c[p]})
          /\ canonical' = Drop(canonical, {p2c[p]})
      <4>1. {p2c[q] : q \in {p} \cap DOMAIN p2c} = {p2c[p]}
        BY <2>3
      <4> QED
        BY <1>2, <2>3, <4>1 DEF DeviceRemoved
    <3> QED
      BY <2>3, <3>1 DEF Drop
  <2> QED
    BY <2>1, <2>2, <2>3
<1>3. CASE SessionIdentityResolved
  <2> DEFINE p == Head(mail).id
             c == Head(mail).canon
  <2>1. CASE c \in DOMAIN canonical \/ p \notin discovered
    BY <1>3, <2>1 DEF SessionIdentityResolved
  <2>2. CASE c \notin DOMAIN canonical /\ p \in discovered
    <3>1. canonical' = Put(canonical, c, "Handshaking") /\ p2c' = Put(p2c, p, c)
          /\ c2p' = Put(c2p, c, p)
      BY <1>3, <2>2 DEF SessionIdentityResolved
    <3>2. c \in Canon[p]
      <4>1. mail # <<>> /\ mail \in Seq(Msg) /\ mail[1].kind = "Identity"
        BY <1>3 DEF SessionIdentityResolved, TypeOK
      <4> QED
        BY <4>1 DEF Announced
    <3>3. p \notin DOMAIN p2c
      BY <2>2, <3>2 DEF StableIdentity, TypeOK
    <3>4. DOMAIN p2c' = DOMAIN p2c \cup {p} /\ p2c'[p] = c
          /\ \A q \in DOMAIN p2c : p2c'[q] = p2c[q]
      BY <3>1, <3>3 DEF Put
    <3>5. DOMAIN c2p' = DOMAIN c2p \cup {c} /\ c2p'[c] = p
          /\ \A d \in DOMAIN c2p : c2p'[d] = c2p[d]
      BY <2>2, <3>1 DEF Put
    <3>6. DOMAIN canonical' = DOMAIN canonical \cup {c}
      BY <3>1 DEF Put
    <3> HIDE DEF p, c
    <3> QED
      BY <3>2, <3>4, <3>5, <3>6
  <2> QED
    BY <2>1, <2>2
<1>4. CASE Stop
  <2>1. DOMAIN Empty = {}
    BY PartialOps
  <2> QED
    BY <1>4, <2>1 DEF Stop
<1>5. CASE SessionStatusChanged
  BY <1>1, <1>5 DEF SessionStatusChanged
<1>6. CASE \/ \E p \in Prov : DeviceDiscovered(p)
           \/ CheckStaleness \/ \E c \in Ids : SeedRestoredDevice(c)
  BY <1>1, <1>6 DEF DeviceDiscovered, CheckStaleness, SeedRestoredDevice
<1>7. CASE Surroundings
  BY <1>1, <1>7, SurroundingsShape
<1>8. CASE UNCHANGED vars
  BY <1>1, <1>8 DEF vars
<1> QED
  BY <1>2, <1>3, <1>4, <1>5, <1>6, <1>7, <1>8 DEF Next, Manager, Surroundings

-----------------------------------------------------------------------------
(* The caps *)

(* The two bounded tables are finite and within their caps.                *)
Capped(S, n) == IsFiniteSet(S) /\ Cardinality(S) <= n
CapInv == Capped(discovered, MAX_DISCOVERED) /\ Capped(DOMAIN sessions, SessionCap)

(* Removing entries keeps a table within its cap.                          *)
LEMMA CapSubset ==
    ASSUME NEW S, NEW T \in SUBSET S, NEW n \in Nat, Capped(S, n)
    PROVE  Capped(T, n)
<1>1. /\ IsFiniteSet(T) /\ Cardinality(T) <= Cardinality(S)
      /\ Cardinality(T) \in Nat /\ Cardinality(S) \in Nat
  BY FS_Subset, FS_CardinalityType DEF Capped
<1> QED
  BY <1>1 DEF Capped

(* Adding one entry to a table below its cap keeps it within the cap.      *)
LEMMA CapAdd ==
    ASSUME NEW S, NEW x, NEW n \in Nat, Capped(S, n), ~(Cardinality(S) >= n)
    PROVE  Capped(S \cup {x}, n)
<1>1. /\ IsFiniteSet(S \cup {x}) /\ Cardinality(S) \in Nat
      /\ Cardinality(S \cup {x}) \in {Cardinality(S), Cardinality(S) + 1}
  BY FS_AddElement, FS_CardinalityType DEF Capped
<1> QED
  BY <1>1 DEF Capped

(* Both caps are inductive.                                                *)
LEMMA CapStep ==
    ASSUME TypeOK, CapInv, [Next]_vars
    PROVE  CapInv'
<1>0. MAX_DISCOVERED \in Nat /\ SessionCap \in Nat
  BY ConstantsAssumption
<1>1. CASE discovered' \subseteq discovered /\ DOMAIN sessions' \subseteq DOMAIN sessions
  BY <1>0, <1>1, CapSubset DEF CapInv
<1>2. ASSUME NEW p \in Prov, DeviceDiscovered(p) PROVE CapInv'
  <2>1. CASE UNCHANGED <<discovered, sessions>>
    BY <2>1 DEF CapInv
  <2>2. CASE /\ spawn_session(p) /\ discovered' = discovered \cup {p}
             /\ ~(Cardinality(discovered) >= MAX_DISCOVERED)
    <3>1. Capped(discovered', MAX_DISCOVERED)
      BY <1>0, <2>2, CapAdd DEF CapInv
    <3>2. \/ DOMAIN sessions' = DOMAIN sessions
          \/ /\ DOMAIN sessions' = DOMAIN sessions \cup {p}
             /\ ~(Cardinality(DOMAIN sessions) >= SessionCap)
      BY <2>2 DEF spawn_session, Put
    <3>3. Capped(DOMAIN sessions', SessionCap)
      BY <1>0, <3>2, CapAdd DEF CapInv
    <3> QED
      BY <3>1, <3>3 DEF CapInv
  <2> QED
    BY <1>2, <2>1, <2>2 DEF DeviceDiscovered
<1>3. ASSUME NEW p \in Ids, DeviceRemoved(p) PROVE CapInv'
  BY <1>1, <1>3 DEF DeviceRemoved, Drop
<1>4. CASE SessionIdentityResolved \/ SessionStatusChanged \/ \E c \in Ids : SeedRestoredDevice(c)
  BY <1>1, <1>4 DEF SessionIdentityResolved, SessionStatusChanged, SeedRestoredDevice
<1>5. CASE CheckStaleness
  BY <1>1, <1>5 DEF CheckStaleness, Drop
<1>6. CASE Stop
  BY <1>1, <1>6 DEF Stop, Empty
<1>7. CASE Surroundings
  BY <1>1, <1>7, SurroundingsShape
<1>8. CASE UNCHANGED vars
  BY <1>1, <1>8 DEF vars
<1> QED
  BY <1>2, <1>3, <1>4, <1>5, <1>6, <1>7, <1>8 DEF Next, Manager, Surroundings

-----------------------------------------------------------------------------
(* The status on file *)

(* A board that is found under its address is not found under another name *)
(* as well: the id of a record is no canonical id of another record.       *)
OwnNames == \A p, q \in Prov : p \in Canon[q] => p = q

(* A report of the session of p, and the status the manager files for it.  *)
IsReport(m, p) == m.kind \in {"Identity", "Status"} /\ m.id = p
Heard(m) == IF m.kind = "Identity" THEN "Handshaking" ELSE m.status

Silent(s, S, p) == \A k \in S : ~IsReport(s[k], p)

(* The reports about p in the mailbox s tell one story: it starts from the *)
(* status on file, "none" before there is a canonical record, and ends     *)
(* with the status the session reported last, and an identity is only      *)
(* announced by a session that was heard Handshaking before.               *)
StoryEnd(s, p, last) ==
    \A k \in 1..Len(s) :
        IsReport(s[k], p) /\ Silent(s, (k + 1)..Len(s), p) => Heard(s[k]) = last
StoryOrder(s, p) ==
    \A j, k \in 1..Len(s) :
        /\ j < k /\ IsReport(s[j], p) /\ IsReport(s[k], p)
        /\ s[k].kind = "Identity" /\ Silent(s, (j + 1)..(k - 1), p)
        => Heard(s[j]) = "Handshaking"
StoryStart(s, p, filed) ==
    \A k \in 1..Len(s) :
        IsReport(s[k], p) /\ s[k].kind = "Identity" /\ Silent(s, 1..(k - 1), p)
            => filed \in {"none", "Handshaking"}
StoryTold(s, p, filed, last) == Silent(s, 1..Len(s), p) => filed \in {"none", last}
Story(s, p, filed, last) ==
    /\ StoryEnd(s, p, last) /\ StoryOrder(s, p)
    /\ StoryStart(s, p, filed) /\ StoryTold(s, p, filed, last)

(* A message about something else is posted.                               *)
LEMMA StoryAppendOther ==
    ASSUME NEW s \in Seq(Msg), NEW x \in Msg, NEW p, NEW filed, NEW last,
           Story(s, p, filed, last), ~IsReport(x, p)
    PROVE  Story(Append(s, x), p, filed, last)
<1> DEFINE t == Append(s, x)
           n == Len(s)
<1>1. /\ n \in Nat /\ Len(t) = n + 1 /\ t[n + 1] = x
      /\ \A k \in 1..n : t[k] = s[k]
  OBVIOUS
<1> HIDE DEF t, n
<1>2. StoryEnd(t, p, last)
  <2> SUFFICES ASSUME NEW k \in 1..(n + 1), IsReport(t[k], p), Silent(t, (k + 1)..(n + 1), p)
               PROVE  Heard(t[k]) = last
    BY <1>1 DEF StoryEnd
  <2>1. k \in 1..n /\ t[k] = s[k]
    BY <1>1
  <2>2. Silent(s, (k + 1)..n, p)
    BY <1>1, <2>1 DEF Silent
  <2> QED
    BY <2>1, <2>2 DEF Story, StoryEnd, n
<1>3. StoryOrder(t, p)
  <2> SUFFICES ASSUME NEW j \in 1..(n + 1), NEW k \in 1..(n + 1),
                      j < k, IsReport(t[j], p), IsReport(t[k], p),
                      t[k].kind = "Identity", Silent(t, (j + 1)..(k - 1), p)
               PROVE  Heard(t[j]) = "Handshaking"
    BY <1>1 DEF StoryOrder
  <2>1. j \in 1..n /\ k \in 1..n /\ t[j] = s[j] /\ t[k] = s[k]
    BY <1>1
  <2>2. Silent(s, (j + 1)..(k - 1), p)
    BY <1>1, <2>1 DEF Silent
  <2> QED
    BY <2>1, <2>2 DEF Story, StoryOrder, n
<1>4. StoryStart(t, p, filed)
  <2> SUFFICES ASSUME NEW k \in 1..(n + 1), IsReport(t[k], p), t[k].kind = "Identity",
                      Silent(t, 1..(k - 1), p)
               PROVE  filed \in {"none", "Handshaking"}
    BY <1>1 DEF StoryStart
  <2>1. k \in 1..n /\ t[k] = s[k]
    BY <1>1
  <2>2. Silent(s, 1..(k - 1), p)
    BY <1>1, <2>1 DEF Silent
  <2> QED
    BY <2>1, <2>2 DEF Story, StoryStart, n
<1>5. StoryTold(t, p, filed, last)
  <2> SUFFICES ASSUME Silent(t, 1..(n + 1), p) PROVE filed \in {"none", last}
    BY <1>1 DEF StoryTold
  <2>1. Silent(s, 1..n, p)
    BY <1>1 DEF Silent
  <2> QED
    BY <2>1 DEF Story, StoryTold, n
<1> QED
  BY <1>2, <1>3, <1>4, <1>5 DEF Story, t

(* The session posts its next report; before an identity it was heard      *)
(* Handshaking.                                                            *)
LEMMA StoryAppendReport ==
    ASSUME NEW s \in Seq(Msg), NEW x \in Msg, NEW p, NEW filed, NEW last,
           Story(s, p, filed, last), IsReport(x, p), x.kind = "Identity" => last = "Handshaking"
    PROVE  Story(Append(s, x), p, filed, Heard(x))
<1> DEFINE t == Append(s, x)
           n == Len(s)
<1>1. /\ n \in Nat /\ Len(t) = n + 1 /\ t[n + 1] = x
      /\ \A k \in 1..n : t[k] = s[k]
  OBVIOUS
<1> HIDE DEF t, n
<1>2. StoryEnd(t, p, Heard(x))
  <2> SUFFICES ASSUME NEW k \in 1..(n + 1), IsReport(t[k], p), Silent(t, (k + 1)..(n + 1), p)
               PROVE  Heard(t[k]) = Heard(x)
    BY <1>1 DEF StoryEnd
  <2>1. k = n + 1
    <3> SUFFICES ASSUME k # n + 1 PROVE FALSE
      OBVIOUS
    <3>1. n + 1 \in (k + 1)..(n + 1)
      BY <1>1
    <3> QED
      BY <1>1, <3>1 DEF Silent
  <2> QED
    BY <1>1, <2>1
<1>3. StoryOrder(t, p)
  <2> SUFFICES ASSUME NEW j \in 1..(n + 1), NEW k \in 1..(n + 1),
                      j < k, IsReport(t[j], p), IsReport(t[k], p),
                      t[k].kind = "Identity", Silent(t, (j + 1)..(k - 1), p)
               PROVE  Heard(t[j]) = "Handshaking"
    BY <1>1 DEF StoryOrder
  <2>1. j \in 1..n /\ t[j] = s[j]
    BY <1>1
  <2>2. CASE k \in 1..n
    <3>1. t[k] = s[k] /\ Silent(s, (j + 1)..(k - 1), p)
      BY <1>1, <2>1, <2>2 DEF Silent
    <3> QED
      BY <2>1, <2>2, <3>1 DEF Story, StoryOrder, n
  <2>3. CASE k = n + 1
    <3>1. last = "Handshaking" /\ k - 1 = n
      BY <1>1, <2>3
    <3>2. \A l \in (j + 1)..n : l \in 1..n
      BY <1>1, <2>1
    <3>3. Silent(s, (j + 1)..n, p)
      BY <1>1, <3>1, <3>2 DEF Silent
    <3> QED
      BY <2>1, <3>1, <3>3 DEF Story, StoryEnd, n
  <2> QED
    BY <1>1, <2>2, <2>3
<1>4. StoryStart(t, p, filed)
  <2> SUFFICES ASSUME NEW k \in 1..(n + 1), IsReport(t[k], p), t[k].kind = "Identity",
                      Silent(t, 1..(k - 1), p)
               PROVE  filed \in {"none", "Handshaking"}
    BY <1>1 DEF StoryStart
  <2>1. CASE k \in 1..n
    <3>1. t[k] = s[k] /\ Silent(s, 1..(k - 1), p)
      BY <1>1, <2>1 DEF Silent
    <3> QED
      BY <2>1, <3>1 DEF Story, StoryStart, n
  <2>2. CASE k = n + 1
    <3>1. last = "Handshaking" /\ Silent(s, 1..n, p)
      BY <1>1, <2>2 DEF Silent
    <3> QED
      BY <3>1 DEF Story, StoryTold, n
  <2> QED
    BY <1>1, <2>1, <2>2
<1>5. StoryTold(t, p, filed, Heard(x))
  <2>1. n + 1 \in 1..(n + 1) /\ IsReport(t[n + 1], p)
    BY <1>1
  <2> QED
    BY <1>1, <2>1 DEF StoryTold, Silent
<1> QED
  BY <1>2, <1>3, <1>4, <1>5 DEF Story, t

(* The manager takes a message: one about something else changes nothing,  *)
(* a report becomes the status on file, unless there is no record for it.  *)
LEMMA StoryTail ==
    ASSUME NEW s \in Seq(Msg), s # <<>>, NEW p, NEW filed, NEW last, NEW file,
           Story(s, p, filed, last),
           IF IsReport(Head(s), p) THEN file \in {"none", Heard(Head(s))}
                                   ELSE file \in {"none", filed}
    PROVE  Story(Tail(s), p, file, last)
<1> DEFINE t == Tail(s)
           n == Len(t)
<1>1. /\ n \in Nat /\ Len(s) = n + 1 /\ Head(s) = s[1]
      /\ \A k \in 1..n : t[k] = s[k + 1]
  OBVIOUS
<1> HIDE DEF t, n
<1>a. ASSUME NEW a \in 1..(n + 1), NEW b \in Int, b <= n, Silent(t, a..b, p)
      PROVE  Silent(s, (a + 1)..(b + 1), p)
  <2> SUFFICES ASSUME NEW k \in (a + 1)..(b + 1) PROVE ~IsReport(s[k], p)
    BY DEF Silent
  <2>1. k - 1 \in a..b /\ k - 1 \in 1..n /\ (k - 1) + 1 = k
    BY <1>1, <1>a
  <2>2. t[k - 1] = s[(k - 1) + 1]
    BY <1>1, <2>1
  <2> QED
    BY <1>a, <2>1, <2>2 DEF Silent
<1>2. StoryEnd(t, p, last)
  <2> SUFFICES ASSUME NEW k \in 1..n, IsReport(t[k], p), Silent(t, (k + 1)..n, p)
               PROVE  Heard(t[k]) = last
    BY <1>1 DEF StoryEnd, n
  <2>1. k + 1 \in 1..(n + 1) /\ t[k] = s[k + 1] /\ n \in Int /\ n <= n
    BY <1>1
  <2>2. Silent(s, (k + 1 + 1)..(n + 1), p)
    BY <1>a, <2>1
  <2> QED
    BY <1>1, <2>1, <2>2 DEF Story, StoryEnd
<1>3. StoryOrder(t, p)
  <2> SUFFICES ASSUME NEW j \in 1..n, NEW k \in 1..n,
                      j < k, IsReport(t[j], p), IsReport(t[k], p),
                      t[k].kind = "Identity", Silent(t, (j + 1)..(k - 1), p)
               PROVE  Heard(t[j]) = "Handshaking"
    BY <1>1 DEF StoryOrder, n
  <2>1. /\ j + 1 \in 1..(n + 1) /\ k + 1 \in 1..(n + 1) /\ j + 1 < k + 1
        /\ t[j] = s[j + 1] /\ t[k] = s[k + 1]
        /\ k - 1 \in Int /\ k - 1 <= n /\ (k - 1) + 1 = (k + 1) - 1
    BY <1>1
  <2>2. Silent(s, (j + 1 + 1)..((k - 1) + 1), p)
    BY <1>a, <2>1
  <2>3. Silent(s, (j + 1 + 1)..((k + 1) - 1), p)
    BY <2>1, <2>2
  <2> QED
    BY <1>1, <2>1, <2>3 DEF Story, StoryOrder
<1>4. StoryStart(t, p, file)
  <2> SUFFICES ASSUME NEW k \in 1..n, IsReport(t[k], p), t[k].kind = "Identity",
                      Silent(t, 1..(k - 1), p)
               PROVE  file \in {"none", "Handshaking"}
    BY <1>1 DEF StoryStart, n
  <2>1. /\ k + 1 \in 1..(n + 1) /\ t[k] = s[k + 1] /\ 1 \in 1..(n + 1)
        /\ k - 1 \in Int /\ k - 1 <= n /\ (k - 1) + 1 = (k + 1) - 1 /\ 1 < k + 1
    BY <1>1
  <2>2. Silent(s, (1 + 1)..((k - 1) + 1), p)
    BY <1>a, <2>1
  <2>3. Silent(s, (1 + 1)..((k + 1) - 1), p)
    BY <2>1, <2>2
  <2>4. CASE IsReport(s[1], p)
    <3>1. Heard(s[1]) = "Handshaking"
      BY <1>1, <2>1, <2>3, <2>4 DEF Story, StoryOrder
    <3> QED
      BY <1>1, <2>4, <3>1
  <2>5. CASE ~IsReport(s[1], p)
    <3>1. \A l \in 1..((k + 1) - 1) : l = 1 \/ l \in (1 + 1)..((k + 1) - 1)
      BY <2>1
    <3>2. Silent(s, 1..((k + 1) - 1), p)
      BY <2>3, <2>5, <3>1 DEF Silent
    <3>3. filed \in {"none", "Handshaking"}
      BY <1>1, <2>1, <3>2 DEF Story, StoryStart
    <3> QED
      BY <1>1, <2>5, <3>3
  <2> QED
    BY <2>4, <2>5
<1>5. StoryTold(t, p, file, last)
  <2> SUFFICES ASSUME Silent(t, 1..n, p) PROVE file \in {"none", last}
    BY DEF StoryTold, n
  <2>1. Silent(s, (1 + 1)..(n + 1), p) /\ 1 \in 1..(n + 1)
    BY <1>1, <1>a
  <2>2. CASE IsReport(s[1], p)
    <3>1. Heard(s[1]) = last
      BY <1>1, <2>1, <2>2 DEF Story, StoryEnd
    <3> QED
      BY <1>1, <2>2, <3>1
  <2>3. CASE ~IsReport(s[1], p)
    <3>1. \A l \in 1..(n + 1) : l = 1 \/ l \in (1 + 1)..(n + 1)
      BY <1>1
    <3>2. Silent(s, 1..(n + 1), p)
      BY <2>1, <2>3, <3>1 DEF Silent
    <3>3. filed \in {"none", last}
      BY <1>1, <3>2 DEF Story, StoryTold
    <3> QED
      BY <1>1, <2>3, <3>3
  <2> QED
    BY <2>2, <2>3
<1> QED
  BY <1>2, <1>3, <1>4, <1>5 DEF Story, t

(* What the surroundings do, with the reports in full: nothing to the      *)
(* sessions, or a step of one of them.                                     *)
LEMMA SurroundingsCases ==
    ASSUME TypeOK, Surroundings
    PROVE  \/ /\ UNCHANGED <<canonical, p2c, c2p, sessions, running, prov, stage>>
              /\ \/ mail' = mail
                 \/ \E x \in Msg : x.kind \notin {"Identity", "Status"} /\ mail' = Append(mail, x)
           \/ /\ UNCHANGED <<canonical, p2c, c2p, sessions, running, prov>>
              /\ \E i \in Incs : SessionReports(i) \/ SessionRefused(i) \/ SessionStops(i)
<1>1. CASE \E i \in Incs : SessionReports(i) \/ SessionRefused(i) \/ SessionStops(i)
  BY <1>1, SurroundingsShape
<1>2. CASE ~\E i \in Incs : SessionReports(i) \/ SessionRefused(i) \/ SessionStops(i)
  <2>1. stage' = stage
    BY <1>2 DEF Surroundings, MdnsFound, MdnsRemoved, RecordAges, Seed, StalenessTick, Shutdown
  <2>2. \/ mail' = mail
        \/ \E x \in Msg : x.kind \notin {"Identity", "Status"} /\ mail' = Append(mail, x)
    <3> DEFINE Posts == \E x \in Msg : /\ x.kind \notin {"Identity", "Status"}
                                       /\ mail' = Append(mail, x)
    <3>1. \A k \in {"DeviceDiscovered", "DeviceRemoved", "CheckStaleness", "SeedRestored", "Stop"},
             x \in Ids \cup {NoId} :
                Event(k, x) \in Msg /\ Event(k, x).kind \notin {"Identity", "Status"}
      BY EventTypes DEF Event
    <3>2. /\ Prov \subseteq Ids /\ UNION {Canon[p] : p \in Prov} \subseteq Ids
          /\ \A p \in Prov : RemovalId[p] \in Ids
      BY ConstantsAssumption
    <3>3. ASSUME NEW p \in Prov, MdnsFound(p) \/ MdnsRemoved(p) PROVE Posts
      BY <3>1, <3>2, <3>3 DEF MdnsFound, MdnsRemoved, Post
    <3>4. ASSUME NEW c \in UNION {Canon[p] : p \in Prov}, Seed(c) PROVE Posts
      BY <3>1, <3>2, <3>4 DEF Seed, Post
    <3>5. ASSUME StalenessTick \/ Shutdown PROVE Posts
      BY <3>1, <3>5 DEF StalenessTick, Shutdown, Post
    <3>6. ASSUME NEW p \in Prov, RecordAges(p) PROVE mail' = mail
      BY <3>6 DEF RecordAges
    <3> QED
      BY <1>2, <3>3, <3>4, <3>5, <3>6 DEF Surroundings
  <2> QED
    BY <2>1, <2>2, SurroundingsShape
<1> QED
  BY <1>1, <1>2

(* Reports come from sessions that were started, sessions that were not    *)
(* started have no id, and the table lists each session under its own id.  *)
Senders ==
    \A k \in 1..Len(mail) : mail[k].kind \in {"Identity", "Status"} =>
        \E j \in Incs : stage[j] \in Stages /\ mail[k].id = prov[j]
Unborn == \A i \in Incs : stage[i] = "unborn" => prov[i] = NoId
Listed == \A p \in DOMAIN sessions : prov[sessions[p]] = p /\ stage[sessions[p]] \in Stages

(* A session is started for p: the record is new.                          *)
Starts(p, i) ==
    /\ stage[i] = "unborn" /\ p \notin discovered
    /\ sessions' = Put(sessions, p, i)
    /\ stage' = [stage EXCEPT ![i] = "Discovered"]
    /\ prov' = [prov EXCEPT ![i] = p]
    /\ UNCHANGED <<canonical, p2c, c2p, running>>
    /\ mail # <<>> /\ mail' = Tail(mail)
    /\ running /\ Head(mail).kind = "DeviceDiscovered"

(* The other handlers leave the sessions alone, but may drop some from the *)
(* table.                                                                  *)
Handles ==
    /\ UNCHANGED <<stage, prov>>
    /\ DOMAIN sessions' \subseteq DOMAIN sessions
    /\ \A p \in DOMAIN sessions' : sessions'[p] = sessions[p]
    /\ \/ mail # <<>> /\ mail' = Tail(mail) /\ running /\ running' = running
       \/ mail' = <<>> /\ running' = FALSE

(* Every handler starts a session or leaves them alone.                    *)
LEMMA ManagerCases ==
    ASSUME TypeOK, Manager
    PROVE  (\E p \in Prov, i \in Incs : Starts(p, i)) \/ Handles
<1>1. ASSUME NEW p \in Prov, DeviceDiscovered(p)
      PROVE  (\E q \in Prov, i \in Incs : Starts(q, i)) \/ Handles
  <2>1. mail # <<>> /\ mail' = Tail(mail) /\ running /\ running' = running
        /\ UNCHANGED <<canonical, p2c, c2p>> /\ Head(mail).kind = "DeviceDiscovered"
    BY <1>1 DEF DeviceDiscovered, Take, Event
  <2>2. CASE UNCHANGED <<sessions, stage, prov>>
    BY <2>1, <2>2 DEF Handles
  <2>3. CASE ~UNCHANGED <<sessions, stage, prov>>
    <3>1. p \notin discovered /\ spawn_session(p)
      BY <1>1, <2>3 DEF DeviceDiscovered
    <3>2. \E i \in Incs : /\ stage[i] = "unborn" /\ sessions' = Put(sessions, p, i)
                          /\ stage' = [stage EXCEPT ![i] = "Discovered"]
                          /\ prov' = [prov EXCEPT ![i] = p]
      BY <2>3, <3>1 DEF spawn_session
    <3> QED
      BY <2>1, <3>1, <3>2 DEF Starts
  <2> QED
    BY <2>2, <2>3
<1>2. ASSUME NEW p \in Ids, DeviceRemoved(p) PROVE Handles
  <2>1. CASE session_is_active(p)
    BY <1>2, <2>1 DEF DeviceRemoved, Handles, Take
  <2>2. CASE ~session_is_active(p)
    BY <1>2, <2>2 DEF DeviceRemoved, Handles, Take, Drop
  <2> QED
    BY <2>1, <2>2
<1>3. CASE SessionIdentityResolved \/ SessionStatusChanged \/ \E c \in Ids : SeedRestoredDevice(c)
  BY <1>3 DEF SessionIdentityResolved, SessionStatusChanged, SeedRestoredDevice, Handles, Take
<1>4. CASE CheckStaleness
  BY <1>4 DEF CheckStaleness, Handles, Take, Drop
<1>5. CASE Stop
  BY <1>5 DEF Stop, Handles, Empty
<1> QED
  BY <1>1, <1>2, <1>3, <1>4, <1>5 DEF Manager

(* A session reports or stops: what it posts is about its own id.          *)
LEMMA SessionCases ==
    ASSUME TypeOK, Born, NEW i \in Incs, SessionReports(i) \/ SessionRefused(i) \/ SessionStops(i)
    PROVE  /\ stage[i] \in Stages \ {"Stopped"} /\ prov' = prov /\ prov[i] \in Prov
           /\ \E s \in Stages :
                /\ stage' = [stage EXCEPT ![i] = s]
                /\ \/ ~running /\ mail' = mail
                   \/ s = "Stopped" /\ mail' = mail
                   \/ \E x \in Msg :
                        /\ IsReport(x, prov[i]) /\ Heard(x) = LastReport(s)
                        /\ x.kind = "Identity" => stage[i] = "Handshaking"
                        /\ mail' = Append(mail, x)
                   \/ \E x, y \in Msg :
                        /\ IsReport(x, prov[i]) /\ IsReport(y, prov[i]) /\ y.kind = "Status"
                        /\ stage[i] = "Handshaking" /\ Heard(y) = LastReport(s)
                        /\ mail' = Append(Append(mail, x), y)
<1>1. \A c \in Ids : /\ Identity(i, c) \in Msg /\ IsReport(Identity(i, c), prov[i])
                     /\ Heard(Identity(i, c)) = "Handshaking"
  BY ReportTypes DEF Identity, IsReport, Heard
<1>2. \A s \in Statuses : /\ Status(i, s) \in Msg /\ IsReport(Status(i, s), prov[i])
                          /\ Heard(Status(i, s)) = s /\ Status(i, s).kind = "Status"
  BY ReportTypes DEF Status, IsReport, Heard
<1>3. CASE SessionReports(i)
  <2>1. PICK s \in Follows[stage[i]] \ Final :
          /\ stage[i] \in Stages /\ stage' = [stage EXCEPT ![i] = s]
          /\ IF s = "Resolved" THEN \E c \in Canon[prov[i]] : Tell(Identity(i, c))
                               ELSE Tell(Status(i, LastReport(s)))
    BY <1>3 DEF SessionReports
  <2>2. /\ s \in Stages /\ stage[i] # "Stopped" /\ prov[i] \in Prov
        /\ s = "Resolved" => stage[i] = "Handshaking"
        /\ s # "Resolved" => LastReport(s) \in Statuses
    BY <2>1 DEF Follows, Stages, Final, Statuses, Born, LastReport
  <2>3. prov' = prov
    BY <1>3 DEF SessionReports
  <2>4. CASE s = "Resolved"
    <3>1. PICK c \in Canon[prov[i]] : Tell(Identity(i, c))
      BY <2>1, <2>4
    <3>2. c \in Ids
      BY <2>2, ConstantsAssumption
    <3>3. LastReport(s) = "Handshaking"
      BY <2>4 DEF LastReport
    <3> QED
      BY <1>1, <2>1, <2>2, <2>3, <2>4, <3>1, <3>2, <3>3 DEF Tell, Post
  <2>5. CASE s # "Resolved"
    <3>1. Tell(Status(i, LastReport(s))) /\ LastReport(s) \in Statuses
      BY <2>1, <2>2, <2>5
    <3> QED
      BY <1>2, <2>1, <2>2, <2>3, <2>5, <3>1 DEF Tell, Post
  <2> QED
    BY <2>4, <2>5
<1>4. CASE SessionRefused(i)
  <2>1. PICK c \in Canon[prov[i]] :
          mail' = mail \o <<Identity(i, c), Status(i, "UnsupportedAuth")>>
    BY <1>4 DEF SessionRefused
  <2>2. /\ stage[i] = "Handshaking" /\ prov' = prov
        /\ stage' = [stage EXCEPT ![i] = "UnsupportedAuth"]
        /\ stage[i] \in Stages \ {"Stopped"} /\ "UnsupportedAuth" \in Stages
        /\ "UnsupportedAuth" \in Statuses /\ LastReport("UnsupportedAuth") = "UnsupportedAuth"
    BY <1>4 DEF SessionRefused, Stages, Statuses, LastReport
  <2>3. prov[i] \in Prov /\ c \in Ids
    BY <2>2, ConstantsAssumption DEF Born
  <2>4. PICK x \in Msg, y \in Msg : x = Identity(i, c) /\ y = Status(i, "UnsupportedAuth")
    BY <1>1, <1>2, <2>2, <2>3
  <2>5. mail \o <<x, y>> = Append(Append(mail, x), y)
    BY DEF TypeOK
  <2>6. mail' = Append(Append(mail, x), y)
    BY <2>1, <2>4, <2>5
  <2>7. /\ IsReport(x, prov[i]) /\ IsReport(y, prov[i]) /\ y.kind = "Status"
        /\ Heard(y) = LastReport("UnsupportedAuth")
    BY <1>1, <1>2, <2>2, <2>3, <2>4
  <2> QED
    BY <2>2, <2>3, <2>6, <2>7
<1>5. CASE SessionStops(i)
  <2>1. /\ stage[i] \in Stages /\ "Stopped" \in Follows[stage[i]] /\ prov' = prov
        /\ stage' = [stage EXCEPT ![i] = "Stopped"] /\ mail' = mail
    BY <1>5 DEF SessionStops
  <2>2. stage[i] # "Stopped" /\ "Stopped" \in Stages /\ prov[i] \in Prov
    BY <2>1 DEF Follows, Stages, Born
  <2> QED
    BY <2>1, <2>2
<1> QED
  BY <1>3, <1>4, <1>5

(* The three are kept by every step.                                       *)
LEMMA SendersStep ==
    ASSUME TypeOK, Born, Senders, Unborn, Listed, [Next]_vars
    PROVE  Senders' /\ Unborn' /\ Listed'
<1>1. mail \in Seq(Msg) /\ stage \in [Incs -> Stages \cup {"unborn"}]
      /\ prov \in [Incs -> Prov \cup {NoId}]
  BY DEF TypeOK
<1>2. \A q \in DOMAIN sessions : sessions[q] \in Incs
  BY PartialIs DEF TypeOK
<1>3. ASSUME mail # <<>>, mail' = Tail(mail),
             \A j \in Incs : stage[j] \in Stages => stage'[j] \in Stages /\ prov'[j] = prov[j]
      PROVE  Senders'
  <2> SUFFICES ASSUME NEW k \in 1..Len(Tail(mail)), Tail(mail)[k].kind \in {"Identity", "Status"}
               PROVE  \E j \in Incs : stage'[j] \in Stages /\ Tail(mail)[k].id = prov'[j]
    BY <1>3 DEF Senders
  <2>1. k + 1 \in 1..Len(mail) /\ Tail(mail)[k] = mail[k + 1]
    BY <1>1, <1>3
  <2> QED
    BY <1>3, <2>1 DEF Senders
<1>4. ASSUME NEW p \in Prov, NEW i \in Incs, Starts(p, i)
      PROVE  Senders' /\ Unborn' /\ Listed'
  <2>1. /\ "unborn" \notin Stages /\ "Discovered" \in Stages
        /\ stage[i] = "unborn" /\ stage'[i] = "Discovered" /\ prov'[i] = p
        /\ \A j \in Incs \ {i} : stage'[j] = stage[j] /\ prov'[j] = prov[j]
    BY <1>1, <1>4 DEF Starts, Stages
  <2>2. Senders'
    BY <1>3, <1>4, <2>1 DEF Starts
  <2>3. Unborn'
    BY <2>1 DEF Unborn, Stages
  <2>4. DOMAIN sessions' = DOMAIN sessions \cup {p} /\ sessions'[p] = i
        /\ \A q \in DOMAIN sessions : q # p => sessions'[q] = sessions[q]
    BY <1>4 DEF Starts, Put
  <2>5. Listed'
    <3> SUFFICES ASSUME NEW q \in DOMAIN sessions'
                 PROVE  prov'[sessions'[q]] = q /\ stage'[sessions'[q]] \in Stages
      BY DEF Listed
    <3>1. CASE q = p
      BY <2>1, <2>4, <3>1
    <3>2. CASE q # p
      <4>1. q \in DOMAIN sessions /\ sessions'[q] = sessions[q] /\ sessions[q] \in Incs
        BY <1>2, <2>4, <3>2
      <4>2. prov[sessions[q]] = q /\ stage[sessions[q]] \in Stages
        BY <4>1 DEF Listed
      <4>3. sessions[q] # i
        BY <2>1, <4>2
      <4> QED
        BY <2>1, <4>1, <4>2, <4>3
    <3> QED
      BY <3>1, <3>2
  <2> QED
    BY <2>2, <2>3, <2>5
<1>5. CASE Handles
  <2>1. Unborn' /\ Listed'
    BY <1>5 DEF Handles, Unborn, Listed
  <2>2. CASE mail # <<>> /\ mail' = Tail(mail)
    BY <1>3, <1>5, <2>1, <2>2 DEF Handles
  <2>3. CASE mail' = <<>>
    BY <2>1, <2>3 DEF Senders
  <2> QED
    BY <1>5, <2>2, <2>3 DEF Handles
<1>6. ASSUME NEW x \in Msg, mail' = Append(mail, x),
             x.kind \in {"Identity", "Status"} =>
                \E j \in Incs : stage'[j] \in Stages /\ x.id = prov'[j],
             \A j \in Incs : stage[j] \in Stages => stage'[j] \in Stages /\ prov'[j] = prov[j]
      PROVE  Senders'
  <2> SUFFICES ASSUME NEW k \in 1..Len(Append(mail, x)),
                      Append(mail, x)[k].kind \in {"Identity", "Status"}
               PROVE  \E j \in Incs : stage'[j] \in Stages /\ Append(mail, x)[k].id = prov'[j]
    BY <1>6 DEF Senders
  <2>1. CASE k \in 1..Len(mail)
    <3>1. Append(mail, x)[k] = mail[k]
      BY <1>1, <2>1
    <3> QED
      BY <1>6, <2>1, <3>1 DEF Senders
  <2>2. CASE k = Len(mail) + 1
    <3>1. Append(mail, x)[k] = x
      BY <1>1, <2>2
    <3> QED
      BY <1>6, <3>1
  <2> QED
    BY <1>1, <2>1, <2>2
<1>7. CASE Surroundings
  <2>1. CASE /\ UNCHANGED <<sessions, prov, stage>>
             /\ \/ mail' = mail
                \/ \E x \in Msg : x.kind \notin {"Identity", "Status"} /\ mail' = Append(mail, x)
    <3>1. Unborn' /\ Listed'
      BY <2>1 DEF Unborn, Listed
    <3>2. Senders'
      <4>1. CASE mail' = mail
        BY <2>1, <4>1 DEF Senders
      <4>2. CASE mail' # mail
        BY <1>6, <2>1, <4>2
      <4> QED
        BY <4>1, <4>2
    <3> QED
      BY <3>1, <3>2
  <2>2. ASSUME NEW i \in Incs, SessionReports(i) \/ SessionRefused(i) \/ SessionStops(i),
               sessions' = sessions
        PROVE  Senders' /\ Unborn' /\ Listed'
    <3>1. /\ stage[i] \in Stages \ {"Stopped"} /\ prov' = prov /\ prov[i] \in Prov
          /\ \E s \in Stages :
              /\ stage' = [stage EXCEPT ![i] = s]
              /\ \/ mail' = mail
                 \/ \E x \in Msg : IsReport(x, prov[i]) /\ mail' = Append(mail, x)
                 \/ \E x, y \in Msg : /\ IsReport(x, prov[i]) /\ IsReport(y, prov[i])
                                      /\ mail' = Append(Append(mail, x), y)
      BY <2>2, SessionCases
    <3>2. PICK s \in Stages :
              /\ stage' = [stage EXCEPT ![i] = s]
              /\ \/ mail' = mail
                 \/ \E x \in Msg : IsReport(x, prov[i]) /\ mail' = Append(mail, x)
                 \/ \E x, y \in Msg : /\ IsReport(x, prov[i]) /\ IsReport(y, prov[i])
                                      /\ mail' = Append(Append(mail, x), y)
      BY <3>1
    <3>3. /\ stage'[i] = s /\ "unborn" \notin Stages
          /\ \A j \in Incs \ {i} : stage'[j] = stage[j]
      BY <1>1, <3>2 DEF Stages
    <3>4. \A j \in Incs : stage[j] \in Stages => stage'[j] \in Stages /\ prov'[j] = prov[j]
      BY <3>1, <3>3
    <3>5. Unborn'
      BY <3>1, <3>3 DEF Unborn
    <3>6. Listed'
      BY <1>2, <2>2, <3>1, <3>4 DEF Listed
    <3>7. Senders'
      <4>1. CASE mail' = mail
        BY <3>4, <4>1 DEF Senders
      <4>2. ASSUME NEW x \in Msg, IsReport(x, prov[i]), mail' = Append(mail, x)
            PROVE  Senders'
        <5>1. stage'[i] \in Stages /\ x.id = prov'[i]
          BY <3>1, <3>3, <4>2 DEF IsReport
        <5> QED
          BY <1>6, <3>4, <4>2, <5>1
      <4>3. ASSUME NEW x \in Msg, NEW y \in Msg, IsReport(x, prov[i]), IsReport(y, prov[i]),
                   mail' = Append(Append(mail, x), y)
            PROVE  Senders'
        <5>1. stage'[i] \in Stages /\ x.id = prov'[i] /\ y.id = prov'[i]
          BY <3>1, <3>3, <4>3 DEF IsReport
        <5>2. /\ Len(Append(Append(mail, x), y)) = Len(mail) + 2
              /\ \A k \in 1..(Len(mail) + 2) :
                    \/ k \in 1..Len(mail) /\ Append(Append(mail, x), y)[k] = mail[k]
                    \/ Append(Append(mail, x), y)[k] \in {x, y}
          BY <1>1
        <5> QED
          BY <3>4, <4>3, <5>1, <5>2 DEF Senders
      <4> QED
        BY <3>2, <4>1, <4>2, <4>3
    <3> QED
      BY <3>5, <3>6, <3>7
  <2> QED
    BY <1>7, <2>1, <2>2, SurroundingsCases
<1>8. CASE UNCHANGED vars
  BY <1>8 DEF vars, Senders, Unborn, Listed
<1> QED
  BY <1>4, <1>5, <1>7, <1>8, ManagerCases DEF Next, Surroundings

(* The status on file for p.                                               *)
FiledIn(forward, records, p) ==
    IF p \in DOMAIN forward THEN records[forward[p]] ELSE "none"

(* The session i is the only one ever started for its record.              *)
Sole(i) == \A j \in Incs \ {i} : prov[j] # prov[i]

(* Between the status on file and the stage of the owning session, the     *)
(* mailbox holds the reports that are still to be filed.                   *)
StoryInv ==
    running =>
        \A i \in Incs :
            stage[i] \in Stages \ {"Stopped"} /\ Sole(i) =>
                Story(mail, prov[i], FiledIn(p2c, canonical, prov[i]), LastReport(stage[i]))

(* A handler changes the status on file of p only to what the message it   *)
(* takes says about p, and drops it with the record.                       *)
LEMMA FileStep ==
    ASSUME StableIdentity, OwnNames, TypeOK, Announced, Filed, MapsInverse, RecordsCoverSessions,
           Senders, Born, Manager, running', NEW p \in Prov, NEW filed,
           filed = FiledIn(p2c, canonical, p),
           IsReport(Head(mail), p) /\ Head(mail).kind = "Identity" => filed \in {"none", "Handshaking"}
    PROVE  IF IsReport(Head(mail), p) THEN FiledIn(p2c', canonical', p) \in {"none", Heard(Head(mail))}
                                      ELSE FiledIn(p2c', canonical', p) \in {"none", filed}
<1> DEFINE m == Head(mail)
           file == FiledIn(p2c', canonical', p)
<1>1. CASE UNCHANGED <<p2c, canonical>> /\ m.kind \notin {"Identity", "Status"}
  BY <1>1 DEF IsReport
<1>2. ASSUME NEW q \in Prov, DeviceDiscovered(q)
      PROVE  UNCHANGED <<p2c, canonical>> /\ m.kind \notin {"Identity", "Status"}
  BY <1>2 DEF DeviceDiscovered, Take, Event
<1>3. ASSUME NEW q \in Ids, DeviceRemoved(q)
      PROVE  m.kind \notin {"Identity", "Status"} /\ file \in {"none", filed}
  <2>1. m.kind \notin {"Identity", "Status"}
    BY <1>3 DEF DeviceRemoved, Take, Event
  <2>2. CASE session_is_active(q)
    BY <1>3, <2>1, <2>2 DEF DeviceRemoved
  <2>3. CASE ~session_is_active(q)
    <3>1. /\ p2c' = Drop(p2c, {q})
          /\ canonical' = Drop(canonical, {p2c[r] : r \in {q} \cap DOMAIN p2c})
      BY <1>3, <2>3 DEF DeviceRemoved
    <3>2. CASE p \notin DOMAIN p2c \/ p = q
      BY <2>1, <3>1, <3>2 DEF FiledIn, Drop
    <3>3. CASE p \in DOMAIN p2c /\ p # q
      <4>1. p \in DOMAIN p2c' /\ p2c'[p] = p2c[p]
        BY <3>1, <3>3 DEF Drop
      <4>2. p2c[p] \in DOMAIN canonical /\ (q \in DOMAIN p2c => p2c[q] # p2c[p])
        BY <3>3 DEF MapsInverse
      <4>3. canonical'[p2c[p]] = canonical[p2c[p]]
        BY <3>1, <4>2 DEF Drop
      <4> QED
        BY <2>1, <3>3, <4>1, <4>3 DEF FiledIn
    <3> QED
      BY <3>2, <3>3
  <2> QED
    BY <2>2, <2>3
<1>4. CASE SessionIdentityResolved
  <2> DEFINE q == m.id
             c == m.canon
  <2>0. mail # <<>> /\ mail \in Seq(Msg) /\ m = mail[1] /\ m.kind = "Identity"
        /\ 1 \in 1..Len(mail)
    BY <1>4 DEF SessionIdentityResolved, TypeOK
  <2>1. c \in Canon[q]
    BY <2>0 DEF Announced
  <2>2. q \in Prov
    BY <2>0 DEF Senders, Born
  <2>3. ASSUME p \in DOMAIN p2c, p = q PROVE p2c[p] = c /\ c \in DOMAIN canonical
    BY <2>1, <2>2, <2>3 DEF Filed, StableIdentity, MapsInverse
  <2>4. CASE c \in DOMAIN canonical \/ q \notin discovered
    <3>1. UNCHANGED <<p2c, canonical>>
      BY <1>4, <2>4 DEF SessionIdentityResolved
    <3>2. file = filed
      BY <3>1
    <3> QED
      BY <2>0, <3>2 DEF IsReport, Heard
  <2>5. CASE c \notin DOMAIN canonical /\ q \in discovered
    <3>1. p2c' = Put(p2c, q, c) /\ canonical' = Put(canonical, c, "Handshaking")
      BY <1>4, <2>5 DEF SessionIdentityResolved
    <3>2. CASE p = q
      <4>1. file = "Handshaking"
        BY <3>1, <3>2 DEF FiledIn, Put
      <4> QED
        BY <2>0, <3>2, <4>1 DEF IsReport, Heard
    <3>3. CASE p # q
      <4>1. ~IsReport(m, p)
        BY <3>3 DEF IsReport
      <4>2. CASE p \notin DOMAIN p2c
        BY <3>1, <3>3, <4>1, <4>2 DEF FiledIn, Put
      <4>3. CASE p \in DOMAIN p2c
        <5>1. p2c[p] \in DOMAIN canonical /\ p2c[p] # c
          BY <2>5, <4>3 DEF MapsInverse
        <5>2. p \in DOMAIN p2c' /\ p2c'[p] = p2c[p] /\ canonical'[p2c[p]] = canonical[p2c[p]]
          BY <3>1, <3>3, <4>3, <5>1 DEF Put
        <5> QED
          BY <4>1, <4>3, <5>2 DEF FiledIn
      <4> QED
        BY <4>2, <4>3
    <3> QED
      BY <3>2, <3>3
  <2> QED
    BY <2>4, <2>5
<1>5. CASE SessionStatusChanged
  <2> DEFINE q == m.id
  <2>0. mail # <<>> /\ mail \in Seq(Msg) /\ m = mail[1] /\ m.kind = "Status"
        /\ 1 \in 1..Len(mail)
    BY <1>5 DEF SessionStatusChanged, TypeOK
  <2>1. q \in Prov
    BY <2>0 DEF Senders, Born
  <2>2. /\ p2c' = p2c /\ DOMAIN canonical' = DOMAIN canonical
        /\ \A x \in DOMAIN canonical :
              canonical'[x] = IF x = StatusKey(q) THEN m.status ELSE canonical[x]
    BY <1>5 DEF SessionStatusChanged
  <2>3. CASE p \notin DOMAIN p2c
    BY <2>2, <2>3 DEF FiledIn
  <2>4. CASE p \in DOMAIN p2c
    <3>1. p2c[p] \in DOMAIN canonical /\ c2p[p2c[p]] = p /\ p2c[p] \in Canon[p]
      BY <2>4 DEF MapsInverse, Filed
    <3>2. file = IF p2c[p] = StatusKey(q) THEN m.status ELSE canonical[p2c[p]]
      BY <2>2, <2>4, <3>1 DEF FiledIn
    <3>3. CASE p = q
      <4>1. StatusKey(q) = p2c[p]
        BY <2>4, <3>3 DEF StatusKey
      <4> QED
        BY <2>0, <3>2, <3>3, <4>1 DEF IsReport, Heard
    <3>4. CASE p # q
      <4>1. StatusKey(q) # p2c[p]
        <5>1. CASE q \in DOMAIN p2c
          BY <3>1, <3>4, <5>1 DEF StatusKey, MapsInverse
        <5>2. CASE q \notin DOMAIN p2c
          BY <2>1, <3>1, <3>4, <5>2 DEF StatusKey, OwnNames
        <5> QED
          BY <5>1, <5>2
      <4> QED
        BY <2>4, <3>2, <3>4, <4>1 DEF IsReport, FiledIn
    <3> QED
      BY <3>3, <3>4
  <2> QED
    BY <2>3, <2>4
<1>6. ASSUME CheckStaleness \/ \E c \in Ids : SeedRestoredDevice(c)
      PROVE  UNCHANGED <<p2c, canonical>> /\ m.kind \notin {"Identity", "Status"}
  <2>1. CASE CheckStaleness
    <3>1. m = Event("CheckStaleness", NoId)
      BY <2>1 DEF CheckStaleness, Take
    <3> QED
      BY <2>1, <3>1 DEF CheckStaleness, Event
  <2>2. ASSUME NEW c \in Ids, SeedRestoredDevice(c)
        PROVE  UNCHANGED <<p2c, canonical>> /\ m.kind \notin {"Identity", "Status"}
    <3>1. m = Event("SeedRestored", c)
      BY <2>2 DEF SeedRestoredDevice, Take
    <3> QED
      BY <2>2, <3>1 DEF SeedRestoredDevice, Event
  <2> QED
    BY <1>6, <2>1, <2>2
<1>7. CASE Stop
  BY <1>7 DEF Stop
<1>8. ASSUME m.kind \notin {"Identity", "Status"}, file \in {"none", filed}
      PROVE  IF IsReport(m, p) THEN file \in {"none", Heard(m)} ELSE file \in {"none", filed}
  BY <1>8 DEF IsReport
<1>9. CASE (\E q \in Prov : DeviceDiscovered(q)) \/ (\E q \in Ids : DeviceRemoved(q))
  BY <1>1, <1>2, <1>3, <1>8, <1>9
<1>10. CASE CheckStaleness \/ \E c \in Ids : SeedRestoredDevice(c)
  BY <1>1, <1>6, <1>10
<1> QED
  BY <1>4, <1>5, <1>7, <1>9, <1>10 DEF Manager

(* The manager's inductive invariant.                                      *)
Inv == TypeOK /\ Born /\ NoLeakedSession /\ RecordsCoverSessions /\ Announced

(* Every step leaves the reports in the mailbox a story between the status *)
(* on file and the stage of the session.                                   *)
LEMMA StoryStep ==
    ASSUME StableIdentity, OwnNames, Inv, Filed, MapsInverse, Senders, Unborn, StoryInv,
           [Next]_vars
    PROVE  StoryInv'
<1>1. /\ TypeOK /\ Born /\ RecordsCoverSessions /\ Announced /\ mail \in Seq(Msg)
      /\ stage \in [Incs -> Stages \cup {"unborn"}] /\ prov \in [Incs -> Prov \cup {NoId}]
  BY DEF Inv, TypeOK
<1>2. SUFFICES ASSUME running', NEW i \in Incs, stage'[i] \in Stages \ {"Stopped"},
                      \A j \in Incs \ {i} : prov'[j] # prov'[i]
               PROVE  Story(mail', prov'[i], FiledIn(p2c', canonical', prov'[i]),
                            LastReport(stage'[i]))
  BY DEF StoryInv, Sole
<1> DEFINE Told == Story(mail', prov'[i], FiledIn(p2c', canonical', prov'[i]),
                         LastReport(stage'[i]))
<1>3. ASSUME running, stage[i] \in Stages \ {"Stopped"}, \A j \in Incs \ {i} : prov[j] # prov[i]
      PROVE  /\ Story(mail, prov[i], FiledIn(p2c, canonical, prov[i]), LastReport(stage[i]))
             /\ prov[i] \in Prov
  BY <1>1, <1>3 DEF StoryInv, Sole, Born
<1>4. ASSUME Manager, mail # <<>>, mail' = Tail(mail), running,
             stage[i] \in Stages \ {"Stopped"}, \A j \in Incs \ {i} : prov[j] # prov[i]
      PROVE  Story(mail', prov[i], FiledIn(p2c', canonical', prov[i]), LastReport(stage[i]))
  <2>1. PICK p \in Prov : p = prov[i]
    BY <1>3, <1>4
  <2>2. PICK filed : filed = FiledIn(p2c, canonical, p)
    OBVIOUS
  <2>3. PICK file : file = FiledIn(p2c', canonical', p)
    OBVIOUS
  <2>4. PICK last : last = LastReport(stage[i])
    OBVIOUS
  <2>5. Story(mail, p, filed, last)
    BY <1>3, <1>4, <2>1, <2>2, <2>4
  <2>6. ASSUME IsReport(Head(mail), p), Head(mail).kind = "Identity"
        PROVE  filed \in {"none", "Handshaking"}
    <3>1. 1 \in 1..Len(mail) /\ Head(mail) = mail[1] /\ 1..(1 - 1) = {}
      BY <1>1, <1>4
    <3>2. Silent(mail, 1..(1 - 1), p)
      BY <3>1 DEF Silent
    <3> QED
      BY <2>5, <2>6, <3>1, <3>2 DEF Story, StoryStart
  <2>7. IF IsReport(Head(mail), p) THEN file \in {"none", Heard(Head(mail))}
                                   ELSE file \in {"none", filed}
    BY <1>1, <1>2, <1>4, <2>2, <2>3, <2>6, FileStep
  <2>8. Story(Tail(mail), p, file, last)
    BY <1>1, <1>4, <2>5, <2>7, StoryTail
  <2> QED
    BY <1>4, <2>1, <2>3, <2>4, <2>8
<1>5. ASSUME NEW p \in Prov, NEW n \in Incs, Starts(p, n), Manager PROVE Told
  <2>1. /\ stage'[n] = "Discovered" /\ prov'[n] = p /\ stage[n] = "unborn" /\ prov[n] = NoId
        /\ "unborn" \notin Stages
        /\ \A j \in Incs \ {n} : stage'[j] = stage[j] /\ prov'[j] = prov[j]
    BY <1>1, <1>5 DEF Starts, Unborn, Stages
  <2>2. CASE i # n
    <3>1. stage[i] \in Stages \ {"Stopped"} /\ prov[i] \in Prov /\ prov'[i] = prov[i]
          /\ stage'[i] = stage[i]
      BY <1>1, <1>2, <2>1, <2>2 DEF Born
    <3>2. \A j \in Incs \ {i} : prov[j] # prov[i]
      BY <1>2, <2>1, <2>2, <3>1, ConstantsAssumption
    <3>3. running /\ mail # <<>> /\ mail' = Tail(mail)
      BY <1>5 DEF Starts
    <3> QED
      BY <1>4, <1>5, <3>1, <3>2, <3>3
  <2>3. CASE i = n
    <3>1. /\ mail # <<>> /\ mail' = Tail(mail) /\ running /\ p \notin discovered
          /\ p2c' = p2c /\ canonical' = canonical
      BY <1>5 DEF Starts
    <3>2. FiledIn(p2c', canonical', p) = "none"
      BY <1>1, <3>1 DEF FiledIn, RecordsCoverSessions
    <3>3. ASSUME NEW k \in 1..Len(Tail(mail)) PROVE ~IsReport(Tail(mail)[k], p)
      <4>1. k + 1 \in 1..Len(mail) /\ Tail(mail)[k] = mail[k + 1]
        BY <1>1, <3>1
      <4>2. ASSUME mail[k + 1].kind \in {"Identity", "Status"} PROVE mail[k + 1].id # p
        <5>1. PICK j \in Incs : stage[j] \in Stages /\ mail[k + 1].id = prov[j]
          BY <4>1, <4>2 DEF Senders
        <5>2. j # n /\ prov'[j] = prov[j]
          BY <2>1, <5>1
        <5> QED
          BY <1>2, <2>1, <2>3, <5>1, <5>2
      <4> QED
        BY <4>1, <4>2 DEF IsReport
    <3>4. Story(Tail(mail), p, "none", LastReport("Discovered"))
      BY <3>3 DEF Story, StoryEnd, StoryOrder, StoryStart, StoryTold
    <3> QED
      BY <2>1, <2>3, <3>1, <3>2, <3>4
  <2> QED
    BY <2>2, <2>3
<1>6. ASSUME Handles, Manager PROVE Told
  <2>1. /\ stage' = stage /\ prov' = prov
        /\ mail # <<>> /\ mail' = Tail(mail) /\ running
    BY <1>2, <1>6 DEF Handles
  <2> QED
    BY <1>2, <1>4, <1>6, <2>1
<1>7. CASE Surroundings
  <2>1. UNCHANGED <<canonical, p2c, running, prov>> /\ running
    BY <1>1, <1>2, <1>7, SurroundingsShape
  <2>2. \A j \in Incs \ {i} : prov[j] # prov[i]
    BY <1>2, <2>1
  <2>3. CASE /\ stage' = stage
             /\ \/ mail' = mail
                \/ \E x \in Msg : x.kind \notin {"Identity", "Status"} /\ mail' = Append(mail, x)
    <3>1. Story(mail, prov[i], FiledIn(p2c, canonical, prov[i]), LastReport(stage[i]))
      BY <1>2, <1>3, <2>1, <2>2, <2>3
    <3>2. CASE mail' = mail
      BY <2>1, <2>3, <3>1, <3>2
    <3>3. ASSUME NEW x \in Msg, x.kind \notin {"Identity", "Status"}, mail' = Append(mail, x)
          PROVE  Told
      <4>1. ~IsReport(x, prov[i])
        BY <3>3 DEF IsReport
      <4>2. PICK p, filed, last : /\ p = prov[i] /\ filed = FiledIn(p2c, canonical, prov[i])
                                  /\ last = LastReport(stage[i])
        OBVIOUS
      <4>3. Story(Append(mail, x), p, filed, last)
        BY <1>1, <3>1, <4>1, <4>2, StoryAppendOther
      <4> QED
        BY <2>1, <2>3, <3>3, <4>2, <4>3
    <3> QED
      BY <2>3, <3>2, <3>3
  <2>4. ASSUME NEW n \in Incs, SessionReports(n) \/ SessionRefused(n) \/ SessionStops(n)
        PROVE  Told
    <3>1. /\ stage[n] \in Stages \ {"Stopped"} /\ prov' = prov /\ prov[n] \in Prov
          /\ \E s \in Stages :
                /\ stage' = [stage EXCEPT ![n] = s]
                /\ \/ ~running /\ mail' = mail
                   \/ s = "Stopped" /\ mail' = mail
                   \/ \E x \in Msg :
                        /\ IsReport(x, prov[n]) /\ Heard(x) = LastReport(s)
                        /\ x.kind = "Identity" => stage[n] = "Handshaking"
                        /\ mail' = Append(mail, x)
                   \/ \E x, y \in Msg :
                        /\ IsReport(x, prov[n]) /\ IsReport(y, prov[n]) /\ y.kind = "Status"
                        /\ stage[n] = "Handshaking" /\ Heard(y) = LastReport(s)
                        /\ mail' = Append(Append(mail, x), y)
      BY <1>1, <2>4, SessionCases
    <3>2. PICK s \in Stages :
                /\ stage' = [stage EXCEPT ![n] = s]
                /\ \/ s = "Stopped" /\ mail' = mail
                   \/ \E x \in Msg :
                        /\ IsReport(x, prov[n]) /\ Heard(x) = LastReport(s)
                        /\ x.kind = "Identity" => stage[n] = "Handshaking"
                        /\ mail' = Append(mail, x)
                   \/ \E x, y \in Msg :
                        /\ IsReport(x, prov[n]) /\ IsReport(y, prov[n]) /\ y.kind = "Status"
                        /\ stage[n] = "Handshaking" /\ Heard(y) = LastReport(s)
                        /\ mail' = Append(Append(mail, x), y)
      BY <2>1, <3>1
    <3>3. /\ stage'[n] = s /\ \A j \in Incs \ {n} : stage'[j] = stage[j]
          /\ stage[i] \in Stages \ {"Stopped"}
      BY <1>1, <1>2, <3>1, <3>2
    <3>4. PICK p, filed, last : /\ p = prov[i] /\ filed = FiledIn(p2c, canonical, prov[i])
                                /\ last = LastReport(stage[i])
      OBVIOUS
    <3>5. Story(mail, p, filed, last)
      BY <1>3, <2>1, <2>2, <3>3, <3>4
    <3>6. SUFFICES Story(mail', p, filed, LastReport(stage'[i]))
      BY <2>1, <3>4
    <3>7. i = n => last \in {"Handshaking", last} /\ (stage[n] = "Handshaking" => last = "Handshaking")
      BY <3>4 DEF LastReport
    <3>8. CASE s = "Stopped" /\ mail' = mail
      <4>1. i # n
        BY <1>2, <3>3, <3>8
      <4> QED
        BY <3>3, <3>4, <3>5, <3>8, <4>1
    <3>9. ASSUME NEW x \in Msg, IsReport(x, prov[n]), Heard(x) = LastReport(s),
                 x.kind = "Identity" => stage[n] = "Handshaking", mail' = Append(mail, x)
          PROVE  Story(mail', p, filed, LastReport(stage'[i]))
      <4>1. CASE i = n
        <5>1. Story(Append(mail, x), p, filed, Heard(x))
          BY <1>1, <3>4, <3>5, <3>7, <3>9, <4>1, StoryAppendReport
        <5> QED
          BY <3>3, <3>9, <4>1, <5>1
      <4>2. CASE i # n
        <5>1. ~IsReport(x, p)
          BY <2>2, <3>4, <3>9, <4>2 DEF IsReport
        <5>2. Story(Append(mail, x), p, filed, last)
          BY <1>1, <3>5, <5>1, StoryAppendOther
        <5> QED
          BY <3>3, <3>4, <3>9, <4>2, <5>2
      <4> QED
        BY <4>1, <4>2
    <3>10. ASSUME NEW x \in Msg, NEW y \in Msg, IsReport(x, prov[n]), IsReport(y, prov[n]),
                  y.kind = "Status", stage[n] = "Handshaking", Heard(y) = LastReport(s),
                  mail' = Append(Append(mail, x), y)
           PROVE  Story(mail', p, filed, LastReport(stage'[i]))
      <4>0. Append(mail, x) \in Seq(Msg)
        BY <1>1
      <4>1. CASE i = n
        <5>1. Story(Append(mail, x), p, filed, Heard(x))
          BY <1>1, <3>4, <3>5, <3>7, <3>10, <4>1, StoryAppendReport
        <5>2. y.kind # "Identity" /\ IsReport(y, p)
          BY <3>4, <3>10, <4>1
        <5>3. Story(Append(Append(mail, x), y), p, filed, Heard(y))
          BY <4>0, <5>1, <5>2, StoryAppendReport
        <5> QED
          BY <3>3, <3>10, <4>1, <5>3
      <4>2. CASE i # n
        <5>1. ~IsReport(x, p) /\ ~IsReport(y, p)
          BY <2>2, <3>4, <3>10, <4>2 DEF IsReport
        <5>2. Story(Append(mail, x), p, filed, last)
          BY <1>1, <3>5, <5>1, StoryAppendOther
        <5>3. Story(Append(Append(mail, x), y), p, filed, last)
          BY <4>0, <5>1, <5>2, StoryAppendOther
        <5> QED
          BY <3>3, <3>4, <3>10, <4>2, <5>3
      <4> QED
        BY <4>1, <4>2
    <3> QED
      BY <3>2, <3>8, <3>9, <3>10
  <2> QED
    BY <1>1, <1>7, <2>3, <2>4, SurroundingsCases
<1>8. CASE UNCHANGED vars
  <2>1. /\ mail' = mail /\ prov' = prov /\ p2c' = p2c /\ canonical' = canonical
        /\ stage' = stage /\ running' = running
    BY <1>8 DEF vars
  <2> QED
    BY <1>2, <1>3, <2>1
<1> QED
  BY <1>1, <1>5, <1>6, <1>7, <1>8, ManagerCases DEF Next, Surroundings

-----------------------------------------------------------------------------
(* The theorems *)

(* Inv is an invariant of the manager.                                     *)
THEOREM Invariance == Spec => []Inv
<1>1. Init => Inv
  <2>1. Init => DOMAIN Empty = {}
    BY PartialOps
  <2> QED
    BY <2>1, TypeInit DEF Init, Inv, Born, NoLeakedSession, RecordsCoverSessions, Announced,
                         Stages
<1>2. Inv /\ [Next]_vars => Inv'
  <2> SUFFICES ASSUME Inv, [Next]_vars PROVE Inv'
    OBVIOUS
  <2> USE DEF Inv
  <2> QED
    BY TypeStep, BornStep, LeakStep, RecordsStep, AnnouncedStep
<1> QED
  BY <1>1, <1>2, PTL DEF Spec

(* TypeOK is an invariant of the manager.                                  *)
THEOREM TypeCorrect == Spec => []TypeOK
  BY Invariance, PTL DEF Inv

(* No session actor is leaked, whatever the order of removal, eviction,    *)
(* rediscovery and shutdown.                                               *)
THEOREM NoLeakedSessionInvariant == Spec => []NoLeakedSession
  BY Invariance, PTL DEF Inv

(* Every session and every identity belongs to a discovery record.         *)
THEOREM RecordsCoverSessionsInvariant == Spec => []RecordsCoverSessions
  BY Invariance, PTL DEF Inv

(* If identities are stable, provisional_to_canonical and                  *)
(* canonical_to_provisional stay inverse to each other.                    *)
THEOREM MapsInverseInvariant ==
    ASSUME StableIdentity
    PROVE  Spec => []MapsInverse
<1>1. Init => Filed /\ MapsInverse
  <2>1. Init => DOMAIN Empty = {}
    BY PartialOps
  <2> QED
    BY <2>1 DEF Init, Filed, MapsInverse
<1>2. Inv /\ Filed /\ MapsInverse /\ [Next]_vars => Filed' /\ MapsInverse'
  BY MapsStep, StableIdentity DEF Inv
<1> QED
  BY <1>1, <1>2, Invariance, PTL DEF Spec

(* The tables never outgrow MAX_DISCOVERED and the session cap.            *)
THEOREM CapsRespectedInvariant == Spec => []CapsRespected
<1>1. Init => CapInv
  <2>1. IsFiniteSet({}) /\ Cardinality({}) = 0
    BY FS_EmptySet
  <2>2. \A n \in Nat : Capped({}, n)
    BY <2>1 DEF Capped
  <2>3. Init => discovered = {} /\ DOMAIN sessions = {}
    BY DEF Init, Empty
  <2>4. MAX_DISCOVERED \in Nat /\ SessionCap \in Nat
    BY ConstantsAssumption
  <2> QED
    BY <2>2, <2>3, <2>4 DEF CapInv
<1>2. TypeOK /\ CapInv /\ [Next]_vars => CapInv'
  BY CapStep
<1>3. CapInv => CapsRespected
  BY DEF CapInv, Capped, CapsRespected
<1> QED
  BY <1>1, <1>2, <1>3, TypeCorrect, PTL DEF Spec

(* If identities are stable and no record has the canonical id of another, *)
(* the status on file of a device whose record was started once is, with   *)
(* the mailbox empty, the one its session reported last.                   *)
THEOREM QuiescentStatusInvariant ==
    ASSUME StableIdentity, OwnNames
    PROVE  Spec => []QuiescentStatus
<1> DEFINE Status3 == Filed /\ MapsInverse /\ Senders /\ Unborn /\ Listed /\ StoryInv
<1>1. Init => Status3
  <2>1. DOMAIN Empty = {} /\ "unborn" \notin Stages /\ Len(<<>>) = 0 /\ 1..0 = {}
    BY PartialOps DEF Stages
  <2> QED
    BY <2>1 DEF Init, Filed, MapsInverse, Senders, Unborn, Listed, StoryInv
<1>2. Inv /\ Status3 /\ [Next]_vars => Status3'
  <2> SUFFICES ASSUME Inv, Status3, [Next]_vars PROVE Status3'
    OBVIOUS
  <2>1. Filed' /\ MapsInverse'
    BY MapsStep DEF Inv
  <2>2. Senders' /\ Unborn' /\ Listed'
    BY SendersStep DEF Inv
  <2>3. StoryInv'
    BY StoryStep
  <2> QED
    BY <2>1, <2>2, <2>3
<1>3. Inv /\ Status3 => QuiescentStatus
  <2> SUFFICES ASSUME Inv, Status3, running, mail = <<>>, NEW c \in DOMAIN canonical,
                      Route(c) # NoInc, stage[Route(c)] # "Stopped",
                      \A j \in Incs \ {Route(c)} : prov[j] # prov[Route(c)]
               PROVE  canonical[c] = LastReport(stage[Route(c)])
    BY DEF QuiescentStatus
  <2>1. c \in DOMAIN c2p /\ c2p[c] \in DOMAIN p2c /\ p2c[c2p[c]] = c
    BY DEF MapsInverse
  <2>2. PICK p : p = c2p[c] /\ p \in DOMAIN sessions /\ Route(c) = sessions[p]
    BY <2>1 DEF Route
  <2>3. PICK i \in Incs : i = sessions[p]
    BY <2>2, PartialIs DEF Inv, TypeOK
  <2>4. prov[i] = p /\ stage[i] \in Stages \ {"Stopped"}
    BY <2>2, <2>3 DEF Listed
  <2>5. Story(mail, p, FiledIn(p2c, canonical, p), LastReport(stage[i]))
    BY <2>2, <2>3, <2>4 DEF StoryInv, Sole
  <2>6. Silent(mail, 1..Len(mail), p)
    BY DEF Silent
  <2>7. FiledIn(p2c, canonical, p) = canonical[c] /\ canonical[c] \in Statuses
    BY <2>1, <2>2, PartialIs DEF FiledIn, Inv, TypeOK
  <2> QED
    BY <2>2, <2>3, <2>5, <2>6, <2>7 DEF Story, StoryTold, Statuses
<1> QED
  BY <1>1, <1>2, <1>3, Invariance, PTL DEF Spec
=============================================================================
