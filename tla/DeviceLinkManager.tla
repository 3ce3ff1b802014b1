-------------------------- MODULE DeviceLinkManager --------------------------
(***************************************************************************)
(* DeviceLinkManagerActor (rshome-device-link/src/manager.rs): discovery   *)
(* records, one session per record, and the maps between the provisional   *)
(* id a record was found under and the canonical id its session resolves.  *)
(*                                                                         *)
(* Sessions follow SessionStages and talk to the manager through its       *)
(* mailbox; their messages carry only the provisional id.  The is_stale    *)
(* flag is left out: CheckStaleness sets it on every record it evicts just *)
(* before, so it decides nothing.                                          *)
(***************************************************************************)
EXTENDS Naturals, Sequences, FiniteSets, SessionStages

CONSTANTS
    Ids,            \* device ids, provisional and canonical
    Prov,           \* the ids mDNS records are found under
    RemovalId,      \* RemovalId[p]: the id a removal of p's service is sent with
    Canon,          \* Canon[p]: canonical ids a session for p may resolve
    Incs,           \* incarnations of session actors (bound)
    NoId, NoInc,    \* no id, no incarnation
    MAX_DISCOVERED,
    SessionCap,     \* min(max_devices, MAX_ACTIVE_SESSIONS), 0 if disabled
    MaxMail,        \* bound: messages waiting for the manager
    Events          \* which of EventKinds the environment produces

EventKinds == {"removal", "ageing", "seed", "stop"}

ASSUME ConstantsAssumption ==
    /\ Prov \subseteq Ids /\ NoId \notin Ids /\ NoInc \notin Incs
    /\ RemovalId \in [Prov -> Ids] /\ Canon \in [Prov -> SUBSET Ids]
    /\ MAX_DISCOVERED \in Nat /\ SessionCap \in Nat /\ MaxMail \in Nat
    /\ Events \subseteq EventKinds

VARIABLES
    discovered,  \* provisional ids with a discovery record
    old,         \* records not refreshed for STALE_EVICTION_SECS
    canonical,   \* canonical id -> SessionStatus, partial function
    p2c, c2p,    \* provisional_to_canonical and canonical_to_provisional
    restored,    \* canonical ids of snapshot-restored devices
    sessions,    \* provisional id -> incarnation, partial function
    running,     \* the manager has not stopped
    mail,        \* the manager's mailbox
    stage,       \* SessionStages stage of each incarnation, or "unborn"
    prov,        \* provisional id each incarnation was started for
    stopSent     \* incarnations that were sent Stop

managerVars == <<discovered, old, canonical, p2c, c2p, restored, sessions,
                 running>>
vars == <<discovered, old, canonical, p2c, c2p, restored, sessions, running,
          mail, stage, prov, stopSent>>

Statuses == {"Connecting", "Handshaking", "Active", "Backoff",
             "UnsupportedAuth"}

\* Partial functions on ids.
Partial(S, T) == UNION {[D -> T] : D \in SUBSET S}
Put(f, k, v) == [x \in DOMAIN f \cup {k} |-> IF x = k THEN v ELSE f[x]]
Drop(f, K) == [x \in DOMAIN f \ K |-> f[x]]
Empty == [x \in {} |-> NoId]

Msg ==
    [kind : {"DeviceDiscovered", "DeviceRemoved", "CheckStaleness",
             "SeedRestored", "Stop"},
     id : Ids \cup {NoId}, canon : {NoId}, status : {NoId}]
    \cup [kind : {"Identity"}, id : Ids \cup {NoId}, canon : Ids, status : {NoId}]
    \cup [kind : {"Status"}, id : Ids \cup {NoId}, canon : {NoId}, status : Statuses]

Event(k, p) == [kind |-> k, id |-> p, canon |-> NoId, status |-> NoId]
Identity(i, c) == [kind |-> "Identity", id |-> prov[i], canon |-> c,
                   status |-> NoId]
Status(i, s) == [kind |-> "Status", id |-> prov[i], canon |-> NoId,
                 status |-> s]

Init ==
    /\ discovered = {} /\ old = {}
    /\ canonical = Empty /\ p2c = Empty /\ c2p = Empty
    /\ restored = {} /\ sessions = Empty /\ running = TRUE
    /\ mail = <<>>
    /\ stage = [i \in Incs |-> "unborn"]
    /\ prov = [i \in Incs |-> NoId] /\ stopSent = {}

-----------------------------------------------------------------------------
(* Handlers *)

Take(m) == /\ running /\ mail # <<>> /\ m = Head(mail) /\ mail' = Tail(mail)

\* Stop to the sessions of the records in P; the message is never lost.
SendStop(P) == stopSent' = stopSent \cup {sessions[p] : p \in P \cap DOMAIN sessions}

\* spawn_session, for a record that is new.
spawn_session(p) ==
    IF p \in DOMAIN sessions \/ Cardinality(DOMAIN sessions) >= SessionCap
      THEN UNCHANGED <<sessions, stage, prov>>
      ELSE \E i \in Incs :
             /\ stage[i] = "unborn"
             /\ sessions' = Put(sessions, p, i)
             /\ stage' = [stage EXCEPT ![i] = "Discovered"]
             /\ prov' = [prov EXCEPT ![i] = p]

DeviceDiscovered(p) ==
    /\ Take(Event("DeviceDiscovered", p))
    /\ IF p \in discovered
         THEN /\ old' = old \ {p}
              /\ UNCHANGED <<discovered, sessions, stage, prov>>
         ELSE IF Cardinality(discovered) >= MAX_DISCOVERED
         THEN UNCHANGED <<discovered, old, sessions, stage, prov>>
         ELSE /\ spawn_session(p)
              /\ discovered' = discovered \cup {p}
              /\ old' = old \ {p}
    /\ UNCHANGED <<canonical, p2c, c2p, restored, running, stopSent>>

session_is_active(p) ==
    /\ p \in DOMAIN p2c /\ p2c[p] \in DOMAIN canonical
    /\ canonical[p2c[p]] = "Active"

\* Mutant: the reverse map keeps the removed device.
DeviceRemoved_KeepsReverse(p) ==
    /\ Take(Event("DeviceRemoved", p))
    /\ ~session_is_active(p)
    /\ LET gone == {p2c[q] : q \in {p} \cap DOMAIN p2c}
       IN /\ discovered' = discovered \ {p} /\ old' = old \ {p}
          /\ p2c' = Drop(p2c, {p})
          /\ canonical' = Drop(canonical, gone)
          /\ SendStop({p})
          /\ sessions' = Drop(sessions, {p})
    /\ UNCHANGED <<c2p, restored, running, stage, prov>>

DeviceRemoved(p) ==
    /\ Take(Event("DeviceRemoved", p))
    /\ IF session_is_active(p)
         THEN UNCHANGED <<discovered, old, canonical, p2c, c2p, sessions,
                          stopSent>>
         ELSE LET gone == {p2c[q] : q \in {p} \cap DOMAIN p2c}
              IN /\ discovered' = discovered \ {p} /\ old' = old \ {p}
                 /\ p2c' = Drop(p2c, {p})
                 /\ c2p' = Drop(c2p, gone)
                 /\ canonical' = Drop(canonical, gone)
                 /\ SendStop({p})
                 /\ sessions' = Drop(sessions, {p})
    /\ UNCHANGED <<restored, running, stage, prov>>

SessionIdentityResolved ==
    /\ mail # <<>> /\ Take(Head(mail)) /\ Head(mail).kind = "Identity"
    /\ LET p == Head(mail).id
           c == Head(mail).canon
       IN /\ restored' = restored \ {c}
          /\ IF c \in DOMAIN canonical
               THEN /\ SendStop({p})
                    /\ UNCHANGED <<canonical, p2c, c2p>>
               ELSE IF p \notin discovered
               THEN UNCHANGED <<canonical, p2c, c2p, stopSent>>
               ELSE /\ canonical' = Put(canonical, c, "Handshaking")
                    /\ p2c' = Put(p2c, p, c)
                    /\ c2p' = Put(c2p, c, p)
                    /\ UNCHANGED stopSent
    /\ UNCHANGED <<discovered, old, sessions, running, stage, prov>>

\* Mutant: a status report is filed under the provisional id.
StatusKey_Provisional(p) == p

\* The id a status report is filed under.
StatusKey(p) == IF p \in DOMAIN p2c THEN p2c[p] ELSE p

SessionStatusChanged ==
    /\ mail # <<>> /\ Take(Head(mail)) /\ Head(mail).kind = "Status"
    /\ LET c == StatusKey(Head(mail).id)
       IN canonical' = [x \in DOMAIN canonical |->
                          IF x = c THEN Head(mail).status ELSE canonical[x]]
    /\ UNCHANGED <<discovered, old, p2c, c2p, restored, sessions, running,
                   stage, prov, stopSent>>

\* Records CheckStaleness evicts: old, and no identity resolved for them.
Evictable == old \ DOMAIN p2c

\* Mutants: the evicted record's session stays in the table, or runs on.
CheckStaleness_KeepsEntry ==
    /\ Take(Event("CheckStaleness", NoId))
    /\ discovered' = discovered \ Evictable /\ old' = old \ Evictable
    /\ SendStop(Evictable)
    /\ UNCHANGED <<canonical, p2c, c2p, restored, sessions, running, stage,
                   prov>>
CheckStaleness_NoStop ==
    /\ Take(Event("CheckStaleness", NoId))
    /\ discovered' = discovered \ Evictable /\ old' = old \ Evictable
    /\ sessions' = Drop(sessions, Evictable)
    /\ UNCHANGED <<canonical, p2c, c2p, restored, running, stage, prov,
                   stopSent>>

CheckStaleness ==
    /\ Take(Event("CheckStaleness", NoId))
    /\ discovered' = discovered \ Evictable /\ old' = old \ Evictable
    /\ SendStop(Evictable)
    /\ sessions' = Drop(sessions, Evictable)
    /\ UNCHANGED <<canonical, p2c, c2p, restored, running, stage, prov>>

SeedRestoredDevice(c) ==
    /\ Take(Event("SeedRestored", c))
    /\ restored' = restored \cup {c}
    /\ UNCHANGED <<discovered, old, canonical, p2c, c2p, sessions, running,
                   stage, prov, stopSent>>

\* The discovery records are kept, everything else is cleared.
Stop ==
    /\ running /\ mail # <<>> /\ Head(mail) = Event("Stop", NoId)
    /\ SendStop(DOMAIN sessions)
    /\ sessions' = Empty /\ canonical' = Empty /\ p2c' = Empty /\ c2p' = Empty
    /\ restored' = {} /\ running' = FALSE /\ mail' = <<>>
    /\ UNCHANGED <<discovered, old, stage, prov>>

\* DispatchCommand: the session a command for device d is handed to.
Route(d) ==
    LET p == IF d \in DOMAIN c2p THEN c2p[d] ELSE d
    IN IF p \in DOMAIN sessions THEN sessions[p] ELSE NoInc

-----------------------------------------------------------------------------
(* mDNS, timers, and the sessions *)

Post(m) == running /\ Len(mail) < MaxMail /\ mail' = Append(mail, m)
\* A session goes on when the manager is gone: its sends fail, unnoticed.
Tell(m) == Post(m) \/ (~running /\ mail' = mail)

MdnsFound(p) ==
    /\ Post(Event("DeviceDiscovered", p))
    /\ UNCHANGED <<managerVars, stage, prov, stopSent>>

\* A record is named by the mac of its TXT record or else by its hostname, a
\* removal always by the instance name (fullname_to_device_id).
MdnsRemoved(p) ==
    /\ "removal" \in Events
    /\ Post(Event("DeviceRemoved", RemovalId[p]))
    /\ UNCHANGED <<managerVars, stage, prov, stopSent>>

StalenessTick ==
    /\ "ageing" \in Events
    /\ Post(Event("CheckStaleness", NoId))
    /\ UNCHANGED <<managerVars, stage, prov, stopSent>>

\* Time passes, or the clock jumps.
RecordAges(p) ==
    /\ "ageing" \in Events /\ p \in discovered
    /\ old' = old \cup {p}
    /\ UNCHANGED <<discovered, canonical, p2c, c2p, restored, sessions,
                   running, mail, stage, prov, stopSent>>

Seed(c) ==
    /\ "seed" \in Events /\ Post(Event("SeedRestored", c))
    /\ UNCHANGED <<managerVars, stage, prov, stopSent>>

Shutdown ==
    /\ "stop" \in Events /\ Post(Event("Stop", NoId))
    /\ UNCHANGED <<managerVars, stage, prov, stopSent>>

\* The status a session in stage s has reported last.
LastReport(s) == CASE s = "Resolved" -> "Handshaking"
                   [] s = "Refused" -> "Backoff"
                   [] OTHER -> s

\* Entering Resolved announces the identity, the other stages a status.
SessionReports(i) ==
    /\ stage[i] \in Stages
    /\ \E s \in Follows[stage[i]] \ Final :
        /\ stage' = [stage EXCEPT ![i] = s]
        /\ IF s = "Resolved" THEN \E c \in Canon[prov[i]] : Tell(Identity(i, c))
                             ELSE Tell(Status(i, LastReport(s)))
    /\ UNCHANGED <<managerVars, prov, stopSent>>

\* UnsupportedAuth follows the identity; the actor then stops by itself.
SessionRefused(i) ==
    /\ stage[i] = "Handshaking" /\ running /\ Len(mail) + 1 < MaxMail
    /\ stage' = [stage EXCEPT ![i] = "UnsupportedAuth"]
    /\ \E c \in Canon[prov[i]] :
        mail' = mail \o <<Identity(i, c), Status(i, "UnsupportedAuth")>>
    /\ UNCHANGED <<managerVars, prov, stopSent>>

SessionStops(i) ==
    /\ i \in stopSent /\ stage[i] \in Stages
    /\ "Stopped" \in Follows[stage[i]]
    /\ stage' = [stage EXCEPT ![i] = "Stopped"]
    /\ UNCHANGED <<managerVars, mail, prov, stopSent>>

-----------------------------------------------------------------------------
Manager ==
    \/ \E p \in Prov : DeviceDiscovered(p)
    \/ SessionIdentityResolved \/ SessionStatusChanged \/ CheckStaleness
    \/ \E c \in Ids : DeviceRemoved(c) \/ SeedRestoredDevice(c)
    \/ Stop

Next ==
    \/ Manager
    \/ \E p \in Prov : MdnsFound(p) \/ MdnsRemoved(p) \/ RecordAges(p)
    \/ \E c \in UNION {Canon[p] : p \in Prov} : Seed(c)
    \/ StalenessTick \/ Shutdown
    \/ \E i \in Incs : SessionReports(i) \/ SessionRefused(i) \/ SessionStops(i)

Spec == Init /\ [][Next]_vars

-----------------------------------------------------------------------------
(* Properties *)

TypeOK ==
    /\ discovered \subseteq Prov /\ old \subseteq discovered
    /\ canonical \in Partial(Ids, Statuses)
    /\ p2c \in Partial(Prov, Ids) /\ c2p \in Partial(Ids, Prov)
    /\ restored \subseteq Ids /\ sessions \in Partial(Prov, Incs)
    /\ running \in BOOLEAN /\ mail \in Seq(Msg)
    /\ stage \in [Incs -> Stages \cup {"unborn"}]
    /\ prov \in [Incs -> Prov \cup {NoId}] /\ stopSent \subseteq Incs

(* provisional_to_canonical and canonical_to_provisional are inverse to    *)
(* each other and cover exactly the canonical records, so a canonical      *)
(* record can always be routed and removed through its provisional id.     *)
MapsInverse ==
    /\ DOMAIN canonical = DOMAIN c2p
    /\ \A c \in DOMAIN c2p : c2p[c] \in DOMAIN p2c /\ p2c[c2p[c]] = c
    /\ \A p \in DOMAIN p2c : p2c[p] \in DOMAIN c2p /\ c2p[p2c[p]] = p

(* Sessions and identities exist only for devices with a discovery record, *)
(* in any order of stale reports, removal and rediscovery: what the lists  *)
(* of discovered devices leave out runs no session. Whether a record can   *)
(* be removed is another matter: a removal reaches it only if RemovalId is *)
(* its own id, and eviction only while no identity is resolved for it.     *)
RecordsCoverSessions ==
    running => DOMAIN sessions \subseteq discovered /\ DOMAIN p2c \subseteq discovered

(* No session actor is leaked: one the manager no longer lists was sent    *)
(* Stop (removal, eviction, shutdown) or has ended by itself.              *)
NoLeakedSession ==
    \A i \in Incs : stage[i] \in Stages \ Final =>
        i \in stopSent \/ \E p \in DOMAIN sessions : sessions[p] = i

(* MAX_DISCOVERED and the session cap bound the two tables, also while     *)
(* records are stored for which the session table had no room.             *)
CapsRespected ==
    /\ Cardinality(discovered) <= MAX_DISCOVERED
    /\ Cardinality(DOMAIN sessions) <= SessionCap

(* Once the manager has worked off its mailbox, the status it answers with *)
(* is the one the owning session reported last, whatever other records     *)
(* were removed, evicted or collapsed meanwhile. A record that was started *)
(* twice is excepted: reports carry no incarnation, and one of the stopped *)
(* session may be filed last. So is a board found under two records of     *)
(* which one is named by its address: StatusKey takes the reports of that  *)
(* one for the other's, and no instance checked here has such a pair.      *)
QuiescentStatus ==
    running /\ mail = <<>> =>
        \A c \in DOMAIN canonical :
            LET i == Route(c) IN
            /\ i # NoInc /\ stage[i] # "Stopped"
            /\ \A j \in Incs \ {i} : prov[j] # prov[i]
            => canonical[c] = LastReport(stage[i])

(* The duplicate-MAC collapse stops a redundant session, never the one     *)
(* that owns the canonical record.                                         *)
OwnerKeepsSession ==
    \A c \in DOMAIN canonical : Route(c) \notin stopSent

=============================================================================
