--------------------------- MODULE DeviceSession ---------------------------
(***************************************************************************)
(* DeviceSessionActor (rshome-device-link/src/session.rs): the connection  *)
(* life cycle of one ESPHome device.                                       *)
(*                                                                         *)
(* One actor drains a mailbox.  Around it run tasks it never joins or      *)
(* cancels: a reader per TCP connection, a sleeper per scheduled           *)
(* reconnect, a ping ticker per entry into Active.  They only post         *)
(* messages, and the messages do not say which connection, sleeper or      *)
(* ticker they come from; the field "conn" below is a history field that   *)
(* no guard of the actor reads.                                            *)
(***************************************************************************)
EXTENDS Naturals, Sequences, FiniteSets

CONSTANTS
    Conns,        \* identities of TCP connections (reused once forgotten)
    Entities,     \* entities the firmware may export
    NoConn,       \* no connection
    NoEntity,     \* the message carries no entity
    Faults,       \* which of FaultKinds the environment may exhibit
    MaxFrames,    \* bound: frames waiting in the mailbox
    MaxChains,    \* bound: independent reconnect chains, see Chains
    MaxAttempts,  \* bound: reconnect_attempts saturates here
    MaxTickers    \* bound: ping tickers counted

FaultKinds == {"silence", "badInfo", "password", "overCap", "noDevice",
               "malformed", "unexpected"}

ASSUME ConstantsAssumption ==
    /\ NoConn \notin Conns
    /\ NoEntity \notin Entities
    /\ Faults \subseteq FaultKinds
    /\ MaxFrames \in Nat /\ MaxChains \in Nat
    /\ MaxAttempts \in Nat \ {0} /\ MaxTickers \in Nat \ {0}

VARIABLES
    fsm,         \* SessionFsm, with HandshakePhase folded in
    writer,      \* connection whose FrameWriter the fsm owns
    connecting,  \* the handler is suspended in TcpStream::connect
    listed,      \* entities collected so far in CollectingEntities
    refs,        \* keys of entity_refs
    device_ref,  \* DeviceActor registered
    shown,       \* last EntityState given to each entity actor
    firmware,    \* keys of firmware_states
    attempts,    \* reconnect_attempts
    quiet,       \* last_activity_at is CLIENT_INACTIVITY_TIMEOUT_SECS old
    reported,    \* last SessionStatusChanged sent to the manager
    mail,        \* the actor's mailbox
    timers,      \* reconnect sleepers still asleep
    tickers,     \* ping tickers alive
    reader       \* reader task of each connection

actorVars == <<fsm, writer, connecting, listed, refs, device_ref, shown,
               firmware, attempts, quiet, reported>>
vars == <<fsm, writer, connecting, listed, refs, device_ref, shown, firmware,
          attempts, quiet, reported, mail, timers, tickers, reader>>

Handshake == {"AwaitHello", "AwaitDeviceInfo", "CollectingEntities"}
\* Refused is the rest of the ListDone arm after a refused import: self.fsm is
\* Reconnecting, and the handler still holds the writer it is subscribing with.
Connected == Handshake \cup {"Refused", "Active"}
SessionFsm == {"Idle", "Reconnecting", "Stopped"} \cup Connected

SessionStatus == {"Discovered", "Connecting", "Handshaking", "Active",
                  "Backoff", "UnsupportedAuth"}

FrameKinds == {"Hello", "DeviceInfo", "BadDeviceInfo", "PasswordInfo",
               "Entity", "ListDone", "State", "Other"}
ControlKinds == {"Connect", "Reconnect", "ReaderClosed", "FrameError",
                 "PingTick", "Stop"}

DeviceSessionMsg == [kind : FrameKinds \cup ControlKinds,
                     conn : Conns \cup {NoConn},
                     ent  : Entities \cup {NoEntity}]

Msg(k, c, e) == [kind |-> k, conn |-> c, ent |-> e]
Control(k) == Msg(k, NoConn, NoEntity)

Has(s, m) == \E i \in 1..Len(s) : s[i] = m
InMail(m) == Has(mail, m)
Queued(K) == Cardinality({i \in 1..Len(mail) : mail[i].kind \in K})

Lost(c) == InMail(Msg("ReaderClosed", c, NoEntity))
           \/ InMail(Msg("FrameError", c, NoEntity))

(***************************************************************************)
(* A chain is something that will make the actor (re)connect: a sleeper,   *)
(* a queued (re)connect, a connect under way, a reader whose end will be   *)
(* noticed, a queued notice of such an end.                                *)
(***************************************************************************)
Chains ==
    timers
    + Queued({"Connect", "Reconnect", "ReaderClosed", "FrameError"})
    + (IF connecting THEN 1 ELSE 0)
    + Cardinality({c \in Conns : reader[c] = "reading"})

Post(m) == mail' = Append(mail, m)

(***************************************************************************)
(* pre_start queues Connect before any other message.                      *)
(***************************************************************************)
Init ==
    /\ fsm = "Idle" /\ writer = NoConn /\ connecting = FALSE
    /\ listed = {} /\ refs = {} /\ device_ref = FALSE
    /\ shown = [e \in Entities |-> "none"] /\ firmware = {}
    /\ attempts = 0 /\ quiet = FALSE /\ reported = "Discovered"
    /\ mail = <<Control("Connect")>>
    /\ timers = 0 /\ tickers = 0
    /\ reader = [c \in Conns |-> "idle"]

-----------------------------------------------------------------------------
(* Pieces of handlers *)

\* The actor takes the next message; m is that message.
Take(m) ==
    /\ fsm \notin {"Stopped", "Refused"} /\ ~connecting
    /\ mail # <<>> /\ m = Head(mail) /\ mail' = Tail(mail)

\* Mutant: the last-firmware-state entries survive.
mark_KeepsFirmware ==
    /\ shown' = [e \in Entities |-> IF e \in refs THEN "unavailable"
                                                  ELSE shown[e]]
    /\ firmware' = firmware

mark_entities_unavailable ==
    /\ shown' = [e \in Entities |-> IF e \in refs THEN "unavailable"
                                                  ELSE shown[e]]
    /\ firmware' = firmware \ refs

BumpAttempts == IF attempts < MaxAttempts THEN attempts + 1 ELSE attempts

\* Mutant: the sleeper is not spawned.
schedule_NoSleeper ==
    /\ reported' = "Backoff"
    /\ attempts' = BumpAttempts
    /\ fsm' = "Reconnecting" /\ writer' = NoConn
    /\ timers' = timers

\* Setting the fsm to Reconnecting drops the writer; nothing stops its reader.
schedule_reconnect ==
    /\ reported' = "Backoff"
    /\ attempts' = BumpAttempts
    /\ fsm' = "Reconnecting" /\ writer' = NoConn
    /\ timers' = timers + 1

\* Mutant: entities keep their last state.
post_stop_NoMark ==
    /\ UNCHANGED <<shown, firmware>>
    /\ fsm' = "Stopped" /\ writer' = NoConn
    /\ mail' = <<>> /\ timers' = 0 /\ tickers' = 0
    /\ listed' = {} /\ attempts' = attempts /\ connecting' = FALSE

\* The actor loop ends: children are stopped, post_stop runs, the mailbox goes.
post_stop ==
    /\ mark_entities_unavailable
    /\ fsm' = "Stopped" /\ writer' = NoConn
    /\ mail' = <<>> /\ timers' = 0 /\ tickers' = 0
    /\ listed' = {} /\ attempts' = attempts /\ connecting' = FALSE

-----------------------------------------------------------------------------
(* connect_and_send_hello, split at TcpStream::connect(..).await *)

ConnectBegin ==
    /\ \E m \in {Control("Connect"), Control("Reconnect")} : Take(m)
    /\ connecting' = TRUE
    /\ reported' = "Connecting"
    /\ UNCHANGED <<fsm, writer, listed, refs, device_ref, shown, firmware,
                   attempts, quiet, timers, tickers, reader>>

Free(c) ==
    /\ reader[c] = "idle" /\ writer # c
    /\ \A i \in 1..Len(mail) : mail[i].conn # c

\* The fsm is overwritten whatever it was: a writer it still held is dropped.
ConnectOk(c) ==
    /\ connecting /\ Free(c)
    /\ connecting' = FALSE
    /\ reader' = [reader EXCEPT ![c] = "reading"]
    /\ reported' = "Handshaking"
    /\ fsm' = "AwaitHello" /\ writer' = c /\ listed' = {}
    /\ UNCHANGED <<refs, device_ref, shown, firmware, attempts, quiet, mail,
                   timers, tickers>>

\* Connect refused, Noise handshake failed, or an undecodable PSK.
ConnectFail ==
    /\ connecting
    /\ connecting' = FALSE
    /\ schedule_reconnect
    /\ listed' = {}
    /\ UNCHANGED <<refs, device_ref, shown, firmware, quiet, mail, tickers,
                   reader>>

-----------------------------------------------------------------------------
(* handle_inbound *)

\* A frame that moves nothing: not expected in this phase, or arriving while
\* the fsm owns no connection.  Only the inactivity clock is reset.
Ignored(m) ==
    \/ fsm \notin Connected
    \/ fsm = "AwaitHello" /\ m.kind # "Hello"
    \/ fsm = "AwaitDeviceInfo"
       /\ m.kind \notin {"DeviceInfo", "BadDeviceInfo", "PasswordInfo"}
    \/ fsm = "CollectingEntities" /\ m.kind \notin {"Entity", "ListDone"}
    \/ fsm = "Active" /\ m.kind # "State"

FrameIgnored ==
    /\ mail # <<>> /\ Head(mail).kind \in FrameKinds /\ Ignored(Head(mail))
    /\ Take(Head(mail))
    /\ quiet' = FALSE
    /\ UNCHANGED <<fsm, writer, connecting, listed, refs, device_ref, shown,
                   firmware, attempts, reported, timers, tickers, reader>>

HelloReceived(c) ==
    /\ fsm = "AwaitHello" /\ Take(Msg("Hello", c, NoEntity))
    /\ fsm' = "AwaitDeviceInfo" /\ quiet' = FALSE
    /\ UNCHANGED <<writer, connecting, listed, refs, device_ref, shown,
                   firmware, attempts, reported, timers, tickers, reader>>

DeviceInfoReceived(c) ==
    /\ fsm = "AwaitDeviceInfo" /\ Take(Msg("DeviceInfo", c, NoEntity))
    /\ fsm' = "CollectingEntities" /\ listed' = {} /\ quiet' = FALSE
    /\ UNCHANGED <<writer, connecting, refs, device_ref, shown, firmware,
                   attempts, reported, timers, tickers, reader>>

\* The payload does not decode: reconnect, without marking the entities.
BadDeviceInfoReceived(c) ==
    /\ fsm = "AwaitDeviceInfo" /\ Take(Msg("BadDeviceInfo", c, NoEntity))
    /\ schedule_reconnect /\ quiet' = FALSE
    /\ UNCHANGED <<connecting, listed, refs, device_ref, shown, firmware,
                   tickers, reader>>

\* uses_password: report UnsupportedAuth and stop for good.
PasswordInfoReceived(c) ==
    /\ fsm = "AwaitDeviceInfo" /\ ~connecting
    /\ mail # <<>> /\ Head(mail) = Msg("PasswordInfo", c, NoEntity)
    /\ reported' = "UnsupportedAuth" /\ quiet' = FALSE
    /\ post_stop
    /\ UNCHANGED <<refs, device_ref, reader>>

EntityListed(c, e) ==
    /\ fsm = "CollectingEntities" /\ Take(Msg("Entity", c, e))
    /\ listed' = listed \cup {e} /\ quiet' = FALSE
    /\ UNCHANGED <<fsm, writer, connecting, refs, device_ref, shown, firmware,
                   attempts, reported, timers, tickers, reader>>

\* Mutant: the status is not sent.
EnterActive_NoReport ==
    /\ fsm' = "Active" /\ writer' = writer /\ listed' = {}
    /\ attempts' = 0 /\ quiet' = FALSE /\ reported' = reported
    /\ tickers' = IF tickers < MaxTickers THEN tickers + 1 ELSE tickers

\* What follows finalize_entities in the ListDone arm, whatever it did.
EnterActive ==
    /\ fsm' = "Active" /\ writer' = writer /\ listed' = {}
    /\ attempts' = 0 /\ quiet' = FALSE /\ reported' = "Active"
    /\ tickers' = IF tickers < MaxTickers THEN tickers + 1 ELSE tickers

\* finalize_entities gives up: the DeviceManager did not answer AddDevice.
ListDoneNoDevice(c) ==
    /\ fsm = "CollectingEntities" /\ Take(Msg("ListDone", c, NoEntity))
    /\ ~device_ref /\ "noDevice" \in Faults
    /\ EnterActive
    /\ UNCHANGED <<connecting, refs, device_ref, shown, firmware, timers,
                   reader>>

\* finalize_entities refuses the import (per-device or global entity limit):
\* it marks the entities and schedules a reconnect, Backoff report included,
\* and returns to an arm that goes on to SUBSCRIBE_STATES on the connection.
ListDoneOverCap(c) ==
    /\ fsm = "CollectingEntities" /\ Take(Msg("ListDone", c, NoEntity))
    /\ listed # {} /\ "overCap" \in Faults /\ Chains < MaxChains
    /\ device_ref' = TRUE /\ quiet' = FALSE /\ listed' = {}
    /\ mark_entities_unavailable
    /\ reported' = "Backoff" /\ attempts' = BumpAttempts
    /\ timers' = timers + 1
    /\ fsm' = "Refused"
    /\ UNCHANGED <<writer, connecting, refs, tickers, reader>>

\* SUBSCRIBE_STATES is written: Active is entered past the refused import.
SubscribedRefused ==
    /\ fsm = "Refused"
    /\ EnterActive
    /\ UNCHANGED <<connecting, refs, device_ref, shown, firmware, mail, timers,
                   reader>>

\* Mutant: the list may end in any phase of the handshake.
ListDoneImported_AnyPhase(c) ==
    /\ fsm \in Handshake /\ Take(Msg("ListDone", c, NoEntity))
    /\ device_ref' = TRUE /\ EnterActive
    /\ UNCHANGED <<connecting, refs, shown, firmware, timers, reader>>

\* The import: entities already held keep their actor and their state, new
\* ones start with the parsed initial state unless the registry already had
\* an actor for them (adopted), entities no longer listed are marked.
ListDoneImported(c) ==
    /\ fsm = "CollectingEntities" /\ Take(Msg("ListDone", c, NoEntity))
    /\ device_ref' = TRUE
    /\ IF listed = {}
         THEN UNCHANGED <<refs, shown, firmware>>
         ELSE \E adopted \in SUBSET (listed \ refs) :
                /\ refs' = refs \cup listed
                /\ firmware' = firmware \ (refs \ listed)
                /\ shown' = [e \in Entities |->
                        IF e \in refs \ listed THEN "unavailable"
                        ELSE IF e \in listed \ (refs \cup adopted)
                             THEN "value" ELSE shown[e]]
    /\ EnterActive
    /\ UNCHANGED <<connecting, timers, reader>>

\* ingest_state: an entity this session never imported is skipped.
StateReceived(c, e) ==
    /\ fsm = "Active" /\ Take(Msg("State", c, e))
    /\ quiet' = FALSE
    /\ IF e \in refs
         THEN /\ firmware' = firmware \cup {e}
              /\ shown' = [shown EXCEPT ![e] = "value"]
         ELSE UNCHANGED <<firmware, shown>>
    /\ UNCHANGED <<fsm, writer, connecting, listed, refs, device_ref,
                   attempts, reported, timers, tickers, reader>>

-----------------------------------------------------------------------------
(* The other messages *)

\* No test of the fsm, and no way to tell whose reader it was.
ReaderClosed ==
    /\ \E c \in Conns, k \in {"ReaderClosed", "FrameError"} :
            Take(Msg(k, c, NoEntity))
    /\ mark_entities_unavailable
    /\ schedule_reconnect
    /\ UNCHANGED <<connecting, listed, refs, device_ref, quiet, tickers,
                   reader>>

\* Mutant: every tick tears the connection down.
PingTick_NoClockCheck ==
    /\ Take(Control("PingTick"))
    /\ IF fsm = "Active"
         THEN mark_entities_unavailable /\ schedule_reconnect
         ELSE UNCHANGED <<fsm, writer, shown, firmware, attempts, reported,
                          timers>>
    /\ UNCHANGED <<connecting, listed, refs, device_ref, quiet, tickers,
                   reader>>

PingTick ==
    /\ Take(Control("PingTick"))
    /\ IF fsm = "Active" /\ quiet
         THEN mark_entities_unavailable /\ schedule_reconnect
         ELSE UNCHANGED <<fsm, writer, shown, firmware, attempts, reported,
                          timers>>
    /\ UNCHANGED <<connecting, listed, refs, device_ref, quiet, tickers,
                   reader>>

StopReceived ==
    /\ fsm \notin {"Stopped", "Refused"} /\ ~connecting
    /\ mail # <<>> /\ Head(mail) = Control("Stop")
    /\ post_stop
    /\ UNCHANGED <<refs, device_ref, quiet, reported, reader>>

\* The parent stops: its child handles are signalled, which the actor loop
\* notices between two messages.
StoppedByParent ==
    /\ fsm \notin {"Stopped", "Refused"} /\ ~connecting
    /\ post_stop
    /\ UNCHANGED <<refs, device_ref, quiet, reported, reader>>

-----------------------------------------------------------------------------
(* Tasks around the actor, the firmware, the network and the manager *)

TimerFires ==
    /\ timers > 0
    /\ timers' = timers - 1 /\ Post(Control("Reconnect"))
    /\ UNCHANGED <<actorVars, tickers, reader>>

TickerFires ==
    /\ tickers > 0 /\ ~InMail(Control("PingTick"))
    /\ Post(Control("PingTick"))
    /\ UNCHANGED <<actorVars, timers, tickers, reader>>

\* Mutant: the reader ends without a word.
ReaderEnds_Silently(c) ==
    /\ reader[c] = "reading"
    /\ reader' = [reader EXCEPT ![c] = "idle"]
    /\ mail' = mail
    /\ UNCHANGED <<actorVars, timers, tickers>>

\* The reader of c ends with EOF or an I/O error.
ReaderEnds(c) ==
    /\ reader[c] = "reading"
    /\ reader' = [reader EXCEPT ![c] = "idle"]
    /\ IF fsm = "Stopped" THEN mail' = mail
                          ELSE Post(Msg("ReaderClosed", c, NoEntity))
    /\ UNCHANGED <<actorVars, timers, tickers>>

\* The writer was dropped: the firmware sees the end and closes its side.
PeerCloses(c) == writer # c /\ ReaderEnds(c)
\* The network or the firmware ends a connection the session still uses.
NetworkLoss(c) == writer = c /\ ReaderEnds(c)

MalformedFrame(c) ==
    /\ "malformed" \in Faults
    /\ reader[c] = "reading" /\ fsm # "Stopped"
    /\ reader' = [reader EXCEPT ![c] = "idle"]
    /\ Post(Msg("FrameError", c, NoEntity))
    /\ UNCHANGED <<actorVars, timers, tickers>>

Frame(c, k, e) ==
    /\ reader[c] = "reading" /\ fsm # "Stopped"
    /\ Queued(FrameKinds) < MaxFrames
    /\ Post(Msg(k, c, e))
    /\ UNCHANGED <<actorVars, timers, tickers, reader>>

Expected == [p \in Connected |->
    CASE p = "AwaitHello" -> "Hello" [] p = "AwaitDeviceInfo" -> "DeviceInfo"
      [] p = "CollectingEntities" -> "ListDone" [] OTHER -> "Other"]

\* The firmware answers the request of the current handshake phase.
FirmwareAnswers(c) ==
    /\ writer = c /\ fsm \in Handshake
    /\ ~InMail(Msg(Expected[fsm], c, NoEntity))
    /\ Frame(c, Expected[fsm], NoEntity)

\* Entity list and state frames it sends in between.
FirmwareLists(c, e) ==
    /\ fsm = "CollectingEntities" /\ writer = c /\ e \notin listed
    /\ Frame(c, "Entity", e)
FirmwarePushes(c, e) ==
    /\ fsm = "Active" /\ writer = c /\ Frame(c, "State", e)

\* Frames outside the protocol's order, on any open connection.
FirmwareMisbehaves(c) ==
    \/ "badInfo" \in Faults /\ fsm = "AwaitDeviceInfo" /\ writer = c
       /\ Chains < MaxChains /\ Frame(c, "BadDeviceInfo", NoEntity)
    \/ "password" \in Faults /\ fsm = "AwaitDeviceInfo" /\ writer = c
       /\ Frame(c, "PasswordInfo", NoEntity)
    \/ "unexpected" \in Faults /\ \E k \in {"Hello", "ListDone", "Other"} :
       Frame(c, k, NoEntity)

\* Nothing arrives for the inactivity timeout.
LinkFallsSilent ==
    /\ "silence" \in Faults /\ fsm = "Active" /\ ~quiet /\ Chains < MaxChains
    /\ quiet' = TRUE
    /\ UNCHANGED <<fsm, writer, connecting, listed, refs, device_ref, shown,
                   firmware, attempts, reported, mail, timers, tickers,
                   reader>>

ManagerStops ==
    /\ fsm # "Stopped" /\ ~InMail(Control("Stop"))
    /\ Post(Control("Stop"))
    /\ UNCHANGED <<actorVars, timers, tickers, reader>>

-----------------------------------------------------------------------------
ActorStep ==
    \/ ConnectBegin \/ (\E c \in Conns : ConnectOk(c))
    \/ FrameIgnored \/ ReaderClosed \/ PingTick \/ StopReceived
    \/ SubscribedRefused
    \/ \E c \in Conns :
        \/ HelloReceived(c) \/ DeviceInfoReceived(c)
        \/ BadDeviceInfoReceived(c) \/ PasswordInfoReceived(c)
        \/ ListDoneNoDevice(c) \/ ListDoneOverCap(c) \/ ListDoneImported(c)
        \/ \E e \in Entities : EntityListed(c, e) \/ StateReceived(c, e)

Firmware ==
    \E c \in Conns :
        \/ FirmwareAnswers(c) \/ FirmwareMisbehaves(c)
        \/ \E e \in Entities : FirmwareLists(c, e) \/ FirmwarePushes(c, e)

Next ==
    \/ ActorStep \/ ConnectFail \/ StoppedByParent
    \/ TimerFires \/ TickerFires \/ LinkFallsSilent \/ ManagerStops
    \/ Firmware
    \/ \E c \in Conns : PeerCloses(c) \/ NetworkLoss(c) \/ MalformedFrame(c)

Spec == Init /\ [][Next]_vars

(***************************************************************************)
(* What the runtime guarantees: the actor is scheduled while it has mail,  *)
(* sleepers wake, dropped connections end, and the firmware answers.       *)
(***************************************************************************)
Fairness ==
    /\ WF_vars(ActorStep) /\ WF_vars(TimerFires)
    /\ \A c \in Conns : WF_vars(PeerCloses(c)) /\ WF_vars(FirmwareAnswers(c))

FairSpec == Spec /\ Fairness

-----------------------------------------------------------------------------
(* Properties *)

TypeOK ==
    /\ fsm \in SessionFsm /\ writer \in Conns \cup {NoConn}
    /\ connecting \in BOOLEAN /\ device_ref \in BOOLEAN /\ quiet \in BOOLEAN
    /\ listed \subseteq Entities /\ refs \subseteq Entities
    /\ firmware \subseteq Entities
    /\ shown \in [Entities -> {"none", "unavailable", "value"}]
    /\ attempts \in 0..MaxAttempts /\ reported \in SessionStatus
    /\ mail \in Seq(DeviceSessionMsg)
    /\ timers \in Nat /\ tickers \in 0..MaxTickers
    /\ reader \in [Conns -> {"idle", "reading"}]

(* A session that owns a connection will hear of its end: the reader is    *)
(* still reading or its notice is queued.  Nothing else watches a          *)
(* connection in the handshake, so losing the notice would hang there.     *)
WriterHasReader ==
    writer # NoConn => reader[writer] = "reading" \/ Lost(writer)

(* A session without a connection will try again: a sleeper, a queued      *)
(* message or a connect under way is left whatever order messages came in. *)
ReconnectPending ==
    fsm \in {"Idle", "Reconnecting"} =>
        \/ timers > 0 \/ connecting
        \/ InMail(Control("Connect")) \/ InMail(Control("Reconnect"))

(* The status the manager last heard is the state of the fsm, in every     *)
(* order of teardown, connect, refused import and stale notices.           *)
ReportMatchesFsm ==
    fsm \notin {"Idle", "Stopped"} =>
        CASE connecting -> reported = "Connecting"
          [] ~connecting /\ fsm \in Handshake -> reported = "Handshaking"
          [] ~connecting /\ fsm = "Active" -> reported = "Active"
          [] ~connecting /\ fsm \in {"Reconnecting", "Refused"} ->
                reported = "Backoff"

(* An entity in the last-firmware-state table was last given a pushed      *)
(* value: once marked unavailable it has no entry, so RemoteStateUpdater   *)
(* cannot take a later command for a firmware push.                        *)
FirmwareEntriesAreShown ==
    \A e \in firmware : e \in refs /\ shown[e] = "value"

(* A stopped session leaves every entity it imported Unavailable           *)
(* (lifecycle point 4), whichever of the three ways it stopped.            *)
StoppedMeansUnavailable ==
    fsm = "Stopped" => \A e \in refs : shown[e] = "unavailable"

(* The backoff counter is 0 whenever the session is Active, also when      *)
(* Active was entered past a refused import.                               *)
ActiveResetsBackoff == fsm = "Active" => attempts = 0

(***************************************************************************)
(* Refinement mapping to SessionLifecycle.                                 *)
(***************************************************************************)
StageOf ==
    CASE connecting -> "Connecting"
      [] ~connecting /\ fsm = "Idle" -> "Discovered"
      [] ~connecting /\ fsm \in {"AwaitHello", "AwaitDeviceInfo"} -> "Handshaking"
      [] ~connecting /\ fsm = "CollectingEntities" -> "Resolved"
      [] ~connecting /\ fsm = "Refused" -> "Refused"
      [] ~connecting /\ fsm = "Active" -> "Active"
      [] ~connecting /\ fsm = "Reconnecting" -> "Backoff"
      [] ~connecting /\ fsm = "Stopped" ->
            IF reported = "UnsupportedAuth" THEN "UnsupportedAuth" ELSE "Stopped"

Lifecycle == INSTANCE SessionLifecycle WITH stage <- StageOf

(* The session goes through the stages in the order the manager relies on: *)
(* the identity is announced once per connection and before Active, a      *)
(* refused login ends it, nothing follows a stop, and the one Backoff that *)
(* is followed by Active without a new connect is that of a refused import.*)
FollowsLifecycle == Lifecycle!LifecycleSpec

(* With one connection attempt to start with, exactly one chain of         *)
(* reconnecting exists until the actor stops: no step loses it and none    *)
(* starts a second one.                                                    *)
SingleChain == fsm # "Stopped" => Chains = 1

Fault ==
    \/ ConnectFail \/ LinkFallsSilent
    \/ \E c \in Conns :
        NetworkLoss(c) \/ MalformedFrame(c) \/ FirmwareMisbehaves(c)

(* Once the network and the firmware behave for good (connects succeed,    *)
(* connections last, frames keep coming and are well-formed), the session  *)
(* becomes Active and stays Active, unless it is stopped.                  *)
Recovery ==
    (<>[][~Fault]_vars) => <>[](fsm \in {"Active", "Stopped"})
=============================================================================
