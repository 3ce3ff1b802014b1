----------------------------- MODULE RemoteState -----------------------------
(***************************************************************************)
(* The state of one imported entity on its way between the firmware, the   *)
(* DeviceSessionActor, the EntityActor and the RemoteStateUpdater          *)
(* (rshome-device-link/src/session.rs, rshome-entity/src/entity_actor.rs). *)
(*                                                                         *)
(* The updater only sees values: it takes a new state that equals the last *)
(* firmware push for a push, and any other for a local command that has to *)
(* be relayed.                                                             *)
(***************************************************************************)
EXTENDS Naturals, Sequences

CONSTANTS
    Values,        \* entity states other than Unavailable
    Unavailable,   \* EntityState::Unavailable
    NoValue,       \* no entry in firmware_states
    Inputs,        \* which of InputKinds the environment produces
    MaxQueue       \* bound: messages in each queue when an input is produced

InputKinds == {"command", "dispatch", "physical", "drop", "overlap"}

ASSUME ConstantsAssumption ==
    /\ Unavailable \notin Values /\ NoValue \notin Values
    /\ Inputs \subseteq InputKinds /\ MaxQueue \in Nat

VARIABLES
    fw,              \* state of the entity in the firmware
    up,              \* state frames on their way to the session
    down,            \* command frames on their way to the firmware
    active,          \* the session is Active
    firmware_state,  \* the entity's entry in firmware_states
    inbox,           \* the EntityActor's mailbox
    state,           \* the EntityActor's state, and the StateStore's
    relay,           \* RelayCommand messages on their way to the session
    marked           \* history: entities were marked since it was last Active

vars == <<fw, up, down, active, firmware_state, inbox, state, relay, marked>>

EntityMsg == [kind : {"SetState"}, v : Values \cup {Unavailable}]
                \cup [kind : {"Command"}, v : Values]
SetState(v) == [kind |-> "SetState", v |-> v]
Command(v) == [kind |-> "Command", v |-> v]

\* The session has just become Active and asked for the states; the entity
\* has the initial state its list frame was parsed to.
Init ==
    /\ fw \in Values /\ up = <<fw>> /\ down = <<>> /\ active = TRUE
    /\ firmware_state = NoValue /\ inbox = <<>> /\ state \in Values
    /\ relay = <<>> /\ marked = FALSE

Room == Len(up) < MaxQueue /\ Len(down) < MaxQueue
        /\ Len(inbox) < MaxQueue /\ Len(relay) < MaxQueue

-----------------------------------------------------------------------------
(* The session *)

\* Mutant: the pushed value is not recorded.
ingest_state_NotRecorded ==
    /\ active /\ up # <<>>
    /\ inbox' = Append(inbox, SetState(Head(up)))
    /\ up' = Tail(up)
    /\ firmware_state' = firmware_state
    /\ UNCHANGED <<fw, down, active, state, relay, marked>>

ingest_state ==
    /\ active /\ up # <<>>
    /\ firmware_state' = Head(up)
    /\ inbox' = Append(inbox, SetState(Head(up)))
    /\ up' = Tail(up)
    /\ UNCHANGED <<fw, down, active, state, relay, marked>>

\* A command relayed while the session is not Active is dropped.
relay_command_to_firmware ==
    /\ relay # <<>> /\ relay' = Tail(relay)
    /\ down' = IF active THEN Append(down, Head(relay)) ELSE down
    /\ UNCHANGED <<fw, up, active, firmware_state, inbox, state, marked>>

\* DispatchCommand: straight to the firmware, an error if not Active.
send_command_to_firmware(v) ==
    /\ "dispatch" \in Inputs /\ Room /\ active
    /\ down' = Append(down, v)
    /\ UNCHANGED <<fw, up, active, firmware_state, inbox, state, relay, marked>>

\* A connection ends: its pushes are lost, and the commands written to it from
\* some point on.
Cut == up' = <<>> /\ \E n \in 0..Len(down) : down' = SubSeq(down, 1, n)

\* ReaderClosed, FrameError, or PingTick on a silent link.  The notice may be
\* that of an earlier connection: it is handled whatever the fsm is.
Disconnect ==
    /\ "drop" \in Inputs /\ Room
    /\ active' = FALSE /\ marked' = TRUE /\ Cut
    /\ firmware_state' = NoValue
    /\ inbox' = Append(inbox, SetState(Unavailable))
    /\ UNCHANGED <<fw, state, relay>>

\* The Reconnect of a second chain reaches an Active session: the connection
\* is given up for another one, or for none, and no entity is marked.
Replaced ==
    /\ "overlap" \in Inputs /\ Room /\ active
    /\ active' = FALSE /\ Cut
    /\ UNCHANGED <<fw, firmware_state, inbox, state, relay, marked>>

\* The next handshake ends with SubscribeStates; the firmware pushes.
Reconnect ==
    /\ ~active
    /\ active' = TRUE /\ marked' = FALSE /\ up' = <<fw>>
    /\ UNCHANGED <<fw, down, firmware_state, inbox, state, relay>>

-----------------------------------------------------------------------------
(* The entity *)

\* RemoteStateUpdater::update, called by the entity with its new state.
update(v) ==
    relay' = IF v = Unavailable \/ v = firmware_state
               THEN relay ELSE Append(relay, v)

EntitySetState ==
    /\ inbox # <<>> /\ Head(inbox).kind = "SetState" /\ inbox' = Tail(inbox)
    /\ state' = Head(inbox).v
    /\ update(Head(inbox).v)
    /\ UNCHANGED <<fw, up, down, active, firmware_state, marked>>

\* Mutant: the command is accepted whatever the entity's state.
EntityCommand_Unchecked ==
    /\ inbox # <<>> /\ Head(inbox).kind = "Command" /\ inbox' = Tail(inbox)
    /\ state' = Head(inbox).v
    /\ update(Head(inbox).v)
    /\ UNCHANGED <<fw, up, down, active, firmware_state, marked>>

\* apply_command: every domain refuses a command for an Unavailable entity.
EntityCommand ==
    /\ inbox # <<>> /\ Head(inbox).kind = "Command" /\ inbox' = Tail(inbox)
    /\ IF state = Unavailable
         THEN UNCHANGED <<state, relay>>
         ELSE /\ state' = Head(inbox).v
              /\ update(Head(inbox).v)
    /\ UNCHANGED <<fw, up, down, active, firmware_state, marked>>

-----------------------------------------------------------------------------
(* The firmware and the callers *)

\* The state is published when it changes.
Becomes(v) ==
    /\ fw' = v
    /\ up' = IF active /\ v # fw THEN Append(up, v) ELSE up

FirmwareExecutes ==
    /\ down # <<>> /\ Becomes(Head(down)) /\ down' = Tail(down)
    /\ UNCHANGED <<active, firmware_state, inbox, state, relay, marked>>

\* A button on the device, an automation of the firmware, a sensor.
FirmwareChanges(v) ==
    /\ "physical" \in Inputs /\ Room /\ v # fw /\ Becomes(v)
    /\ UNCHANGED <<down, active, firmware_state, inbox, state, relay, marked>>

ServiceCall(v) ==
    /\ "command" \in Inputs /\ Room
    /\ inbox' = Append(inbox, Command(v))
    /\ UNCHANGED <<fw, up, down, active, firmware_state, state, relay, marked>>

-----------------------------------------------------------------------------
Work == \/ ingest_state \/ relay_command_to_firmware \/ Reconnect
        \/ EntitySetState \/ EntityCommand \/ FirmwareExecutes

Input == \/ Disconnect \/ Replaced
         \/ \E v \in Values : \/ send_command_to_firmware(v)
                              \/ FirmwareChanges(v) \/ ServiceCall(v)

Next == Work \/ Input
Spec == Init /\ [][Next]_vars

-----------------------------------------------------------------------------
(* Properties *)

TypeOK ==
    /\ fw \in Values /\ active \in BOOLEAN
    /\ up \in Seq(Values) /\ down \in Seq(Values)
    /\ firmware_state \in Values \cup {NoValue}
    /\ inbox \in Seq(EntityMsg) /\ state \in Values \cup {Unavailable}
    /\ relay \in Seq(Values) /\ marked \in BOOLEAN

Idle == up = <<>> /\ down = <<>> /\ inbox = <<>> /\ relay = <<>>

(* When everything in flight has been worked off, an Active session's      *)
(* entity shows the firmware's state, and that of a session which lost its *)
(* connection and marked its entities Unavailable, whatever pushes,        *)
(* commands, echoes, losses and replaced connections were mixed.           *)
QuiescentAgreement ==
    Idle => IF active THEN state = fw ELSE marked => state = Unavailable

(* A session that is Active and has ingested every push holds the          *)
(* firmware's state in firmware_states.                                    *)
TableCurrent == active /\ up = <<>> => firmware_state = fw
=============================================================================
