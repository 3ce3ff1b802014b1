-------------------------- MODULE RemoteStateProofs --------------------------
(***************************************************************************)
(* Proofs about RemoteState, for any number of values and any length of    *)
(* the queues.                                                             *)
(*                                                                         *)
(* What the updater does is right for two reasons. Whatever mix of pushes  *)
(* and commands waits for the entity, the last push among it is the value  *)
(* in firmware_states (LastSetCurrent), so an entity that has handled its  *)
(* pushes has passed through that value. And if it has left the value      *)
(* since, by a command, then a command that changes the firmware is still  *)
(* under way (Deviation).                                                  *)
(***************************************************************************)
EXTENDS RemoteState, TLAPS

\* What the last push to the entity was, or the loss of the connection.
Shown == IF firmware_state = NoValue THEN Unavailable ELSE firmware_state

NoSet(s) == \A i \in 1..Len(s) : s[i].kind # "SetState"

LastSetIs(s, v) ==
    \A i \in 1..Len(s) :
        /\ s[i].kind = "SetState"
        /\ \A j \in 1..Len(s) : j > i => s[j].kind # "SetState"
        => s[i].v = v

\* An Active session will have ingested, or has ingested, what the firmware has.
PushesCurrent ==
    active => IF up = <<>> THEN firmware_state = fw ELSE up[Len(up)] = fw

\* Without a connection no push is on the wire; once the entities are marked
\* the table has no entry.
Disconnected ==
    IF active THEN ~marked ELSE up = <<>> /\ (marked => firmware_state = NoValue)

LastSetCurrent == LastSetIs(inbox, Shown)

Differs(s, v) == \E i \in 1..Len(s) : s[i] # v

\* An entity without a push to handle shows the last one, or a command that
\* changes the firmware is on its way.
Deviation ==
    NoSet(inbox) =>
        /\ ~active /\ marked => state = Unavailable
        /\ active /\ up = <<>> => \/ state = firmware_state
                               \/ Differs(relay, firmware_state)
                               \/ Differs(down, firmware_state)

Inv == TypeOK /\ PushesCurrent /\ Disconnected /\ LastSetCurrent /\ Deviation

-----------------------------------------------------------------------------
(* Queues *)

(* The messages of the entity's mailbox and what they carry.               *)
LEMMA Messages ==
    /\ \A v \in Values \cup {Unavailable} : SetState(v) \in EntityMsg
    /\ \A v \in Values : Command(v) \in EntityMsg
    /\ \A m \in EntityMsg : /\ m.v \in Values \cup {Unavailable}
                            /\ m.kind = "Command" => m.v \in Values
  BY DEF SetState, Command, EntityMsg

(* The entity takes a push from its mailbox: if it was the last one, its   *)
(* value is the one the others were measured by.                           *)
LEMMA TakeSet ==
    ASSUME NEW s \in Seq(EntityMsg), s # <<>>, NEW v, LastSetIs(s, v)
    PROVE  /\ LastSetIs(Tail(s), v)
           /\ Head(s).kind = "SetState" /\ NoSet(Tail(s)) => Head(s).v = v
<1>1. /\ Len(Tail(s)) = Len(s) - 1 /\ Len(s) \in Nat \ {0}
      /\ \A i \in 1..Len(Tail(s)) : Tail(s)[i] = s[i + 1]
      /\ Head(s) = s[1]
  OBVIOUS
<1>2. LastSetIs(Tail(s), v)
  <2> SUFFICES ASSUME NEW i \in 1..Len(Tail(s)), Tail(s)[i].kind = "SetState",
                      \A j \in 1..Len(Tail(s)) : j > i => Tail(s)[j].kind # "SetState"
               PROVE  Tail(s)[i].v = v
    BY DEF LastSetIs
  <2>1. \A j \in 1..Len(s) : j > i + 1 => s[j].kind # "SetState"
    <3> SUFFICES ASSUME NEW j \in 1..Len(s), j > i + 1
                 PROVE  s[j].kind # "SetState"
      OBVIOUS
    <3>1. j - 1 \in 1..Len(Tail(s)) /\ j - 1 > i /\ Tail(s)[j - 1] = s[j]
      BY <1>1
    <3> QED
      BY <3>1
  <2> QED
    BY <1>1, <2>1 DEF LastSetIs
<1>3. ASSUME Head(s).kind = "SetState", NoSet(Tail(s))
      PROVE  Head(s).v = v
  <2>1. \A j \in 1..Len(s) : j > 1 => s[j].kind # "SetState"
    <3> SUFFICES ASSUME NEW j \in 1..Len(s), j > 1
                 PROVE  s[j].kind # "SetState"
      OBVIOUS
    <3>1. j - 1 \in 1..Len(Tail(s)) /\ Tail(s)[j - 1] = s[j]
      BY <1>1
    <3> QED
      BY <1>3, <3>1 DEF NoSet
  <2> QED
    BY <1>1, <1>3, <2>1 DEF LastSetIs
<1> QED
  BY <1>2, <1>3

(* Taking a command from the mailbox takes no push from it.                *)
LEMMA TakeCommand ==
    ASSUME NEW s \in Seq(EntityMsg), s # <<>>, Head(s).kind # "SetState", NoSet(Tail(s))
    PROVE  NoSet(s)
<1> SUFFICES ASSUME NEW i \in 1..Len(s)
             PROVE  s[i].kind # "SetState"
  BY DEF NoSet
<1>1. CASE i = 1
  BY <1>1
<1>2. CASE i # 1
  <2>1. i - 1 \in 1..Len(Tail(s)) /\ Tail(s)[i - 1] = s[i]
    BY <1>2
  <2> QED
    BY <2>1 DEF NoSet
<1> QED
  BY <1>1, <1>2

(* A push that is posted becomes the last one.                             *)
LEMMA PostSet ==
    ASSUME NEW s \in Seq(EntityMsg), NEW v \in Values \cup {Unavailable}
    PROVE  LastSetIs(Append(s, SetState(v)), v) /\ ~NoSet(Append(s, SetState(v)))
<1> DEFINE t == Append(s, SetState(v))
<1>1. /\ SetState(v) \in EntityMsg /\ SetState(v).kind = "SetState" /\ SetState(v).v = v
  BY Messages DEF SetState
<1>2. /\ Len(t) = Len(s) + 1 /\ Len(s) \in Nat /\ t[Len(t)] = SetState(v)
  BY <1>1
<1> HIDE DEF t
<1>3. Len(t) \in 1..Len(t) /\ t[Len(t)].kind = "SetState" /\ t[Len(t)].v = v
  BY <1>1, <1>2
<1>4. ~NoSet(t)
  BY <1>3 DEF NoSet
<1>5. LastSetIs(t, v)
  <2> SUFFICES ASSUME NEW i \in 1..Len(t), \A j \in 1..Len(t) : j > i => t[j].kind # "SetState"
               PROVE  t[i].v = v
    BY DEF LastSetIs
  <2>1. i = Len(t)
    BY <1>2, <1>3
  <2> QED
    BY <1>3, <2>1
<1> QED
  BY <1>4, <1>5 DEF t

(* A command that is posted leaves the pushes as they are.                 *)
LEMMA PostCommand ==
    ASSUME NEW s \in Seq(EntityMsg), NEW v \in Values, NEW w, LastSetIs(s, w)
    PROVE  /\ LastSetIs(Append(s, Command(v)), w)
           /\ NoSet(Append(s, Command(v))) => NoSet(s)
<1> DEFINE t == Append(s, Command(v))
<1>1. Command(v) \in EntityMsg /\ Command(v).kind # "SetState"
  BY Messages DEF Command
<1>2. /\ Len(t) = Len(s) + 1 /\ Len(s) \in Nat /\ t[Len(t)] = Command(v)
      /\ \A i \in 1..Len(s) : t[i] = s[i]
  BY <1>1
<1> HIDE DEF t
<1>3. NoSet(t) => NoSet(s)
  BY <1>2 DEF NoSet
<1>4. LastSetIs(t, w)
  <2> SUFFICES ASSUME NEW i \in 1..Len(t), t[i].kind = "SetState",
                      \A j \in 1..Len(t) : j > i => t[j].kind # "SetState"
               PROVE  t[i].v = w
    BY DEF LastSetIs
  <2>1. i \in 1..Len(s) /\ t[i] = s[i]
    BY <1>1, <1>2
  <2>2. \A j \in 1..Len(s) : j > i => s[j].kind # "SetState"
    BY <1>2
  <2> QED
    BY <2>1, <2>2 DEF LastSetIs
<1> QED
  BY <1>3, <1>4 DEF t

(* Values of a queue that differ from a given one, when the queue moves.   *)
LEMMA DiffersAppend ==
    ASSUME NEW s \in Seq(Values), NEW x \in Values, NEW v, Differs(s, v) \/ x # v
    PROVE  Differs(Append(s, x), v)
<1>1. /\ Len(Append(s, x)) = Len(s) + 1 /\ Len(s) \in Nat
      /\ \A i \in 1..Len(s) : Append(s, x)[i] = s[i]
      /\ Append(s, x)[Len(s) + 1] = x
  OBVIOUS
<1> QED
  BY <1>1 DEF Differs

LEMMA DiffersTail ==
    ASSUME NEW s \in Seq(Values), s # <<>>, NEW v, Differs(s, v), Head(s) = v
    PROVE  Differs(Tail(s), v)
<1>1. PICK i \in 1..Len(s) : s[i] # v
  BY DEF Differs
<1>2. i - 1 \in 1..Len(Tail(s)) /\ Tail(s)[i - 1] = s[i]
  BY <1>1
<1> QED
  BY <1>1, <1>2 DEF Differs

(* What is left of the queues when a connection ends.                      *)
LEMMA CutTypes ==
    ASSUME TypeOK, Cut
    PROVE  up' = <<>> /\ up' \in Seq(Values) /\ down' \in Seq(Values)
<1>1. PICK n \in 0..Len(down) : down' = SubSeq(down, 1, n)
  BY DEF Cut
<1>2. down \in Seq(Values) /\ n \in Nat
  BY DEF TypeOK
<1>3. SubSeq(down, 1, n) \in Seq(Values)
  <2>1. \A i \in 1..n : down[i] \in Values
    BY <1>1, <1>2
  <2> QED
    BY <1>1, <1>2, <2>1
<1>4. down' \in Seq(Values)
  BY <1>1, <1>3, Zenon
<1>5. up' = <<>>
  BY DEF Cut
<1> DEFINE none == <<>>
<1>6. none \in Seq(Values)
  OBVIOUS
<1>7. up' \in Seq(Values)
  <2>1. up' = none
    BY <1>5
  <2> HIDE DEF none
  <2> QED
    BY <1>6, <2>1, Zenon
<1> QED
  BY <1>4, <1>5, <1>7, Zenon

-----------------------------------------------------------------------------
(* Initial states *)

LEMMA InitInv == Init => Inv
<1> SUFFICES ASSUME Init PROVE Inv
  OBVIOUS
<1>1. TypeOK
  <2>1. up \in Seq(Values)
    BY DEF Init
  <2>2. down \in Seq(Values) /\ inbox \in Seq(EntityMsg) /\ relay \in Seq(Values)
    BY DEF Init
  <2>3. /\ fw \in Values /\ active \in BOOLEAN /\ marked \in BOOLEAN
        /\ firmware_state \in Values \cup {NoValue}
        /\ state \in Values \cup {Unavailable}
    BY DEF Init
  <2> QED
    BY <2>1, <2>2, <2>3 DEF TypeOK
<1>2. PushesCurrent /\ Disconnected
  BY DEF Init, PushesCurrent, Disconnected
<1>3. LastSetCurrent /\ Deviation
  BY DEF Init, LastSetCurrent, LastSetIs, Deviation
<1> QED
  BY <1>1, <1>2, <1>3 DEF Inv

-----------------------------------------------------------------------------
(* Steps *)

(* Every step keeps the types.                                             *)
LEMMA TypeStep == ASSUME TypeOK, [Next]_vars PROVE TypeOK'
<1> USE DEF TypeOK
<1>1. CASE ingest_state
  BY <1>1, Messages DEF ingest_state
<1>2. CASE relay_command_to_firmware
  BY <1>2 DEF relay_command_to_firmware
<1>3. CASE Reconnect
  <2>1. up' \in Seq(Values)
    BY <1>3 DEF Reconnect
  <2>2. /\ UNCHANGED <<fw, down, firmware_state, inbox, state, relay>>
        /\ active' = TRUE /\ marked' = FALSE
    BY <1>3 DEF Reconnect
  <2> QED
    BY <2>1, <2>2
<1>4. CASE EntitySetState
  <2>1. Head(inbox) \in EntityMsg /\ Tail(inbox) \in Seq(EntityMsg)
    BY <1>4 DEF EntitySetState
  <2>2. relay' \in Seq(Values)
    BY <1>4, <2>1, Messages DEF EntitySetState, update
  <2> QED
    BY <1>4, <2>1, <2>2, Messages DEF EntitySetState
<1>5. CASE EntityCommand
  <2>1. Head(inbox) \in EntityMsg /\ Tail(inbox) \in Seq(EntityMsg)
    BY <1>5 DEF EntityCommand
  <2>2. Head(inbox).v \in Values
    BY <1>5, <2>1, Messages DEF EntityCommand
  <2>3. state' \in Values \cup {Unavailable} /\ relay' \in Seq(Values)
    <3>1. CASE state = Unavailable
      BY <1>5, <3>1 DEF EntityCommand
    <3>2. CASE state # Unavailable
      <4>1. state' = Head(inbox).v /\ (relay' = relay \/ relay' = Append(relay, Head(inbox).v))
        BY <1>5, <3>2 DEF EntityCommand, update
      <4>2. Append(relay, Head(inbox).v) \in Seq(Values)
        BY <2>2
      <4> QED
        BY <2>2, <4>1, <4>2
    <3> QED
      BY <3>1, <3>2
  <2> QED
    BY <1>5, <2>1, <2>3 DEF EntityCommand
<1>6. CASE FirmwareExecutes
  <2>1. Head(down) \in Values /\ Tail(down) \in Seq(Values)
    BY <1>6 DEF FirmwareExecutes
  <2>2. up' \in Seq(Values)
    BY <1>6, <2>1 DEF FirmwareExecutes, Becomes
  <2> QED
    BY <1>6, <2>1, <2>2 DEF FirmwareExecutes, Becomes
<1>7. CASE Disconnect
  <2>1. inbox' \in Seq(EntityMsg)
    BY <1>7, Messages DEF Disconnect
  <2>2. up' \in Seq(Values) /\ down' \in Seq(Values)
    BY <1>7, CutTypes DEF Disconnect
  <2>3. /\ UNCHANGED <<fw, state, relay>> /\ firmware_state' = NoValue
        /\ active' = FALSE /\ marked' = TRUE
    BY <1>7 DEF Disconnect
  <2> QED
    BY <2>1, <2>2, <2>3
<1>12. CASE Replaced
  <2>1. up' \in Seq(Values) /\ down' \in Seq(Values)
    BY <1>12, CutTypes DEF Replaced
  <2>2. /\ UNCHANGED <<fw, firmware_state, inbox, state, relay, marked>>
        /\ active' = FALSE
    BY <1>12 DEF Replaced
  <2> QED
    BY <2>1, <2>2
<1>8. ASSUME NEW v \in Values, send_command_to_firmware(v) PROVE TypeOK'
  BY <1>8 DEF send_command_to_firmware
<1>9. ASSUME NEW v \in Values, FirmwareChanges(v) PROVE TypeOK'
  BY <1>9 DEF FirmwareChanges, Becomes
<1>10. ASSUME NEW v \in Values, ServiceCall(v) PROVE TypeOK'
  BY <1>10, Messages DEF ServiceCall
<1>11. CASE UNCHANGED vars
  BY <1>11 DEF vars
<1> QED
  BY <1>1, <1>2, <1>3, <1>4, <1>5, <1>6, <1>7, <1>8, <1>9, <1>10, <1>11, <1>12
     DEF Next, Work, Input

(* Every step keeps what the session knows of the firmware.                *)
LEMMA WireStep ==
    ASSUME Inv, [Next]_vars PROVE PushesCurrent' /\ Disconnected'
<1> USE ConstantsAssumption DEF Inv, TypeOK, PushesCurrent, Disconnected
<1>1. CASE ingest_state
  <2>1. Tail(up) # <<>> => Tail(up)[Len(Tail(up))] = up[Len(up)]
    BY <1>1 DEF ingest_state
  <2>2. ASSUME Tail(up) = <<>> PROVE Head(up) = up[Len(up)]
    <3>1. up \in Seq(Values) /\ up # <<>> /\ Len(Tail(up)) = 0
      BY <1>1, <2>2 DEF ingest_state
    <3>2. Len(up) = 1
      BY <3>1
    <3> QED
      BY <3>1, <3>2
  <2> QED
    BY <1>1, <2>1, <2>2 DEF ingest_state
<1>2. ASSUME NEW v \in Values, Becomes(v), UNCHANGED <<active, firmware_state, marked>>
      PROVE  PushesCurrent' /\ Disconnected'
  <2>1. CASE active /\ v # fw
    <3>1. up' = Append(up, v) /\ fw' = v
      BY <1>2, <2>1 DEF Becomes
    <3>2. up' # <<>> /\ up'[Len(up')] = fw'
      BY <3>1
    <3> QED
      BY <1>2, <2>1, <3>2
  <2>2. CASE active /\ v = fw
    <3>1. UNCHANGED <<up, fw, active, firmware_state, marked>>
      BY <1>2, <2>2 DEF Becomes
    <3> QED
      BY <3>1, <2>2
  <2>3. CASE ~active
    <3>1. UNCHANGED <<up, active, firmware_state, marked>>
      BY <1>2, <2>3 DEF Becomes
    <3> QED
      BY <3>1, <2>3
  <2> QED
    BY <2>1, <2>2, <2>3
<1>3. CASE FirmwareExecutes
  <2>1. Head(down) \in Values
    BY <1>3 DEF FirmwareExecutes
  <2> QED
    BY <1>2, <1>3, <2>1 DEF FirmwareExecutes
<1>4. ASSUME NEW v \in Values, FirmwareChanges(v) PROVE PushesCurrent' /\ Disconnected'
  BY <1>2, <1>4 DEF FirmwareChanges
<1>5. CASE Disconnect \/ Replaced
  BY <1>5, CutTypes DEF Disconnect, Replaced
<1>6. CASE Reconnect
  BY <1>6 DEF Reconnect
<1>7. CASE relay_command_to_firmware
  BY <1>7 DEF relay_command_to_firmware
<1>8. CASE EntitySetState \/ EntityCommand
  BY <1>8 DEF EntitySetState, EntityCommand
<1>9. ASSUME NEW v \in Values, send_command_to_firmware(v) \/ ServiceCall(v)
      PROVE  PushesCurrent' /\ Disconnected'
  BY <1>9 DEF send_command_to_firmware, ServiceCall
<1>10. CASE UNCHANGED vars
  BY <1>10 DEF vars
<1> QED
  BY <1>1, <1>3, <1>4, <1>5, <1>6, <1>7, <1>8, <1>9, <1>10 DEF Next, Work, Input

(* Every step keeps what waits for the entity in line with the table.      *)
LEMMA EntityStep ==
    ASSUME Inv, [Next]_vars PROVE LastSetCurrent' /\ Deviation'
<1> USE ConstantsAssumption
<1>0. TypeOK /\ TypeOK'
  BY TypeStep DEF Inv
<1>1. CASE ingest_state
  <2>1. Head(up) \in Values /\ inbox' = Append(inbox, SetState(Head(up)))
        /\ firmware_state' = Head(up)
    BY <1>0, <1>1 DEF ingest_state, TypeOK
  <2>2. Shown' = Head(up)
    BY <2>1 DEF Shown
  <2>3. LastSetIs(inbox', Shown') /\ ~NoSet(inbox')
    BY <1>0, <2>1, <2>2, PostSet DEF TypeOK
  <2> QED
    BY <2>3 DEF LastSetCurrent, Deviation
<1>2. CASE Disconnect
  <2>1. inbox' = Append(inbox, SetState(Unavailable)) /\ Shown' = Unavailable
    BY <1>2 DEF Disconnect, Shown
  <2>2. LastSetIs(inbox', Shown') /\ ~NoSet(inbox')
    BY <1>0, <2>1, PostSet DEF TypeOK
  <2> QED
    BY <2>2 DEF LastSetCurrent, Deviation
<1>3. CASE EntitySetState
  <2>1. inbox \in Seq(EntityMsg) /\ inbox # <<>> /\ inbox' = Tail(inbox)
        /\ Head(inbox).kind = "SetState" /\ LastSetIs(inbox, Shown)
    BY <1>0, <1>3 DEF EntitySetState, TypeOK, Inv, LastSetCurrent
  <2>2. Shown' = Shown /\ state' = Head(inbox).v /\ active' = active /\ up' = up
        /\ firmware_state' = firmware_state /\ marked' = marked
    BY <1>3 DEF EntitySetState, Shown
  <2>3. LastSetIs(inbox', Shown') /\ (NoSet(inbox') => state' = Shown)
    BY <2>1, <2>2, TakeSet
  <2>4. ASSUME NoSet(inbox') PROVE /\ ~active /\ marked => state' = Unavailable
                                   /\ active /\ up = <<>> => state' = firmware_state
    BY <1>0, <2>3, <2>4 DEF Shown, Inv, Disconnected, PushesCurrent, TypeOK
  <2> QED
    BY <2>2, <2>3, <2>4 DEF LastSetCurrent, Deviation
<1>4. CASE EntityCommand
  <2>1. inbox \in Seq(EntityMsg) /\ inbox # <<>> /\ inbox' = Tail(inbox)
        /\ Head(inbox).kind = "Command" /\ LastSetIs(inbox, Shown)
    BY <1>0, <1>4 DEF EntityCommand, TypeOK, Inv, LastSetCurrent
  <2>2. Shown' = Shown /\ active' = active /\ up' = up /\ down' = down
        /\ firmware_state' = firmware_state /\ marked' = marked
    BY <1>4 DEF EntityCommand, Shown
  <2>3. LastSetIs(inbox', Shown') /\ (NoSet(inbox') => NoSet(inbox))
    BY <2>1, <2>2, TakeSet, TakeCommand
  <2>4. CASE state = Unavailable
    <3>1. state' = state /\ relay' = relay
      BY <1>4, <2>4 DEF EntityCommand
    <3> QED
      BY <2>2, <2>3, <3>1 DEF LastSetCurrent, Deviation, Inv
  <2>5. CASE state # Unavailable
    <3>1. state' = Head(inbox).v /\ update(Head(inbox).v)
      BY <1>4, <2>5 DEF EntityCommand
    <3>2. Head(inbox).v \in Values
      BY <2>1, Messages
    <3>3. ASSUME NoSet(inbox') PROVE active \/ ~marked
      BY <2>3, <2>5, <3>3 DEF Inv, Deviation
    <3>4. ASSUME state' # firmware_state
          PROVE  Differs(relay', firmware_state)
      <4>1. relay' = Append(relay, state') /\ state' \in Values
        BY <3>1, <3>2, <3>4 DEF update
      <4> QED
        BY <1>0, <3>4, <4>1, DiffersAppend DEF TypeOK
    <3> QED
      BY <2>2, <2>3, <3>3, <3>4 DEF LastSetCurrent, Deviation
  <2> QED
    BY <2>4, <2>5
<1>5. CASE Reconnect
  BY <1>5 DEF Reconnect, Inv, LastSetCurrent, Shown, Deviation
<1>6. CASE relay_command_to_firmware
  <2>1. UNCHANGED <<up, active, firmware_state, inbox, state, marked>> /\ Shown' = Shown
        /\ relay # <<>> /\ relay' = Tail(relay)
    BY <1>6 DEF relay_command_to_firmware, Shown
  <2>2. ASSUME active, Differs(relay, firmware_state) \/ Differs(down, firmware_state)
        PROVE  Differs(relay', firmware_state) \/ Differs(down', firmware_state)
    <3>1. down' = Append(down, Head(relay)) /\ Head(relay) \in Values
      BY <1>0, <1>6, <2>2 DEF relay_command_to_firmware, TypeOK
    <3>2. CASE Differs(down, firmware_state) \/ Head(relay) # firmware_state
      BY <1>0, <3>1, <3>2, DiffersAppend DEF TypeOK
    <3>3. CASE Differs(relay, firmware_state) /\ Head(relay) = firmware_state
      BY <1>0, <2>1, <3>3, DiffersTail DEF TypeOK
    <3> QED
      BY <2>2, <3>2, <3>3
  <2> QED
    BY <2>1, <2>2 DEF Inv, LastSetCurrent, Deviation
<1>7. CASE FirmwareExecutes
  <2>1. UNCHANGED <<active, firmware_state, inbox, state, relay, marked>> /\ Shown' = Shown
        /\ down # <<>> /\ down' = Tail(down) /\ Becomes(Head(down)) /\ Head(down) \in Values
    BY <1>0, <1>7 DEF FirmwareExecutes, Shown, TypeOK
  <2>2. CASE ~active
    BY <2>1, <2>2 DEF Inv, LastSetCurrent, Deviation
  <2>3. ASSUME active, up' = <<>> PROVE up = <<>> /\ Head(down) = firmware_state
    <3>1. CASE Head(down) # fw
      <4>1. up' = Append(up, Head(down)) /\ up \in Seq(Values)
        BY <1>0, <2>1, <2>3, <3>1 DEF Becomes, TypeOK
      <4> QED
        BY <2>1, <2>3, <4>1
    <3>2. CASE Head(down) = fw
      <4>1. up' = up
        BY <2>1, <3>2 DEF Becomes
      <4> QED
        BY <2>3, <3>2, <4>1 DEF Inv, PushesCurrent
    <3> QED
      BY <3>1, <3>2
  <2>4. ASSUME active, up' = <<>>, Differs(down, firmware_state)
        PROVE  Differs(down', firmware_state)
    BY <1>0, <2>1, <2>3, <2>4, DiffersTail DEF TypeOK
  <2> QED
    BY <2>1, <2>2, <2>3, <2>4 DEF Inv, LastSetCurrent, Deviation
<1>8. ASSUME NEW v \in Values, send_command_to_firmware(v)
      PROVE  LastSetCurrent' /\ Deviation'
  <2>1. UNCHANGED <<up, active, firmware_state, inbox, state, relay, marked>> /\ Shown' = Shown
        /\ down' = Append(down, v)
    BY <1>8 DEF send_command_to_firmware, Shown
  <2>2. Differs(down, firmware_state) => Differs(down', firmware_state)
    BY <1>0, <2>1, DiffersAppend DEF TypeOK
  <2> QED
    BY <2>1, <2>2 DEF Inv, LastSetCurrent, Deviation
<1>9. ASSUME NEW v \in Values, FirmwareChanges(v)
      PROVE  LastSetCurrent' /\ Deviation'
  <2>1. UNCHANGED <<down, active, firmware_state, inbox, state, relay, marked>> /\ Shown' = Shown
        /\ (active => up' # <<>>)
    BY <1>0, <1>9 DEF FirmwareChanges, Becomes, Shown, TypeOK
  <2> QED
    BY <2>1 DEF Inv, LastSetCurrent, Deviation
<1>10. ASSUME NEW v \in Values, ServiceCall(v)
       PROVE  LastSetCurrent' /\ Deviation'
  <2>1. UNCHANGED <<fw, up, down, active, firmware_state, state, relay, marked>> /\ Shown' = Shown
        /\ inbox' = Append(inbox, Command(v))
    BY <1>10 DEF ServiceCall, Shown
  <2>2. LastSetIs(inbox', Shown) /\ (NoSet(inbox') => NoSet(inbox))
    BY <1>0, <2>1, PostCommand DEF Inv, LastSetCurrent, TypeOK
  <2> QED
    BY <2>1, <2>2 DEF Inv, LastSetCurrent, Deviation
<1>11. CASE UNCHANGED vars
  BY <1>11 DEF vars, Inv, LastSetCurrent, Shown, Deviation
<1>12. CASE Replaced
  <2>1. UNCHANGED <<firmware_state, inbox, state, relay, marked>> /\ active /\ active' = FALSE
    BY <1>12 DEF Replaced
  <2>2. ~marked
    BY <2>1 DEF Inv, Disconnected
  <2> QED
    BY <2>1, <2>2 DEF Inv, LastSetCurrent, Shown, Deviation
<1> QED
  BY <1>1, <1>2, <1>3, <1>4, <1>5, <1>6, <1>7, <1>8, <1>9, <1>10, <1>11, <1>12
     DEF Next, Work, Input

-----------------------------------------------------------------------------
(* Theorems *)

(* The inductive invariant holds of every state of the session, the entity *)
(* and the firmware.                                                       *)
THEOREM Invariant == Spec => []Inv
<1>1. Init => Inv
  BY InitInv
<1>2. Inv /\ [Next]_vars => Inv'
  BY TypeStep, WireStep, EntityStep DEF Inv
<1> QED
  BY <1>1, <1>2, PTL DEF Spec

(* Every state of the relay has its type: only states that have a command  *)
(* are relayed, and the table never holds Unavailable.                     *)
THEOREM TypeCorrect == Spec => []TypeOK
<1>1. Inv => TypeOK
  BY DEF Inv
<1> QED
  BY <1>1, Invariant, PTL

(* When nothing is under way the entity of an Active session shows the     *)
(* firmware's state, that of a marked one Unavailable, though ingest_state *)
(* and update tell pushes and commands apart by value only and connections *)
(* may be lost or replaced at any point.                                   *)
THEOREM QuiescentAgreementInvariant == Spec => []QuiescentAgreement
<1>1. Inv => QuiescentAgreement
  BY DEF Inv, QuiescentAgreement, Idle, Deviation, NoSet, Differs, PushesCurrent
<1> QED
  BY <1>1, Invariant, PTL

(* The table of an Active session that has ingested every push holds the   *)
(* firmware's state, so a command back to it needs no relay.               *)
THEOREM TableCurrentInvariant == Spec => []TableCurrent
<1>1. Inv => TableCurrent
  BY DEF Inv, TableCurrent, PushesCurrent
<1> QED
  BY <1>1, Invariant, PTL
=============================================================================
