------------------------ MODULE DeviceSessionProofs ------------------------
(***************************************************************************)
(* Invariance proofs for DeviceSession, for any set of connections and     *)
(* entities, any faults and any bounds.                                    *)
(***************************************************************************)
EXTENDS DeviceSession, FiniteSetTheorems, TLAPS

-----------------------------------------------------------------------------
(* What taking and posting a message does to the contents of a mailbox. *)

(* Taking the head of a mailbox loses no other message.                    *)
LEMMA TailKeeps ==
    ASSUME NEW S, NEW s \in Seq(S), s # <<>>, NEW m, Has(s, m), m # Head(s)
    PROVE  Has(Tail(s), m)
<1>1. PICK i \in 1..Len(s) : s[i] = m
  BY DEF Has
<1>2. i # 1
  BY <1>1
<1>3. /\ i - 1 \in 1..Len(Tail(s))
      /\ Tail(s)[i - 1] = s[i]
  BY <1>2
<1> QED
  BY <1>1, <1>3 DEF Has

(* Posting keeps what was there and adds the new message.                  *)
LEMMA AppendKeeps ==
    ASSUME NEW S, NEW s \in Seq(S), NEW x \in S, NEW m
    PROVE  Has(s, m) \/ m = x => Has(Append(s, x), m)
<1>1. CASE Has(s, m)
  BY <1>1 DEF Has
<1>2. CASE m = x
  <2>1. Len(Append(s, x)) \in 1..Len(Append(s, x)) /\ Append(s, x)[Len(Append(s, x))] = x
    OBVIOUS
  <2> QED
    BY <1>2, <2>1 DEF Has
<1> QED
  BY <1>1, <1>2

-----------------------------------------------------------------------------
(* Types *)

(* The messages the tasks and the actor post are DeviceSessionMsg values.  *)
LEMMA MsgTypes ==
    /\ \A k \in ControlKinds : Control(k) \in DeviceSessionMsg
    /\ \A k \in FrameKinds \cup ControlKinds, c \in Conns, e \in Entities \cup {NoEntity} :
          Msg(k, c, e) \in DeviceSessionMsg
  BY DEF Control, Msg, DeviceSessionMsg

(* Taking a message leaves a mailbox; so does posting one.                 *)
LEMMA MailTypes ==
    ASSUME NEW s \in Seq(DeviceSessionMsg)
    PROVE  /\ s # <<>> => Tail(s) \in Seq(DeviceSessionMsg) /\ Head(s) \in DeviceSessionMsg
           /\ \A x \in DeviceSessionMsg : Append(s, x) \in Seq(DeviceSessionMsg)
  OBVIOUS

(* TypeOK holds initially.                                                 *)
LEMMA TypeInit == Init => TypeOK
<1> SUFFICES ASSUME Init PROVE TypeOK
  OBVIOUS
<1>1. Control("Connect") \in DeviceSessionMsg
  BY MsgTypes DEF ControlKinds
<1>2. mail \in Seq(DeviceSessionMsg)
  BY <1>1 DEF Init
<1>3. attempts \in 0..MaxAttempts /\ tickers \in 0..MaxTickers /\ timers \in Nat
  BY ConstantsAssumption DEF Init
<1>4. /\ shown \in [Entities -> {"none", "unavailable", "value"}]
      /\ reader \in [Conns -> {"idle", "reading"}]
  BY DEF Init
<1> QED
  BY <1>2, <1>3, <1>4 DEF Init, TypeOK, SessionFsm, SessionStatus

(* Marking the entities assigns well-typed values.                         *)
LEMMA MarkTypes ==
    ASSUME TypeOK, mark_entities_unavailable
    PROVE  /\ shown' \in [Entities -> {"none", "unavailable", "value"}]
           /\ firmware' \subseteq Entities
  BY DEF TypeOK, mark_entities_unavailable

(* schedule_reconnect assigns well-typed values.                           *)
LEMMA ScheduleTypes ==
    ASSUME TypeOK, schedule_reconnect
    PROVE  /\ fsm' \in SessionFsm /\ writer' \in Conns \cup {NoConn}
           /\ reported' \in SessionStatus
           /\ attempts' \in 0..MaxAttempts /\ timers' \in Nat
  BY ConstantsAssumption
     DEF TypeOK, schedule_reconnect, BumpAttempts, SessionFsm, SessionStatus

(* Stopping assigns well-typed values.                                     *)
LEMMA StopTypes ==
    ASSUME TypeOK, post_stop
    PROVE  /\ shown' \in [Entities -> {"none", "unavailable", "value"}]
           /\ firmware' \subseteq Entities
           /\ fsm' \in SessionFsm /\ writer' \in Conns \cup {NoConn}
           /\ mail' \in Seq(DeviceSessionMsg) /\ timers' \in Nat
           /\ tickers' \in 0..MaxTickers /\ attempts' \in 0..MaxAttempts
           /\ listed' \subseteq Entities /\ connecting' \in BOOLEAN
<1>1. mark_entities_unavailable
  BY DEF post_stop
<1>2. tickers' \in 0..MaxTickers /\ attempts' \in 0..MaxAttempts /\ timers' \in Nat
  BY ConstantsAssumption DEF TypeOK, post_stop
<1>3. mail' \in Seq(DeviceSessionMsg)
  BY DEF post_stop
<1> QED
  BY <1>1, <1>2, <1>3, MarkTypes DEF post_stop, SessionFsm

(* Entering Active assigns well-typed values.                              *)
LEMMA EnterActiveTypes ==
    ASSUME TypeOK, EnterActive
    PROVE  /\ fsm' \in SessionFsm /\ writer' \in Conns \cup {NoConn}
           /\ listed' \subseteq Entities /\ attempts' \in 0..MaxAttempts
           /\ quiet' \in BOOLEAN /\ reported' \in SessionStatus
           /\ tickers' \in 0..MaxTickers
<1>1. tickers' \in 0..MaxTickers /\ attempts' \in 0..MaxAttempts
  BY ConstantsAssumption DEF TypeOK, EnterActive
<1> QED
  BY <1>1 DEF TypeOK, EnterActive, SessionFsm, Connected, SessionStatus

(* Taking a message leaves a well-typed mailbox.                           *)
LEMMA TakeTypes ==
    ASSUME TypeOK, NEW m, Take(m)
    PROVE  mail' \in Seq(DeviceSessionMsg)
  BY MailTypes DEF TypeOK, Take

(* No step of the actor breaks TypeOK.                                     *)
LEMMA TypeActor ==
    ASSUME TypeOK, ActorStep \/ ConnectFail \/ StoppedByParent
    PROVE  TypeOK'
<1> USE DEF TypeOK
<1>1. CASE ConnectBegin
  BY <1>1, TakeTypes DEF ConnectBegin, SessionStatus
<1>2. ASSUME NEW c \in Conns, ConnectOk(c) PROVE TypeOK'
  BY <1>2 DEF ConnectOk, SessionFsm, Connected, Handshake, SessionStatus
<1>3. CASE ConnectFail
  BY <1>3, ScheduleTypes DEF ConnectFail
<1>4. CASE FrameIgnored
  BY <1>4, TakeTypes DEF FrameIgnored
<1>5. CASE ReaderClosed
  BY <1>5, TakeTypes, MarkTypes, ScheduleTypes DEF ReaderClosed
<1>6. CASE PingTick
  <2>1. mail' \in Seq(DeviceSessionMsg)
    BY <1>6, TakeTypes DEF PingTick
  <2>2. CASE fsm = "Active" /\ quiet
    BY <1>6, <2>1, <2>2, MarkTypes, ScheduleTypes DEF PingTick
  <2>3. CASE ~(fsm = "Active" /\ quiet)
    BY <1>6, <2>1, <2>3 DEF PingTick
  <2> QED
    BY <2>2, <2>3
<1>7. CASE StopReceived
  BY <1>7, StopTypes DEF StopReceived
<1>8. CASE StoppedByParent
  BY <1>8, StopTypes DEF StoppedByParent
<1>9. ASSUME NEW c \in Conns, HelloReceived(c) PROVE TypeOK'
  BY <1>9, TakeTypes DEF HelloReceived, SessionFsm, Connected, Handshake
<1>10. ASSUME NEW c \in Conns, DeviceInfoReceived(c) PROVE TypeOK'
  BY <1>10, TakeTypes DEF DeviceInfoReceived, SessionFsm, Connected, Handshake
<1>11. ASSUME NEW c \in Conns, BadDeviceInfoReceived(c) PROVE TypeOK'
  BY <1>11, TakeTypes, ScheduleTypes DEF BadDeviceInfoReceived
<1>12. ASSUME NEW c \in Conns, PasswordInfoReceived(c) PROVE TypeOK'
  BY <1>12, StopTypes DEF PasswordInfoReceived, SessionStatus
<1>13. ASSUME NEW c \in Conns, NEW e \in Entities, EntityListed(c, e) PROVE TypeOK'
  BY <1>13, TakeTypes DEF EntityListed
<1>14. ASSUME NEW c \in Conns, ListDoneNoDevice(c) PROVE TypeOK'
  BY <1>14, TakeTypes, EnterActiveTypes DEF ListDoneNoDevice
<1>15. ASSUME NEW c \in Conns, ListDoneOverCap(c) PROVE TypeOK'
  <2>1. attempts' \in 0..MaxAttempts
    BY <1>15, ConstantsAssumption DEF ListDoneOverCap, BumpAttempts
  <2>2. fsm' \in SessionFsm /\ reported' \in SessionStatus
    BY <1>15 DEF ListDoneOverCap, SessionFsm, Connected, SessionStatus
  <2>3. mail' \in Seq(DeviceSessionMsg)
    BY <1>15, TakeTypes DEF ListDoneOverCap
  <2>4. /\ shown' \in [Entities -> {"none", "unavailable", "value"}]
        /\ firmware' \subseteq Entities
    BY <1>15, MarkTypes DEF ListDoneOverCap
  <2>5. timers' \in Nat /\ tickers' \in 0..MaxTickers
    BY <1>15 DEF ListDoneOverCap
  <2>6. /\ UNCHANGED <<writer, connecting, refs, reader>>
        /\ listed' = {} /\ device_ref' = TRUE /\ quiet' = FALSE
    BY <1>15 DEF ListDoneOverCap
  <2> QED
    BY <2>1, <2>2, <2>3, <2>4, <2>5, <2>6
<1>16. ASSUME NEW c \in Conns, ListDoneImported(c) PROVE TypeOK'
  <2>1. /\ refs' \subseteq Entities /\ firmware' \subseteq Entities
        /\ shown' \in [Entities -> {"none", "unavailable", "value"}]
    <3>1. CASE listed = {}
      BY <1>16, <3>1 DEF ListDoneImported
    <3>2. CASE listed # {}
      <4>1. PICK adopted \in SUBSET (listed \ refs) :
              /\ refs' = refs \cup listed
              /\ firmware' = firmware \ (refs \ listed)
              /\ shown' = [e \in Entities |->
                      IF e \in refs \ listed THEN "unavailable"
                      ELSE IF e \in listed \ (refs \cup adopted)
                           THEN "value" ELSE shown[e]]
        BY <1>16, <3>2 DEF ListDoneImported
      <4> QED
        BY <4>1
    <3> QED
      BY <3>1, <3>2
  <2> QED
    BY <1>16, <2>1, TakeTypes, EnterActiveTypes DEF ListDoneImported
<1>17. ASSUME NEW c \in Conns, NEW e \in Entities, StateReceived(c, e) PROVE TypeOK'
  BY <1>17, TakeTypes DEF StateReceived
<1>18. CASE SubscribedRefused
  BY <1>18, EnterActiveTypes DEF SubscribedRefused
<1> QED
  BY <1>1, <1>2, <1>3, <1>4, <1>5, <1>6, <1>7, <1>8, <1>9, <1>10, <1>11, <1>12, <1>13,
     <1>14, <1>15, <1>16, <1>17, <1>18 DEF ActorStep

(* Everything that is not a step of the actor: it leaves the actor's own   *)
(* variables alone, but for the clock, and only adds to the mailbox.       *)
Environment ==
    \/ TimerFires \/ TickerFires \/ LinkFallsSilent \/ ManagerStops
    \/ Firmware
    \/ \E c \in Conns : PeerCloses(c) \/ NetworkLoss(c) \/ MalformedFrame(c)

(* The step of one reader, as the proofs below need it.                    *)
ReaderStep(c) ==
    /\ reader' = [reader EXCEPT ![c] = "idle"]
    /\ \/ fsm = "Stopped" /\ mail' = mail
       \/ Post(Msg("ReaderClosed", c, NoEntity))
       \/ Post(Msg("FrameError", c, NoEntity))

(* The shape of an environment step.                                       *)
LEMMA EnvironmentShape ==
    ASSUME TypeOK, Environment
    PROVE  /\ UNCHANGED <<fsm, writer, connecting, listed, refs, device_ref, shown, firmware,
                          attempts, reported, tickers>>
           /\ quiet' \in BOOLEAN
           /\ \/ reader' = reader /\ mail' = mail /\ timers' = timers
              \/ /\ reader' = reader /\ timers' = timers
                 /\ \E x \in DeviceSessionMsg : Post(x)
              \/ /\ reader' = reader /\ timers > 0 /\ timers' = timers - 1
                 /\ Post(Control("Reconnect"))
              \/ timers' = timers /\ \E c \in Conns : ReaderStep(c)
<1>1. CASE TimerFires
  BY <1>1 DEF TimerFires, actorVars, TypeOK
<1>2. CASE TickerFires
  BY <1>2, MsgTypes DEF TickerFires, actorVars, TypeOK, ControlKinds
<1>3. CASE LinkFallsSilent
  BY <1>3 DEF LinkFallsSilent, TypeOK
<1>4. CASE ManagerStops
  BY <1>4, MsgTypes DEF ManagerStops, actorVars, TypeOK, ControlKinds
<1>5. CASE Firmware
  <2>1. PICK c \in Conns, k \in FrameKinds, e \in Entities \cup {NoEntity} : Frame(c, k, e)
    <3>1. ASSUME NEW c \in Conns, FirmwareAnswers(c)
          PROVE  Frame(c, Expected[fsm], NoEntity) /\ Expected[fsm] \in FrameKinds
      BY <3>1 DEF FirmwareAnswers, Expected, Connected, Handshake, FrameKinds
    <3>2. ASSUME NEW c \in Conns, FirmwareMisbehaves(c)
          PROVE  \E k \in FrameKinds : Frame(c, k, NoEntity)
      BY <3>2 DEF FirmwareMisbehaves, FrameKinds
    <3>3. ASSUME NEW c \in Conns, NEW e \in Entities, FirmwareLists(c, e) \/ FirmwarePushes(c, e)
          PROVE  \E k \in FrameKinds : Frame(c, k, e)
      BY <3>3 DEF FirmwareLists, FirmwarePushes, FrameKinds
    <3> QED
      BY <1>5, <3>1, <3>2, <3>3 DEF Firmware
  <2>2. Msg(k, c, e) \in DeviceSessionMsg
    BY MsgTypes
  <2> QED
    BY <2>1, <2>2 DEF Frame, actorVars, TypeOK
<1>6. ASSUME NEW c \in Conns, PeerCloses(c) \/ NetworkLoss(c) \/ MalformedFrame(c)
      PROVE  /\ UNCHANGED <<actorVars, timers, tickers>>
             /\ ReaderStep(c)
  BY <1>6 DEF PeerCloses, NetworkLoss, MalformedFrame, ReaderEnds, ReaderStep
<1> QED
  BY <1>1, <1>2, <1>3, <1>4, <1>5, <1>6 DEF Environment, actorVars, TypeOK

(* No step of the environment breaks TypeOK.                               *)
LEMMA TypeEnvironment ==
    ASSUME TypeOK, Environment
    PROVE  TypeOK'
<1>1. mail' \in Seq(DeviceSessionMsg)
  <2>1. mail' = mail \/ \E x \in DeviceSessionMsg : mail' = Append(mail, x)
    BY EnvironmentShape, MsgTypes DEF Post, ReaderStep, ControlKinds
  <2> QED
    BY <2>1, MailTypes DEF TypeOK
<1>2. timers' \in Nat /\ reader' \in [Conns -> {"idle", "reading"}]
  BY EnvironmentShape DEF TypeOK, ReaderStep
<1> QED
  BY <1>1, <1>2, EnvironmentShape DEF TypeOK

(* TypeOK is inductive.                                                    *)
LEMMA TypeStep ==
    ASSUME TypeOK, [Next]_vars
    PROVE  TypeOK'
<1>1. CASE ActorStep \/ ConnectFail \/ StoppedByParent
  BY <1>1, TypeActor
<1>2. CASE Environment
  BY <1>2, TypeEnvironment
<1>3. CASE UNCHANGED vars
  BY <1>3 DEF vars, TypeOK
<1> QED
  BY <1>1, <1>2, <1>3 DEF Next, Environment

-----------------------------------------------------------------------------
(* No connection goes unwatched, no session is stranded *)

(* The six shapes of an actor step: the session stops; it loses its        *)
(* connection and arms a sleeper; it starts connecting; it gets a new      *)
(* connection with a reader; it consumes a frame or a tick and keeps its   *)
(* connection; or it has subscribed after a refused import.                *)
LEMMA ActorShape ==
    ASSUME TypeOK, ActorStep \/ ConnectFail \/ StoppedByParent
    PROVE  \/ fsm' = "Stopped" /\ writer' = NoConn
           \/ fsm' = "Reconnecting" /\ writer' = NoConn /\ timers' = timers + 1
           \/ /\ connecting' = TRUE /\ writer' = writer /\ fsm' = fsm /\ reader' = reader
              /\ mail # <<>> /\ mail' = Tail(mail)
              /\ Head(mail).kind \in {"Connect", "Reconnect"}
           \/ fsm' = "AwaitHello" /\ writer' \in Conns /\ reader'[writer'] = "reading"
           \/ /\ writer' = writer /\ reader' = reader /\ timers' >= timers
              /\ connecting' = connecting
              /\ (fsm' = fsm \/ (fsm \in Connected /\ fsm' \in Connected))
              /\ mail # <<>> /\ mail' = Tail(mail)
              /\ Head(mail).kind \in FrameKinds \cup {"PingTick"}
           \/ /\ fsm = "Refused" /\ fsm' = "Active"
              /\ UNCHANGED <<writer, reader, mail>>
<1> USE DEF TypeOK, Take, Msg, Control
<1>1. CASE ConnectBegin
  <2>1. PICK k \in {"Connect", "Reconnect"} : Take(Control(k))
    BY <1>1 DEF ConnectBegin
  <2>2. Head(mail).kind \in {"Connect", "Reconnect"}
    BY <2>1
  <2>3. mail # <<>> /\ mail' = Tail(mail)
    BY <2>1
  <2>4. connecting' = TRUE /\ writer' = writer /\ fsm' = fsm /\ reader' = reader
    BY <1>1 DEF ConnectBegin
  <2> QED
    BY <2>2, <2>3, <2>4
<1>2. ASSUME NEW c \in Conns, ConnectOk(c)
      PROVE  fsm' = "AwaitHello" /\ writer' \in Conns /\ reader'[writer'] = "reading"
  BY <1>2 DEF ConnectOk
<1>3. CASE ConnectFail
  BY <1>3 DEF ConnectFail, schedule_reconnect
<1>4. CASE FrameIgnored
  BY <1>4 DEF FrameIgnored
<1>5. CASE ReaderClosed
  BY <1>5 DEF ReaderClosed, schedule_reconnect
<1>6. CASE PingTick
  BY <1>6 DEF PingTick, schedule_reconnect
<1>7. CASE StopReceived \/ StoppedByParent
  BY <1>7 DEF StopReceived, StoppedByParent, post_stop
<1>8. ASSUME NEW c \in Conns,
             HelloReceived(c) \/ DeviceInfoReceived(c) \/ ListDoneNoDevice(c)
               \/ ListDoneOverCap(c) \/ ListDoneImported(c)
               \/ \E e \in Entities : EntityListed(c, e) \/ StateReceived(c, e)
      PROVE  /\ writer' = writer /\ reader' = reader /\ timers' >= timers
             /\ connecting' = connecting
             /\ (fsm' = fsm \/ (fsm \in Connected /\ fsm' \in Connected))
             /\ mail # <<>> /\ mail' = Tail(mail)
             /\ Head(mail).kind \in FrameKinds
  <2>1. \E k \in FrameKinds, e \in Entities \cup {NoEntity} : Take(Msg(k, c, e))
    BY <1>8 DEF HelloReceived, DeviceInfoReceived, ListDoneNoDevice, ListDoneOverCap,
                ListDoneImported, EntityListed, StateReceived, FrameKinds
  <2>2. mail # <<>> /\ mail' = Tail(mail) /\ Head(mail).kind \in FrameKinds
    BY <2>1
  <2>3. CASE HelloReceived(c) \/ DeviceInfoReceived(c)
    BY <2>2, <2>3 DEF HelloReceived, DeviceInfoReceived, Connected, Handshake
  <2>4. CASE ListDoneNoDevice(c) \/ ListDoneOverCap(c) \/ ListDoneImported(c)
    BY <2>2, <2>4 DEF ListDoneNoDevice, ListDoneOverCap, ListDoneImported, EnterActive,
                      Connected, Handshake
  <2>5. CASE \E e \in Entities : EntityListed(c, e) \/ StateReceived(c, e)
    BY <2>2, <2>5 DEF EntityListed, StateReceived
  <2> QED
    BY <1>8, <2>3, <2>4, <2>5
<1>9. ASSUME NEW c \in Conns, BadDeviceInfoReceived(c)
      PROVE  fsm' = "Reconnecting" /\ writer' = NoConn /\ timers' = timers + 1
  BY <1>9 DEF BadDeviceInfoReceived, schedule_reconnect
<1>10. ASSUME NEW c \in Conns, PasswordInfoReceived(c)
       PROVE  fsm' = "Stopped" /\ writer' = NoConn
  BY <1>10 DEF PasswordInfoReceived, post_stop
<1>11. CASE SubscribedRefused
  BY <1>11 DEF SubscribedRefused, EnterActive
<1> QED
  BY <1>1, <1>2, <1>3, <1>4, <1>5, <1>6, <1>7, <1>8, <1>9, <1>10, <1>11 DEF ActorStep

(* A writer is held exactly in the handshake, past a refused import and in *)
(* Active.                                                                 *)
WriterOwned == writer # NoConn <=> fsm \in Connected

(* WriterOwned is inductive.                                               *)
LEMMA WriterOwnedStep ==
    ASSUME TypeOK, WriterOwned, [Next]_vars
    PROVE  WriterOwned'
<1> USE DEF WriterOwned
<1>1. CASE ActorStep \/ ConnectFail \/ StoppedByParent
  <2>1. CASE fsm' = fsm /\ writer' = writer
    BY <2>1
  <2>2. CASE fsm' \in {"Stopped", "Reconnecting"} /\ writer' = NoConn
    BY <2>2 DEF Connected, Handshake
  <2>3. CASE fsm' = "AwaitHello" /\ writer' \in Conns
    BY <2>3, ConstantsAssumption DEF Connected, Handshake
  <2>4. CASE fsm' \in Connected /\ writer' = writer /\ fsm \in Connected
    BY <2>4
  <2> QED
    BY <1>1, <2>1, <2>2, <2>3, <2>4, ActorShape DEF Connected
<1>2. CASE Environment
  BY <1>2, EnvironmentShape
<1>3. CASE UNCHANGED vars
  BY <1>3 DEF vars
<1> QED
  BY <1>1, <1>2, <1>3 DEF Next, Environment

(* Every connection the fsm owns has a reader, or a notice of its end.     *)
LEMMA WriterStep ==
    ASSUME TypeOK, WriterOwned, WriterHasReader, [Next]_vars
    PROVE  WriterHasReader'
<1>1. CASE ActorStep \/ ConnectFail \/ StoppedByParent
  <2>1. CASE writer' = NoConn \/ reader'[writer'] = "reading"
    BY <2>1 DEF WriterHasReader
  <2>2. CASE /\ writer' = writer /\ reader' = reader
             /\ mail # <<>> /\ mail' = Tail(mail)
             /\ Head(mail).kind \in FrameKinds \cup {"PingTick", "Connect", "Reconnect"}
    <3>1. ASSUME NEW k \in {"ReaderClosed", "FrameError"},
                 Has(mail, Msg(k, writer, NoEntity))
          PROVE  Has(Tail(mail), Msg(k, writer, NoEntity))
      <4>1. Msg(k, writer, NoEntity) # Head(mail)
        BY <2>2 DEF Msg, FrameKinds
      <4> QED
        BY <2>2, <3>1, <4>1, TailKeeps DEF TypeOK
    <3> QED
      BY <2>2, <3>1 DEF WriterHasReader, Lost, InMail
  <2>3. CASE UNCHANGED <<writer, reader, mail>>
    BY <2>3 DEF WriterHasReader, Lost, InMail
  <2> QED
    BY <1>1, <2>1, <2>2, <2>3, ActorShape
<1>2. CASE Environment
  <2>1. writer' = writer
    BY <1>2, EnvironmentShape
  <2>2. ASSUME NEW x \in DeviceSessionMsg, mail' = Append(mail, x), Lost(writer)
        PROVE  Lost(writer)'
    BY <2>1, <2>2, AppendKeeps DEF Lost, InMail, TypeOK
  <2>3. ASSUME NEW x \in DeviceSessionMsg, mail' = Append(mail, x), reader' = reader
        PROVE  WriterHasReader'
    BY <2>1, <2>2, <2>3 DEF WriterHasReader
  <2>4. ASSUME NEW c \in Conns, ReaderStep(c), writer # NoConn
        PROVE  WriterHasReader'
    <3>1. fsm # "Stopped"
      BY <2>4 DEF WriterOwned, Connected, Handshake
    <3>2. PICK k \in {"ReaderClosed", "FrameError"} : mail' = Append(mail, Msg(k, c, NoEntity))
      BY <2>4, <3>1 DEF ReaderStep, Post
    <3>3. Msg(k, c, NoEntity) \in DeviceSessionMsg
      BY MsgTypes DEF ControlKinds
    <3>4. CASE c = writer
      <4>1. Has(mail', Msg(k, writer, NoEntity))
        BY <3>2, <3>3, <3>4, AppendKeeps DEF TypeOK
      <4> QED
        BY <2>1, <4>1 DEF WriterHasReader, Lost, InMail
    <3>5. CASE c # writer
      <4>1. reader'[writer] = reader[writer]
        BY <2>4, <3>5 DEF ReaderStep, TypeOK
      <4> QED
        BY <2>1, <2>2, <3>2, <3>3, <4>1 DEF WriterHasReader
    <3> QED
      BY <3>4, <3>5
  <2>5. CASE writer = NoConn
    BY <2>1, <2>5 DEF WriterHasReader
  <2>6. CASE mail' = mail /\ reader' = reader
    BY <2>1, <2>6 DEF WriterHasReader, Lost, InMail
  <2>7. Control("Reconnect") \in DeviceSessionMsg
    BY MsgTypes DEF ControlKinds
  <2> QED
    BY <1>2, <2>3, <2>4, <2>5, <2>6, <2>7, EnvironmentShape DEF Post
<1>3. CASE UNCHANGED vars
  BY <1>3 DEF vars, WriterHasReader, Lost, InMail
<1> QED
  BY <1>1, <1>2, <1>3 DEF Next, Environment

(* A session without a connection always has a reconnect coming.           *)
LEMMA PendingStep ==
    ASSUME TypeOK, ReconnectPending, [Next]_vars
    PROVE  ReconnectPending'
<1>1. CASE ActorStep \/ ConnectFail \/ StoppedByParent
  <2>1. CASE fsm' \in {"Stopped"} \cup Connected
    BY <2>1 DEF ReconnectPending, Connected, Handshake
  <2>2. CASE fsm' = "Reconnecting" /\ timers' = timers + 1
    BY <2>2 DEF ReconnectPending, TypeOK
  <2>3. CASE connecting' = TRUE
    BY <2>3 DEF ReconnectPending
  <2>4. CASE /\ fsm' = fsm /\ timers' >= timers /\ connecting' = connecting
             /\ mail # <<>> /\ mail' = Tail(mail)
             /\ Head(mail).kind \in FrameKinds \cup {"PingTick"}
    <3>1. ASSUME NEW k \in {"Connect", "Reconnect"}, Has(mail, Control(k))
          PROVE  Has(mail', Control(k))
      <4>1. Control(k) # Head(mail)
        BY <2>4 DEF Control, Msg, FrameKinds
      <4> QED
        BY <2>4, <3>1, <4>1, TailKeeps DEF TypeOK
    <3>2. timers > 0 => timers' > 0
      BY <2>4, TypeActor, <1>1 DEF TypeOK
    <3> QED
      BY <2>4, <3>1, <3>2 DEF ReconnectPending, InMail
  <2> QED
    BY <1>1, <2>1, <2>2, <2>3, <2>4, ActorShape DEF Connected, Handshake
<1>2. CASE Environment
  <2>1. fsm' = fsm /\ connecting' = connecting
    BY <1>2, EnvironmentShape
  <2>2. Control("Reconnect") \in DeviceSessionMsg
    BY MsgTypes DEF ControlKinds
  <2>3. \A c \in Conns : /\ Msg("ReaderClosed", c, NoEntity) \in DeviceSessionMsg
                         /\ Msg("FrameError", c, NoEntity) \in DeviceSessionMsg
    BY MsgTypes DEF ControlKinds
  <2>4. \/ mail' = mail /\ timers' = timers
        \/ \E x \in DeviceSessionMsg : mail' = Append(mail, x) /\ timers' = timers
        \/ mail' = Append(mail, Control("Reconnect"))
    BY <1>2, <2>2, <2>3, EnvironmentShape DEF Post, ReaderStep
  <2>5. CASE mail' = Append(mail, Control("Reconnect"))
    <3>1. Has(mail', Control("Reconnect"))
      BY <2>2, <2>5, AppendKeeps DEF TypeOK
    <3> QED
      BY <3>1 DEF ReconnectPending, InMail
  <2>6. ASSUME NEW x \in DeviceSessionMsg, mail' = Append(mail, x), timers' = timers
        PROVE  ReconnectPending'
    <3>1. \A k \in {"Connect", "Reconnect"} : Has(mail, Control(k)) => Has(mail', Control(k))
      BY <2>6, AppendKeeps DEF TypeOK
    <3> QED
      BY <2>1, <2>6, <3>1 DEF ReconnectPending, InMail
  <2>7. CASE mail' = mail /\ timers' = timers
    BY <2>1, <2>7 DEF ReconnectPending, InMail
  <2> QED
    BY <2>4, <2>5, <2>6, <2>7
<1>3. CASE UNCHANGED vars
  BY <1>3 DEF vars, ReconnectPending, InMail
<1> QED
  BY <1>1, <1>2, <1>3 DEF Next, Environment

-----------------------------------------------------------------------------
(* Status, entity states and backoff *)

ShownInv == FirmwareEntriesAreShown /\ StoppedMeansUnavailable

(* Marking and stopping keep the firmware table and the entities in step.  *)
LEMMA MarkShown ==
    ASSUME TypeOK, FirmwareEntriesAreShown, mark_entities_unavailable, refs' = refs
    PROVE  /\ FirmwareEntriesAreShown'
           /\ \A e \in refs' : shown'[e] = "unavailable"
  BY DEF TypeOK, FirmwareEntriesAreShown, mark_entities_unavailable

(* The states shown by entities and the firmware table are inductive.      *)
LEMMA ShownStep ==
    ASSUME TypeOK, ShownInv, [Next]_vars
    PROVE  ShownInv'
<1> USE DEF ShownInv, StoppedMeansUnavailable
<1>1. CASE Environment \/ UNCHANGED vars
  BY <1>1, EnvironmentShape DEF vars, FirmwareEntriesAreShown
<1>2. CASE StopReceived \/ StoppedByParent \/ \E c \in Conns : PasswordInfoReceived(c)
  BY <1>2, MarkShown DEF StopReceived, StoppedByParent, PasswordInfoReceived, post_stop
<1>3. CASE ReaderClosed
  BY <1>3, MarkShown DEF ReaderClosed, schedule_reconnect
<1>4. CASE PingTick
  <2>1. CASE fsm = "Active" /\ quiet
    BY <1>4, <2>1, MarkShown DEF PingTick, schedule_reconnect
  <2>2. CASE ~(fsm = "Active" /\ quiet)
    BY <1>4, <2>2 DEF PingTick, FirmwareEntriesAreShown
  <2> QED
    BY <2>1, <2>2
<1>5. CASE ConnectBegin \/ ConnectFail \/ FrameIgnored \/ \E c \in Conns : ConnectOk(c)
  BY <1>5 DEF ConnectBegin, ConnectFail, FrameIgnored, ConnectOk, schedule_reconnect, Take,
              FirmwareEntriesAreShown
<1>6. CASE \E c \in Conns : \/ HelloReceived(c) \/ DeviceInfoReceived(c)
                           \/ BadDeviceInfoReceived(c) \/ ListDoneNoDevice(c)
                           \/ \E e \in Entities : EntityListed(c, e)
  BY <1>6 DEF HelloReceived, DeviceInfoReceived, BadDeviceInfoReceived, ListDoneNoDevice,
              EntityListed, EnterActive, schedule_reconnect, FirmwareEntriesAreShown
<1>7. CASE SubscribedRefused \/ \E c \in Conns : ListDoneOverCap(c)
  <2>1. CASE SubscribedRefused
    BY <2>1 DEF SubscribedRefused, EnterActive, FirmwareEntriesAreShown
  <2>2. CASE \E c \in Conns : ListDoneOverCap(c)
    BY <2>2, MarkShown DEF ListDoneOverCap
  <2> QED
    BY <1>7, <2>1, <2>2
<1>8. CASE \E c \in Conns : ListDoneImported(c)
  <2>1. fsm' = "Active"
    BY <1>8 DEF ListDoneImported, EnterActive
  <2>2. CASE listed = {}
    BY <1>8, <2>1, <2>2 DEF ListDoneImported, FirmwareEntriesAreShown
  <2>3. CASE listed # {}
    <3>1. PICK adopted \in SUBSET (listed \ refs) :
              /\ refs' = refs \cup listed
              /\ firmware' = firmware \ (refs \ listed)
              /\ shown' = [e \in Entities |->
                      IF e \in refs \ listed THEN "unavailable"
                      ELSE IF e \in listed \ (refs \cup adopted)
                           THEN "value" ELSE shown[e]]
      BY <1>8, <2>3 DEF ListDoneImported
    <3> QED
      BY <2>1, <3>1 DEF FirmwareEntriesAreShown, TypeOK
  <2> QED
    BY <2>2, <2>3
<1>9. CASE \E c \in Conns, e \in Entities : StateReceived(c, e)
  <2>1. PICK c \in Conns, e \in Entities : StateReceived(c, e)
    BY <1>9
  <2>2. fsm' = "Active" /\ refs' = refs
    BY <2>1 DEF StateReceived
  <2>3. CASE e \in refs
    BY <2>1, <2>2, <2>3 DEF StateReceived, FirmwareEntriesAreShown, TypeOK
  <2>4. CASE e \notin refs
    BY <2>1, <2>2, <2>4 DEF StateReceived, FirmwareEntriesAreShown
  <2> QED
    BY <2>3, <2>4
<1> QED
  BY <1>1, <1>2, <1>3, <1>4, <1>5, <1>6, <1>7, <1>8, <1>9 DEF Next, Environment, ActorStep

\* Nothing is connecting while the handler subscribes after a refused import.
RefusedIdle == fsm = "Refused" => connecting = FALSE

StatusInv == ReportMatchesFsm /\ ActiveResetsBackoff /\ RefusedIdle

(* The status last sent and the backoff counter follow the fsm.            *)
LEMMA StatusStep ==
    ASSUME TypeOK, StatusInv, [Next]_vars
    PROVE  StatusInv'
<1> USE DEF StatusInv, ReportMatchesFsm, ActiveResetsBackoff, RefusedIdle, Handshake
<1>1. CASE Environment \/ UNCHANGED vars
  <2>1. UNCHANGED <<fsm, connecting, attempts, reported>>
    BY <1>1, EnvironmentShape DEF vars
  <2> QED
    BY <2>1
<1>2. CASE fsm' = "Stopped"
  BY <1>2
<1>3. CASE schedule_reconnect /\ connecting' = FALSE
  BY <1>3 DEF schedule_reconnect
<1>4. CASE EnterActive /\ connecting' = FALSE
  BY <1>4 DEF EnterActive
<1>5. CASE \E c \in Conns : ConnectOk(c)
  BY <1>5 DEF ConnectOk
<1>6. CASE ConnectBegin
  BY <1>6 DEF ConnectBegin, Take
<1>7. CASE UNCHANGED <<fsm, connecting, attempts, reported>>
  BY <1>7
<1>8. CASE \E c \in Conns : HelloReceived(c) \/ DeviceInfoReceived(c)
  <2>1. /\ fsm \in {"AwaitHello", "AwaitDeviceInfo"} /\ ~connecting
        /\ fsm' \in {"AwaitDeviceInfo", "CollectingEntities"}
        /\ connecting' = connecting /\ reported' = reported
    BY <1>8 DEF HelloReceived, DeviceInfoReceived, Take
  <2>2. reported = "Handshaking"
    BY <2>1
  <2> QED
    BY <2>1, <2>2
<1>9. ActorStep \/ ConnectFail \/ StoppedByParent =>
        \/ fsm' = "Stopped"
        \/ schedule_reconnect /\ connecting' = FALSE
        \/ EnterActive /\ connecting' = FALSE
        \/ \E c \in Conns : ListDoneOverCap(c) /\ connecting' = FALSE
        \/ \E c \in Conns : ConnectOk(c) \/ HelloReceived(c) \/ DeviceInfoReceived(c)
        \/ ConnectBegin
        \/ UNCHANGED <<fsm, connecting, attempts, reported>>
  <2>1. ASSUME NEW m, Take(m) PROVE connecting = FALSE
    BY <2>1 DEF Take, TypeOK
  <2>2. CASE ConnectFail
    BY <2>2 DEF ConnectFail
  <2>3. CASE StopReceived \/ StoppedByParent \/ \E c \in Conns : PasswordInfoReceived(c)
    BY <2>3 DEF StopReceived, StoppedByParent, PasswordInfoReceived, post_stop
  <2>4. CASE ReaderClosed \/ \E c \in Conns : BadDeviceInfoReceived(c)
    BY <2>1, <2>4 DEF ReaderClosed, BadDeviceInfoReceived
  <2>5. CASE PingTick
    BY <2>1, <2>5 DEF PingTick
  <2>6. CASE \E c \in Conns : ListDoneNoDevice(c) \/ ListDoneOverCap(c) \/ ListDoneImported(c)
    BY <2>1, <2>6 DEF ListDoneNoDevice, ListDoneOverCap, ListDoneImported
  <2>8. CASE SubscribedRefused
    BY <2>8 DEF SubscribedRefused, RefusedIdle
  <2>7. CASE FrameIgnored \/ \E c \in Conns, e \in Entities : EntityListed(c, e) \/ StateReceived(c, e)
    BY <2>7 DEF FrameIgnored, EntityListed, StateReceived
  <2> QED
    BY <2>2, <2>3, <2>4, <2>5, <2>6, <2>7, <2>8 DEF ActorStep
<1>10. CASE \E c \in Conns : ListDoneOverCap(c) /\ connecting' = FALSE
  BY <1>10 DEF ListDoneOverCap
<1> QED
  BY <1>1, <1>2, <1>3, <1>4, <1>5, <1>6, <1>7, <1>8, <1>9, <1>10 DEF Next, Environment

-----------------------------------------------------------------------------
(* One chain of reconnecting *)

(* The messages that make the actor (re)connect, their places in a         *)
(* mailbox, and the readers at work.                                       *)
LinkKinds == {"Connect", "Reconnect", "ReaderClosed", "FrameError"}
Links(s) == {i \in 1..Len(s) : s[i].kind \in LinkKinds}
Weight(m) == IF m.kind \in LinkKinds THEN 1 ELSE 0
Reading(r) == {c \in Conns : r[c] = "reading"}

(* Places in a mailbox are finitely many.                                  *)
LEMMA LinksFinite ==
    ASSUME NEW S, NEW s \in Seq(S)
    PROVE  IsFiniteSet(Links(s)) /\ Cardinality(Links(s)) \in Nat
<1>1. Len(s) \in Nat /\ Links(s) \in SUBSET (1..Len(s))
  BY DEF Links
<1>2. IsFiniteSet(1..Len(s))
  BY <1>1, FS_Interval
<1>3. IsFiniteSet(Links(s))
  BY <1>1, <1>2, FS_Subset
<1> QED
  BY <1>3, FS_CardinalityType

(* Posting a message adds its weight.                                      *)
LEMMA LinksAppend ==
    ASSUME NEW S, NEW s \in Seq(S), NEW x \in S
    PROVE  Cardinality(Links(Append(s, x))) = Cardinality(Links(s)) + Weight(x)
<1> DEFINE n == Len(s) + 1
           t == Append(s, x)
<1>1. Len(s) \in Nat /\ Len(t) = n /\ t[n] = x /\ \A i \in 1..Len(s) : t[i] = s[i]
  OBVIOUS
<1>2. n \notin Links(s)
  BY <1>1 DEF Links
<1> HIDE DEF t
<1>3. CASE x.kind \in LinkKinds
  <2>1. Links(t) = Links(s) \cup {n}
    BY <1>1, <1>3 DEF Links
  <2>2. Cardinality(Links(s) \cup {n}) = Cardinality(Links(s)) + 1
    BY <1>2, LinksFinite, FS_AddElement
  <2> QED
    BY <1>3, <2>1, <2>2 DEF t, Weight
<1>4. CASE x.kind \notin LinkKinds
  <2>1. Links(t) = Links(s)
    BY <1>1, <1>4 DEF Links
  <2> QED
    BY <1>4, <2>1, LinksFinite DEF t, Weight
<1> QED
  BY <1>3, <1>4

(* Taking the head removes its weight.                                     *)
LEMMA LinksTail ==
    ASSUME NEW S, NEW s \in Seq(S), s # <<>>
    PROVE  Cardinality(Links(s)) = Cardinality(Links(Tail(s))) + Weight(Head(s))
<1> DEFINE t == Tail(s)
           A == Links(s) \ {1}
           B == Links(t)
           f == [i \in A |-> i - 1]
<1>1. /\ Len(s) \in Nat /\ Len(s) > 0 /\ t \in Seq(S) /\ Len(t) = Len(s) - 1
      /\ Head(s) = s[1] /\ \A i \in 1..Len(t) : t[i] = s[i + 1]
  OBVIOUS
<1> HIDE DEF t
<1>2. \A i \in A : i - 1 \in B /\ i \in Int
  BY <1>1 DEF Links
<1>3. \A j \in B : j + 1 \in A /\ j \in Int /\ (j + 1) - 1 = j
  BY <1>1 DEF Links
<1>4. f \in [A -> B]
  BY <1>2
<1>5. \A a, b \in A : f[a] = f[b] => a = b
  BY <1>2
<1>6. \A j \in B : \E a \in A : f[a] = j
  BY <1>3
<1>7. ExistsBijection(A, B)
  BY <1>4, <1>5, <1>6
     DEF ExistsBijection, Bijection, Injection, Surjection, IsInjective
<1>8. IsFiniteSet(Links(s)) /\ Cardinality(Links(s)) \in Nat /\ Cardinality(B) \in Nat
  BY <1>1, LinksFinite
<1>9. /\ IsFiniteSet(A)
      /\ Cardinality(A) = IF 1 \in Links(s) THEN Cardinality(Links(s)) - 1
                                            ELSE Cardinality(Links(s))
  BY <1>8, FS_RemoveElement
<1>10. Cardinality(B) = Cardinality(A)
  BY <1>7, <1>9, FS_Bijection
<1>11. 1 \in Links(s) <=> Head(s).kind \in LinkKinds
  BY <1>1 DEF Links
<1> HIDE DEF A, B
<1>12. Cardinality(Links(s)) = Cardinality(B) + Weight(Head(s))
  BY <1>8, <1>9, <1>10, <1>11 DEF Weight
<1> QED
  BY <1>12 DEF B, t

(* The chains, counted with Links and Reading.                             *)
LEMMA ChainsAre ==
    Chains = timers + Cardinality(Links(mail)) + (IF connecting THEN 1 ELSE 0)
             + Cardinality(Reading(reader))
  BY DEF Chains, Queued, Links, LinkKinds, Reading

(* A well-behaved firmware and an importer within its limits: the faults   *)
(* that start a second chain are left out.                                 *)
OneChainFaults == Faults \cap {"silence", "badInfo", "overCap"} = {}

(* The steps of a session that goes on, by what they do to its chains.     *)
ChainMoves ==
    \/ /\ mail # <<>> /\ mail' = Tail(mail) /\ Head(mail).kind \in LinkKinds
       /\ ~connecting /\ connecting' /\ timers' = timers /\ reader' = reader
    \/ /\ connecting /\ ~connecting' /\ mail' = mail /\ timers' = timers
       /\ \E c \in Conns : reader[c] # "reading" /\ reader' = [reader EXCEPT ![c] = "reading"]
    \/ /\ connecting /\ ~connecting' /\ mail' = mail /\ timers' = timers + 1
       /\ reader' = reader
    \/ /\ mail # <<>> /\ mail' = Tail(mail) /\ Head(mail).kind \in LinkKinds
       /\ connecting' = connecting /\ timers' = timers + 1 /\ reader' = reader
    \/ /\ mail # <<>> /\ mail' = Tail(mail) /\ Head(mail).kind \notin LinkKinds
       /\ connecting' = connecting /\ timers' = timers /\ reader' = reader
    \/ /\ timers > 0 /\ timers' = timers - 1 /\ Post(Control("Reconnect"))
       /\ connecting' = connecting /\ reader' = reader
    \/ /\ connecting' = connecting /\ timers' = timers
       /\ \E c \in Conns, k \in {"ReaderClosed", "FrameError"} :
             /\ reader[c] = "reading" /\ reader' = [reader EXCEPT ![c] = "idle"]
             /\ Post(Msg(k, c, NoEntity))
    \/ /\ connecting' = connecting /\ timers' = timers /\ reader' = reader
       /\ \E x \in DeviceSessionMsg :
             x.kind \notin LinkKinds \cup {"BadDeviceInfo"} /\ Post(x)

(* What keeps a second chain from starting: the inactivity clock never     *)
(* runs out, no undecodable DeviceInfo is under way and no import was      *)
(* refused.                                                                *)
Sedate ==
    /\ ~quiet /\ fsm # "Refused"
    /\ \A i \in 1..Len(mail) : mail[i].kind # "BadDeviceInfo"

(* A step of a session that goes on is one of ChainMoves.                  *)
LEMMA MovesOfActor ==
    ASSUME OneChainFaults, TypeOK, Sedate, fsm # "Stopped",
           ActorStep \/ ConnectFail \/ StoppedByParent
    PROVE  IF fsm' = "Stopped" THEN ~connecting' ELSE ChainMoves /\ ~quiet' /\ fsm' # "Refused"
<1> DEFINE Goal == IF fsm' = "Stopped" THEN ~connecting' ELSE ChainMoves /\ ~quiet' /\ fsm' # "Refused"
           Consumes == /\ mail # <<>> /\ mail' = Tail(mail) /\ Head(mail).kind \notin LinkKinds
                       /\ connecting' = connecting /\ timers' = timers /\ reader' = reader
                       /\ fsm' \notin {"Stopped", "Refused"} /\ ~quiet'
<1>0. Consumes => Goal
  BY DEF ChainMoves
<1>1. CASE ConnectBegin
  <2>1. PICK k \in {"Connect", "Reconnect"} : Take(Control(k))
    BY <1>1 DEF ConnectBegin
  <2>2. Head(mail).kind \in LinkKinds
    BY <2>1 DEF Take, Control, Msg, LinkKinds
  <2> QED
    BY <1>1, <2>1, <2>2 DEF ConnectBegin, Take, ChainMoves, Sedate
<1>2. ASSUME NEW c \in Conns, ConnectOk(c) PROVE Goal
  BY <1>2 DEF ConnectOk, Free, ChainMoves, Sedate
<1>3. CASE ConnectFail
  BY <1>3 DEF ConnectFail, schedule_reconnect, ChainMoves, Sedate
<1>4. CASE FrameIgnored
  <2>1. Head(mail).kind \notin LinkKinds
    BY <1>4 DEF FrameIgnored, FrameKinds, LinkKinds
  <2>2. Consumes
    BY <1>4, <2>1 DEF FrameIgnored, Take
  <2> QED
    BY <1>0, <2>2
<1>5. CASE ReaderClosed
  <2>1. PICK c \in Conns, k \in {"ReaderClosed", "FrameError"} : Take(Msg(k, c, NoEntity))
    BY <1>5 DEF ReaderClosed
  <2>2. Head(mail).kind \in LinkKinds
    BY <2>1 DEF Take, Msg, LinkKinds
  <2> QED
    BY <1>5, <2>1, <2>2 DEF ReaderClosed, Take, schedule_reconnect, ChainMoves, Sedate
<1>6. CASE PingTick
  <2>1. Head(mail).kind \notin LinkKinds
    BY <1>6 DEF PingTick, Take, Control, Msg, LinkKinds
  <2>2. Consumes
    BY <1>6, <2>1 DEF PingTick, Take, Sedate
  <2> QED
    BY <1>0, <2>2
<1>7. CASE StopReceived \/ StoppedByParent
  BY <1>7 DEF StopReceived, StoppedByParent, post_stop, Sedate
<1>8. ASSUME NEW c \in Conns, HelloReceived(c) \/ DeviceInfoReceived(c) PROVE Goal
  <2>1. Head(mail).kind \notin LinkKinds
    BY <1>8 DEF HelloReceived, DeviceInfoReceived, Take, Msg, LinkKinds
  <2>2. Consumes
    BY <1>8, <2>1 DEF HelloReceived, DeviceInfoReceived, Take
  <2> QED
    BY <1>0, <2>2
<1>9. ASSUME NEW c \in Conns, BadDeviceInfoReceived(c) PROVE Goal
  <2>1. mail # <<>> /\ Head(mail).kind = "BadDeviceInfo"
    BY <1>9 DEF BadDeviceInfoReceived, Take, Msg
  <2>2. 1 \in 1..Len(mail) /\ Head(mail) = mail[1]
    BY <2>1 DEF TypeOK
  <2> QED
    BY <2>1, <2>2 DEF Sedate
<1>10. ASSUME NEW c \in Conns, PasswordInfoReceived(c) PROVE Goal
  BY <1>10 DEF PasswordInfoReceived, post_stop
<1>11. ASSUME NEW c \in Conns, ListDoneNoDevice(c) \/ ListDoneImported(c) PROVE Goal
  <2>1. Head(mail).kind \notin LinkKinds
    BY <1>11 DEF ListDoneNoDevice, ListDoneImported, Take, Msg, LinkKinds
  <2>2. Consumes
    BY <1>11, <2>1 DEF ListDoneNoDevice, ListDoneImported, Take, EnterActive
  <2> QED
    BY <1>0, <2>2
<1>12. ASSUME NEW c \in Conns, ListDoneOverCap(c) PROVE Goal
  BY <1>12 DEF ListDoneOverCap, OneChainFaults
<1>13. ASSUME NEW c \in Conns, NEW e \in Entities, EntityListed(c, e) \/ StateReceived(c, e)
       PROVE  Goal
  <2>1. Head(mail).kind \notin LinkKinds
    BY <1>13 DEF EntityListed, StateReceived, Take, Msg, LinkKinds
  <2>2. Consumes
    BY <1>13, <2>1 DEF EntityListed, StateReceived, Take
  <2> QED
    BY <1>0, <2>2
<1>14. CASE SubscribedRefused
  BY <1>14 DEF SubscribedRefused, Sedate
<1> QED
  BY <1>1, <1>2, <1>3, <1>4, <1>5, <1>6, <1>7, <1>8, <1>9, <1>10, <1>11, <1>12, <1>13, <1>14
     DEF ActorStep

(* So is a step of its surroundings, which leave the fsm alone.            *)
LEMMA MovesOfEnvironment ==
    ASSUME OneChainFaults, TypeOK, Sedate, Environment, fsm # "Stopped"
    PROVE  ChainMoves /\ ~quiet' /\ fsm' # "Refused"
<1>1. CASE TimerFires
  BY <1>1 DEF TimerFires, actorVars, ChainMoves, Sedate
<1>2. CASE TickerFires
  <2>1. Control("PingTick") \in DeviceSessionMsg
    BY MsgTypes DEF ControlKinds
  <2>2. Control("PingTick").kind \notin LinkKinds \cup {"BadDeviceInfo"}
    BY DEF Control, Msg, LinkKinds
  <2> QED
    BY <1>2, <2>1, <2>2 DEF TickerFires, actorVars, ChainMoves, Sedate
<1>3. CASE LinkFallsSilent
  BY <1>3 DEF LinkFallsSilent, OneChainFaults
<1>4. CASE ManagerStops
  <2>1. Control("Stop") \in DeviceSessionMsg
    BY MsgTypes DEF ControlKinds
  <2>2. Control("Stop").kind \notin LinkKinds \cup {"BadDeviceInfo"}
    BY DEF Control, Msg, LinkKinds
  <2> QED
    BY <1>4, <2>1, <2>2 DEF ManagerStops, actorVars, ChainMoves, Sedate
<1>5. CASE Firmware
  <2>1. PICK c \in Conns, k \in FrameKinds \ {"BadDeviceInfo"}, e \in Entities \cup {NoEntity} :
           Frame(c, k, e)
    <3>1. ASSUME NEW c \in Conns, FirmwareAnswers(c)
          PROVE  /\ Frame(c, Expected[fsm], NoEntity)
                 /\ Expected[fsm] \in FrameKinds \ {"BadDeviceInfo"}
      BY <3>1 DEF FirmwareAnswers, Expected, Connected, Handshake, FrameKinds
    <3>2. ASSUME NEW c \in Conns, FirmwareMisbehaves(c)
          PROVE  \E k \in FrameKinds \ {"BadDeviceInfo"} : Frame(c, k, NoEntity)
      BY <3>2 DEF FirmwareMisbehaves, FrameKinds, OneChainFaults
    <3>3. ASSUME NEW c \in Conns, NEW e \in Entities, FirmwareLists(c, e) \/ FirmwarePushes(c, e)
          PROVE  \E k \in FrameKinds \ {"BadDeviceInfo"} : Frame(c, k, e)
      BY <3>3 DEF FirmwareLists, FirmwarePushes, FrameKinds
    <3> QED
      BY <1>5, <3>1, <3>2, <3>3 DEF Firmware
  <2>2. Msg(k, c, e) \in DeviceSessionMsg
    BY MsgTypes
  <2>3. Msg(k, c, e).kind \notin LinkKinds \cup {"BadDeviceInfo"}
    BY DEF Msg, LinkKinds, FrameKinds
  <2> QED
    BY <2>1, <2>2, <2>3 DEF Frame, actorVars, ChainMoves, Sedate
<1>6. ASSUME NEW c \in Conns, PeerCloses(c) \/ NetworkLoss(c) \/ MalformedFrame(c)
      PROVE  ChainMoves /\ ~quiet' /\ fsm' # "Refused"
  <2>1. \E k \in {"ReaderClosed", "FrameError"} :
           /\ reader[c] = "reading" /\ reader' = [reader EXCEPT ![c] = "idle"]
           /\ Post(Msg(k, c, NoEntity))
    BY <1>6 DEF PeerCloses, NetworkLoss, MalformedFrame, ReaderEnds
  <2>2. /\ connecting' = connecting /\ timers' = timers /\ quiet' = quiet
        /\ fsm' = fsm
    BY <1>6 DEF PeerCloses, NetworkLoss, MalformedFrame, ReaderEnds, actorVars
  <2> QED
    BY <2>1, <2>2 DEF ChainMoves, Sedate
<1> QED
  BY <1>1, <1>2, <1>3, <1>4, <1>5, <1>6 DEF Environment

(* Each of them moves one chain from one place to another.                 *)
LEMMA MovesKeepChains ==
    ASSUME TypeOK, TypeOK', ChainMoves, IsFiniteSet(Reading(reader))
    PROVE  Chains' = Chains /\ IsFiniteSet(Reading(reader'))
<1> DEFINE q == Cardinality(Links(mail))
           q1 == Cardinality(Links(mail'))
           n == Cardinality(Reading(reader))
           n1 == Cardinality(Reading(reader'))
           b(x) == IF x THEN 1 ELSE 0
<1>1. /\ Chains = timers + q + b(connecting) + n
      /\ Chains' = timers' + q1 + b(connecting') + n1
  BY DEF Chains, Queued, Links, LinkKinds, Reading
<1>2. q \in Nat /\ q1 \in Nat /\ n \in Nat /\ timers \in Nat /\ timers' \in Nat
      /\ mail \in Seq(DeviceSessionMsg) /\ reader \in [Conns -> {"idle", "reading"}]
      /\ connecting \in BOOLEAN /\ connecting' \in BOOLEAN
  BY LinksFinite, FS_CardinalityType DEF TypeOK
<1>3. ASSUME mail # <<>>, mail' = Tail(mail)
      PROVE  q = q1 + Weight(Head(mail))
  BY <1>2, <1>3, LinksTail
<1>4. ASSUME NEW x \in DeviceSessionMsg, Post(x)
      PROVE  q1 = q + Weight(x)
  BY <1>2, <1>4, LinksAppend DEF Post
<1>5. ASSUME NEW c \in Conns, reader[c] # "reading", reader' = [reader EXCEPT ![c] = "reading"]
      PROVE  n1 = n + 1 /\ IsFiniteSet(Reading(reader'))
  <2>1. Reading(reader') = Reading(reader) \cup {c} /\ c \notin Reading(reader)
    BY <1>2, <1>5 DEF Reading
  <2> QED
    BY <2>1, FS_AddElement
<1>6. ASSUME NEW c \in Conns, reader[c] = "reading", reader' = [reader EXCEPT ![c] = "idle"]
      PROVE  n1 = n - 1 /\ IsFiniteSet(Reading(reader'))
  <2>1. Reading(reader') = Reading(reader) \ {c} /\ c \in Reading(reader)
    BY <1>2, <1>6 DEF Reading
  <2> QED
    BY <2>1, FS_RemoveElement
<1> HIDE DEF q, q1, n, n1
<1>7. ASSUME reader' = reader PROVE n1 = n /\ IsFiniteSet(Reading(reader'))
  BY <1>7 DEF n, n1
<1>8. CASE mail # <<>> /\ mail' = Tail(mail) /\ Head(mail).kind \in LinkKinds /\ reader' = reader
           /\ \/ ~connecting /\ connecting' /\ timers' = timers
              \/ connecting' = connecting /\ timers' = timers + 1
  <2>1. q = q1 + 1 /\ n1 = n /\ IsFiniteSet(Reading(reader'))
    BY <1>3, <1>7, <1>8 DEF Weight
  <2>2. CASE ~connecting /\ connecting' /\ timers' = timers
    BY <1>1, <1>2, <2>1, <2>2
  <2>3. CASE connecting' = connecting /\ timers' = timers + 1
    BY <1>1, <1>2, <2>1, <2>3
  <2> QED
    BY <1>8, <2>2, <2>3
<1>9. CASE /\ connecting /\ ~connecting' /\ mail' = mail /\ timers' = timers
           /\ \E c \in Conns : reader[c] # "reading" /\ reader' = [reader EXCEPT ![c] = "reading"]
  <2>1. q = q1 /\ n1 = n + 1 /\ IsFiniteSet(Reading(reader'))
    BY <1>5, <1>9 DEF q, q1
  <2> QED
    BY <1>1, <1>2, <1>9, <2>1
<1>10. CASE /\ connecting /\ ~connecting' /\ mail' = mail /\ timers' = timers + 1
            /\ reader' = reader
  <2>1. q = q1
    BY <1>10 DEF q, q1
  <2> QED
    BY <1>1, <1>2, <1>7, <1>10, <2>1
<1>11. CASE /\ mail # <<>> /\ mail' = Tail(mail) /\ Head(mail).kind \notin LinkKinds
            /\ connecting' = connecting /\ timers' = timers /\ reader' = reader
  <2>1. q = q1
    BY <1>2, <1>3, <1>11 DEF Weight
  <2> QED
    BY <1>1, <1>2, <1>7, <1>11, <2>1
<1>12. CASE /\ timers > 0 /\ timers' = timers - 1 /\ Post(Control("Reconnect"))
            /\ connecting' = connecting /\ reader' = reader
  <2>1. Control("Reconnect") \in DeviceSessionMsg
    BY MsgTypes DEF ControlKinds
  <2>2. Weight(Control("Reconnect")) = 1
    BY DEF Weight, Control, Msg, LinkKinds
  <2>3. q1 = q + 1
    BY <1>4, <1>12, <2>1, <2>2
  <2> QED
    BY <1>1, <1>2, <1>7, <1>12, <2>3
<1>13. CASE /\ connecting' = connecting /\ timers' = timers
            /\ \E c \in Conns, k \in {"ReaderClosed", "FrameError"} :
                  /\ reader[c] = "reading" /\ reader' = [reader EXCEPT ![c] = "idle"]
                  /\ Post(Msg(k, c, NoEntity))
  <2>1. PICK c \in Conns, k \in {"ReaderClosed", "FrameError"} :
                  /\ reader[c] = "reading" /\ reader' = [reader EXCEPT ![c] = "idle"]
                  /\ Post(Msg(k, c, NoEntity))
    BY <1>13
  <2>2. Msg(k, c, NoEntity) \in DeviceSessionMsg
    BY MsgTypes DEF ControlKinds
  <2>3. Weight(Msg(k, c, NoEntity)) = 1
    BY DEF Weight, Msg, LinkKinds
  <2>4. q1 = q + 1
    BY <1>4, <2>1, <2>2, <2>3
  <2>5. n1 = n - 1 /\ IsFiniteSet(Reading(reader'))
    BY <1>6, <2>1
  <2> QED
    BY <1>1, <1>2, <1>13, <2>4, <2>5
<1>14. CASE /\ connecting' = connecting /\ timers' = timers /\ reader' = reader
            /\ \E x \in DeviceSessionMsg :
                  x.kind \notin LinkKinds \cup {"BadDeviceInfo"} /\ Post(x)
  <2>1. q1 = q
    BY <1>2, <1>4, <1>14 DEF Weight
  <2> QED
    BY <1>1, <1>2, <1>7, <1>14, <2>1
<1> QED
  BY <1>8, <1>9, <1>10, <1>11, <1>12, <1>13, <1>14 DEF ChainMoves

(* None of them brings an undecodable DeviceInfo.                          *)
LEMMA MovesKeepSedate ==
    ASSUME TypeOK, ChainMoves, Sedate
    PROVE  \A i \in 1..Len(mail') : mail'[i].kind # "BadDeviceInfo"
<1>1. mail \in Seq(DeviceSessionMsg)
  BY DEF TypeOK
<1>2. CASE mail' = mail
  BY <1>2 DEF Sedate
<1>3. CASE mail # <<>> /\ mail' = Tail(mail)
  BY <1>1, <1>3 DEF Sedate
<1>4. ASSUME NEW x \in DeviceSessionMsg, x.kind # "BadDeviceInfo", mail' = Append(mail, x)
      PROVE  \A i \in 1..Len(mail') : mail'[i].kind # "BadDeviceInfo"
  BY <1>1, <1>4 DEF Sedate
<1>5. /\ Control("Reconnect") \in DeviceSessionMsg
      /\ Control("Reconnect").kind # "BadDeviceInfo"
  BY MsgTypes DEF Control, Msg, ControlKinds
<1>6. \A c \in Conns, k \in {"ReaderClosed", "FrameError"} :
         Msg(k, c, NoEntity) \in DeviceSessionMsg /\ Msg(k, c, NoEntity).kind # "BadDeviceInfo"
  BY MsgTypes DEF Msg, ControlKinds
<1>7. \/ mail' = mail \/ (mail # <<>> /\ mail' = Tail(mail))
      \/ \E x \in DeviceSessionMsg : x.kind # "BadDeviceInfo" /\ mail' = Append(mail, x)
  BY <1>5, <1>6 DEF ChainMoves, Post
<1> QED
  BY <1>2, <1>3, <1>4, <1>7

(* The invariant: one chain until the actor stops, and once it stopped     *)
(* nothing is connecting.                                                  *)
ChainInv ==
    IF fsm = "Stopped" THEN ~connecting
    ELSE Sedate /\ IsFiniteSet(Reading(reader)) /\ Chains = 1

(* ChainInv holds initially: the Connect that pre_start queues.            *)
LEMMA ChainInit == Init => ChainInv
<1> SUFFICES ASSUME Init PROVE ChainInv
  OBVIOUS
<1>1. /\ fsm = "Idle" /\ connecting = FALSE /\ quiet = FALSE /\ timers = 0
      /\ mail = <<Control("Connect")>> /\ reader = [c \in Conns |-> "idle"]
  BY DEF Init
<1>2. Control("Connect").kind = "Connect"
  BY DEF Control, Msg
<1>3. Links(mail) = {1}
  BY <1>1, <1>2 DEF Links, LinkKinds
<1>4. Reading(reader) = {}
  BY <1>1 DEF Reading
<1>5. Chains = 1 /\ IsFiniteSet(Reading(reader))
  <2>1. Cardinality(Links(mail)) = 1
    BY <1>3, FS_Singleton
  <2>2. Cardinality(Reading(reader)) = 0 /\ IsFiniteSet(Reading(reader))
    BY <1>4, FS_EmptySet
  <2> QED
    BY <1>1, <2>1, <2>2, ChainsAre
<1>6. Sedate
  BY <1>1, <1>2 DEF Sedate
<1> QED
  BY <1>1, <1>5, <1>6 DEF ChainInv

(* ChainInv is inductive.                                                  *)
LEMMA ChainStep ==
    ASSUME OneChainFaults, TypeOK, ChainInv, [Next]_vars
    PROVE  ChainInv'
<1>0. TypeOK'
  BY TypeStep
<1>1. ASSUME fsm # "Stopped", fsm' \notin {"Stopped", "Refused"}, ChainMoves, ~quiet'
      PROVE  ChainInv'
  <2>1. Chains' = Chains /\ IsFiniteSet(Reading(reader'))
    BY <1>0, <1>1, MovesKeepChains DEF ChainInv
  <2>2. Sedate'
    BY <1>1, MovesKeepSedate DEF ChainInv, Sedate
  <2> QED
    BY <1>1, <2>1, <2>2 DEF ChainInv, Reading
<1>2. CASE fsm # "Stopped" /\ (ActorStep \/ ConnectFail \/ StoppedByParent)
  <2>1. IF fsm' = "Stopped" THEN ~connecting' ELSE ChainMoves /\ ~quiet' /\ fsm' # "Refused"
    BY <1>2, MovesOfActor DEF ChainInv
  <2> QED
    BY <1>1, <1>2, <2>1 DEF ChainInv
<1>3. CASE fsm # "Stopped" /\ Environment
  <2>1. fsm' = fsm
    BY <1>3, EnvironmentShape
  <2>2. ChainMoves /\ ~quiet' /\ fsm' # "Refused"
    BY <1>3, MovesOfEnvironment DEF ChainInv
  <2> QED
    BY <1>1, <1>3, <2>1, <2>2
<1>4. CASE fsm = "Stopped" /\ (ActorStep \/ ConnectFail \/ StoppedByParent)
  <2>1. ~connecting
    BY <1>4 DEF ChainInv
  <2> QED
    BY <1>4, <2>1
       DEF ActorStep, ConnectBegin, ConnectOk, FrameIgnored, ReaderClosed, PingTick,
           StopReceived, HelloReceived, DeviceInfoReceived, BadDeviceInfoReceived,
           PasswordInfoReceived, ListDoneNoDevice, ListDoneOverCap, ListDoneImported,
           EntityListed, StateReceived, SubscribedRefused, ConnectFail, StoppedByParent, Take
<1>5. CASE fsm = "Stopped" /\ Environment
  BY <1>5, EnvironmentShape DEF ChainInv
<1>6. CASE UNCHANGED vars
  BY <1>6 DEF vars, ChainInv, Sedate, Reading, Chains, Queued
<1> QED
  BY <1>2, <1>3, <1>4, <1>5, <1>6 DEF Next, Environment

-----------------------------------------------------------------------------
(* The theorems *)

(* The inductive invariant: types, ownership of the writer, and the safety *)
(* properties checked by TLC.                                              *)
Inv ==
    /\ TypeOK /\ WriterOwned /\ WriterHasReader /\ ReconnectPending
    /\ ShownInv /\ StatusInv

(* Inv holds initially.                                                    *)
LEMMA InvInit == Init => Inv
<1> SUFFICES ASSUME Init PROVE Inv
  OBVIOUS
<1>1. Has(mail, Control("Connect"))
  BY DEF Init, Has
<1> QED
  BY <1>1, TypeInit
     DEF Init, Inv, WriterOwned, WriterHasReader, ReconnectPending, InMail, ShownInv, StatusInv,
         FirmwareEntriesAreShown, StoppedMeansUnavailable, ReportMatchesFsm,
         ActiveResetsBackoff, RefusedIdle, Connected, Handshake

(* Inv is an invariant of the session.                                     *)
THEOREM Invariance == Spec => []Inv
<1>1. Inv /\ [Next]_vars => Inv'
  <2> SUFFICES ASSUME Inv, [Next]_vars PROVE Inv'
    OBVIOUS
  <2> USE DEF Inv
  <2> QED
    BY TypeStep, WriterOwnedStep, WriterStep, PendingStep, ShownStep, StatusStep
<1> QED
  BY InvInit, <1>1, PTL DEF Spec

(* TypeOK is an invariant of the session, its tasks and its environment.   *)
THEOREM TypeCorrect == Spec => []TypeOK
  BY Invariance, PTL DEF Inv

(* No connection is ever left without a reader or a queued notice.         *)
THEOREM WriterHasReaderInvariant == Spec => []WriterHasReader
  BY Invariance, PTL DEF Inv

(* A session without a connection always has a reconnect coming.           *)
THEOREM ReconnectPendingInvariant == Spec => []ReconnectPending
  BY Invariance, PTL DEF Inv

(* The manager's last word about a session is the session's fsm.           *)
THEOREM ReportMatchesFsmInvariant == Spec => []ReportMatchesFsm
  BY Invariance, PTL DEF Inv, StatusInv

(* The firmware table only names entities that show a pushed value.        *)
THEOREM FirmwareEntriesInvariant == Spec => []FirmwareEntriesAreShown
  BY Invariance, PTL DEF Inv, ShownInv

(* A stopped session leaves no entity showing a value.                     *)
THEOREM StoppedMeansUnavailableInvariant == Spec => []StoppedMeansUnavailable
  BY Invariance, PTL DEF Inv, ShownInv

(* Whatever way a session got to Active, its backoff starts from the       *)
(* shortest delay again.                                                   *)
THEOREM ActiveResetsBackoffInvariant == Spec => []ActiveResetsBackoff
  BY Invariance, PTL DEF Inv, StatusInv

(* Under a firmware that keeps talking and answers DeviceInfo with what    *)
(* decodes, and an importer within its limits, every order of lost         *)
(* connections, failed connects, malformed frames, refused logins and      *)
(* stale notices leaves exactly one chain of reconnecting: ReaderClosed    *)
(* and schedule_reconnect never lose it and never start another.           *)
THEOREM SingleChainInvariant ==
    ASSUME OneChainFaults
    PROVE  Spec => []SingleChain
<1>1. TypeOK /\ ChainInv /\ [Next]_vars => (TypeOK /\ ChainInv)'
  BY TypeStep, ChainStep
<1>2. TypeOK /\ ChainInv => SingleChain
  BY DEF ChainInv, SingleChain
<1> QED
  BY TypeInit, ChainInit, <1>1, <1>2, PTL DEF Spec

-----------------------------------------------------------------------------
(* DeviceSession implements SessionLifecycle, for any connections,         *)
(* entities, faults and bounds.                                            *)

\* A session that has not connected yet finds Connect first in its mailbox.
ConnectFirst ==
    fsm = "Idle" /\ connecting = FALSE => mail # <<>> /\ Head(mail) = Control("Connect")

\* A session that stopped or is subscribing is not connecting, and only a
\* stopped one was refused its login.
Ended ==
    /\ fsm \in {"Stopped", "Refused"} => connecting = FALSE
    /\ reported = "UnsupportedAuth" => fsm = "Stopped"

(* What the steps of the actor do to fsm, connecting and reported.         *)
LEMMA StageShape ==
    ASSUME TypeOK, ConnectFirst, Ended, ActorStep \/ ConnectFail \/ StoppedByParent
    PROVE  \/ /\ ConnectBegin /\ connecting = FALSE /\ fsm \notin {"Stopped", "Refused"}
           \/ connecting = TRUE /\ connecting' = FALSE
              /\ (\/ fsm' = "AwaitHello" /\ reported' = "Handshaking"
                  \/ fsm' = "Reconnecting" /\ reported' = "Backoff")
           \/ /\ connecting = FALSE /\ connecting' = FALSE
              /\ fsm \notin {"Idle", "Stopped"}
              /\ \/ fsm' = fsm /\ reported' = reported
                 \/ fsm # "Refused" /\ fsm' = "Reconnecting" /\ reported' = "Backoff"
                 \/ fsm = "AwaitHello" /\ fsm' = "AwaitDeviceInfo" /\ reported' = reported
                 \/ fsm = "AwaitDeviceInfo" /\ fsm' = "CollectingEntities" /\ reported' = reported
                 \/ fsm = "AwaitDeviceInfo" /\ fsm' = "Stopped" /\ reported' = "UnsupportedAuth"
                 \/ fsm = "CollectingEntities" /\ fsm' = "Active" /\ reported' = "Active"
                 \/ fsm = "CollectingEntities" /\ fsm' = "Refused" /\ reported' = "Backoff"
                 \/ fsm = "Refused" /\ fsm' = "Active" /\ reported' = "Active"
           \/ /\ connecting = FALSE /\ connecting' = FALSE
              /\ fsm \notin {"Stopped", "Refused"}
              /\ fsm' = "Stopped" /\ reported' = reported
<1>1. ASSUME NEW m, Take(m)
      PROVE  connecting = FALSE /\ fsm \notin {"Stopped", "Refused"}
  BY <1>1 DEF Take, TypeOK
<1>2. ASSUME NEW m, Take(m), m.kind # "Connect"
      PROVE  fsm # "Idle"
  BY <1>1, <1>2 DEF Take, ConnectFirst, Control, Msg
<1>3. CASE ConnectBegin
  BY <1>1, <1>3 DEF ConnectBegin
<1>4. CASE ConnectFail \/ \E c \in Conns : ConnectOk(c)
  BY <1>4 DEF ConnectFail, ConnectOk, schedule_reconnect, TypeOK
<1>5. CASE FrameIgnored
  <2>1. fsm # "Idle"
    BY <1>2, <1>5 DEF FrameIgnored, FrameKinds
  <2> QED
    BY <1>1, <1>5, <2>1 DEF FrameIgnored
<1>6. CASE ReaderClosed
  <2>1. PICK c \in Conns, k \in {"ReaderClosed", "FrameError"} : Take(Msg(k, c, NoEntity))
    BY <1>6 DEF ReaderClosed
  <2>2. connecting = FALSE /\ fsm \notin {"Idle", "Stopped", "Refused"}
    BY <1>1, <1>2, <2>1 DEF Msg
  <2> QED
    BY <1>6, <2>2 DEF ReaderClosed, schedule_reconnect
<1>7. CASE PingTick
  <2>1. connecting = FALSE /\ fsm \notin {"Idle", "Stopped", "Refused"}
    BY <1>1, <1>2, <1>7 DEF PingTick, Control, Msg
  <2> QED
    BY <1>7, <2>1 DEF PingTick, schedule_reconnect
<1>8. CASE StopReceived \/ StoppedByParent
  BY <1>8 DEF StopReceived, StoppedByParent, post_stop, TypeOK
<1>9. CASE \E c \in Conns : \/ HelloReceived(c) \/ DeviceInfoReceived(c)
                           \/ BadDeviceInfoReceived(c)
  BY <1>1, <1>9 DEF HelloReceived, DeviceInfoReceived, BadDeviceInfoReceived, schedule_reconnect
<1>10. CASE \E c \in Conns : PasswordInfoReceived(c)
  BY <1>10 DEF PasswordInfoReceived, post_stop, TypeOK
<1>11. CASE \E c \in Conns : ListDoneNoDevice(c) \/ ListDoneOverCap(c) \/ ListDoneImported(c)
  BY <1>1, <1>11 DEF ListDoneNoDevice, ListDoneOverCap, ListDoneImported, EnterActive
<1>12. CASE \E c \in Conns, e \in Entities : EntityListed(c, e) \/ StateReceived(c, e)
  BY <1>1, <1>12 DEF EntityListed, StateReceived
<1>13. CASE SubscribedRefused
  BY <1>13 DEF SubscribedRefused, EnterActive, Ended
<1> QED
  BY <1>3, <1>4, <1>5, <1>6, <1>7, <1>8, <1>9, <1>10, <1>11, <1>12, <1>13 DEF ActorStep

(* ConnectFirst and Ended are inductive.                                   *)
LEMMA EndedStep ==
    ASSUME TypeOK, ConnectFirst, Ended, [Next]_vars
    PROVE  ConnectFirst' /\ Ended'
<1>1. CASE ActorStep \/ ConnectFail \/ StoppedByParent
  BY <1>1, StageShape DEF ConnectFirst, Ended, ConnectBegin
<1>2. CASE Environment
  <2>1. UNCHANGED <<fsm, connecting, reported>>
    BY <1>2, EnvironmentShape
  <2>2. mail' = mail \/ \E x \in DeviceSessionMsg : mail' = Append(mail, x)
    BY <1>2, EnvironmentShape, MsgTypes DEF Post, ReaderStep, ControlKinds
  <2>3. mail # <<>> => mail' # <<>> /\ Head(mail') = Head(mail)
    BY <2>2 DEF TypeOK
  <2> QED
    BY <2>1, <2>3 DEF ConnectFirst, Ended
<1>3. CASE UNCHANGED vars
  BY <1>3 DEF vars, ConnectFirst, Ended
<1> QED
  BY <1>1, <1>2, <1>3 DEF Next, Environment

(* Every step of the session is a step of the life cycle or a stutter.     *)
LEMMA LifecycleStep ==
    ASSUME TypeOK, ConnectFirst, Ended, [Next]_vars
    PROVE  [Lifecycle!LifecycleNext]_StageOf
<1> USE DEF Lifecycle!LifecycleNext, Lifecycle!Follows, Lifecycle!Stages
<1>1. CASE ActorStep \/ ConnectFail \/ StoppedByParent
  <2>1. fsm \in SessionFsm /\ connecting \in BOOLEAN
    BY DEF TypeOK
  <2>2. CASE ConnectBegin /\ connecting = FALSE /\ fsm \notin {"Stopped", "Refused"}
    BY <2>1, <2>2 DEF ConnectBegin, StageOf, SessionFsm, Connected, Handshake
  <2>3. CASE connecting = TRUE /\ connecting' = FALSE
              /\ fsm' \in {"AwaitHello", "Reconnecting"}
    BY <2>3 DEF StageOf
  <2>4. CASE /\ connecting = FALSE /\ connecting' = FALSE
             /\ fsm' = fsm /\ reported' = reported
    BY <2>4 DEF StageOf
  <2>5. CASE /\ connecting = FALSE /\ connecting' = FALSE
             /\ fsm \notin {"Idle", "Stopped", "Refused"} /\ fsm' = "Reconnecting"
    BY <2>1, <2>5 DEF StageOf, SessionFsm, Connected, Handshake
  <2>6. CASE /\ connecting = FALSE /\ connecting' = FALSE
             /\ \/ fsm = "AwaitHello" /\ fsm' = "AwaitDeviceInfo"
                \/ fsm = "AwaitDeviceInfo" /\ fsm' = "CollectingEntities"
                \/ fsm = "CollectingEntities" /\ fsm' \in {"Active", "Refused"}
                \/ fsm = "Refused" /\ fsm' = "Active"
    BY <2>6 DEF StageOf
  <2>7. CASE /\ connecting = FALSE /\ connecting' = FALSE
             /\ fsm = "AwaitDeviceInfo" /\ fsm' = "Stopped" /\ reported' = "UnsupportedAuth"
    BY <2>7 DEF StageOf
  <2>8. CASE /\ connecting = FALSE /\ connecting' = FALSE
             /\ fsm \notin {"Stopped", "Refused"} /\ fsm' = "Stopped" /\ reported' = reported
    BY <2>1, <2>8 DEF StageOf, SessionFsm, Connected, Handshake, Ended
  <2> QED
    BY <1>1, <2>2, <2>3, <2>4, <2>5, <2>6, <2>7, <2>8, StageShape
<1>2. CASE Environment \/ UNCHANGED vars
  <2>1. UNCHANGED <<fsm, connecting, reported>>
    BY <1>2, EnvironmentShape DEF vars
  <2> QED
    BY <2>1 DEF StageOf
<1> QED
  BY <1>1, <1>2 DEF Next, Environment

(* A device session goes through its stages in the order SessionLifecycle  *)
(* promises: the refinement that DeviceLinkManager relies on.              *)
THEOREM Refinement == Spec => FollowsLifecycle
<1>1. Init => /\ ConnectFirst /\ Ended
              /\ Lifecycle!LifecycleInit
  BY DEF Init, ConnectFirst, Ended, Lifecycle!LifecycleInit, StageOf
<1>2. TypeOK /\ ConnectFirst /\ Ended /\ [Next]_vars => ConnectFirst' /\ Ended'
  BY EndedStep
<1>3. TypeOK /\ ConnectFirst /\ Ended /\ [Next]_vars => [Lifecycle!LifecycleNext]_StageOf
  BY LifecycleStep
<1> QED
  BY <1>1, <1>2, <1>3, TypeCorrect, PTL DEF Spec, FollowsLifecycle, Lifecycle!LifecycleSpec
=============================================================================
