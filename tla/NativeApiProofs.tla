--------------------------- MODULE NativeApiProofs ---------------------------
(***************************************************************************)
(* Proofs about NativeApi: its types, that a watcher never forwards a      *)
(* value the store has replaced, and that the last push to a subscribed    *)
(* client is the entity's state.                                           *)
(***************************************************************************)
EXTENDS NativeApi, TLAPS

HasState(s) == \E i \in 1..Len(s) : s[i].kind = "state"

\* The last state message of a mailbox carries v.
LastState(s, v) ==
    \E i \in 1..Len(s) : /\ s[i].kind = "state" /\ s[i].v = v
                         /\ \A j \in 1..Len(s) : j > i => s[j].kind # "state"

Listening(c) == \E w \in Watchers : watch[c][w] = "listening"

-----------------------------------------------------------------------------
(* The inductive invariant *)

\* A watcher's connection has subscribed, and the store knows the entity.
Placed ==
    \A c \in Conns, w \in Watchers :
        /\ watch[c][w] \in {"spawned", "listening"} => conn[c] = "subscribed"
        /\ watch[c][w] = "listening" => stored # Nothing
        /\ held[c][w] # Nothing => watch[c][w] = "listening"

\* What a watcher holds is the store's state, unless it has to look again.
HeldIsCurrent ==
    \A c \in Conns, w \in Watchers :
        watch[c][w] = "listening" /\ ~unseen[c][w] =>
            held[c][w] \in {Nothing, stored}

\* A state message in a mailbox comes from a watcher that still listens.
Traced == \A c \in Conns : HasState(mail[c]) => Listening(c)

\* Nothing is under way to a connection whose value is not covered.
Uncovered == \A c \in Conns : IF covered[c] THEN conn[c] = "subscribed" ELSE Settled(c)

\* The store's state has reached the client or is on its way, ahead of none.
Reaches ==
    \A c \in Conns : covered[c] /\ stored \in Values =>
        \/ \E w \in Watchers : watch[c][w] = "listening" /\ unseen[c][w]
        \/ \E w \in Watchers : held[c][w] = stored
        \/ LastState(mail[c], stored)
        \/ ~HasState(mail[c]) /\ sent[c] = stored

Feed == Placed /\ PushedIsCurrent /\ HeldIsCurrent /\ Traced /\ Uncovered /\ Reaches
Inv == TypeOK /\ Feed

-----------------------------------------------------------------------------
(* Mailboxes *)

(* A message that is no StateUpdate changes nothing about the states in a  *)
(* mailbox, when it arrives and when it is taken.                          *)
LEMMA OtherMessages ==
    ASSUME NEW s \in Seq(Messages)
    PROVE  /\ \A m \in Messages : m.kind # "state" =>
                 /\ HasState(Append(s, m)) <=> HasState(s)
                 /\ \A v : LastState(Append(s, m), v) <=> LastState(s, v)
           /\ s # <<>> /\ Head(s).kind # "state" =>
                 /\ HasState(Tail(s)) <=> HasState(s)
                 /\ \A v : LastState(Tail(s), v) <=> LastState(s, v)
<1>1. ASSUME NEW m \in Messages, m.kind # "state"
      PROVE  /\ HasState(Append(s, m)) <=> HasState(s)
             /\ \A v : LastState(Append(s, m), v) <=> LastState(s, v)
  <2> DEFINE t == Append(s, m)
  <2>1. /\ Len(s) \in Nat /\ Len(t) = Len(s) + 1 /\ t[Len(s) + 1] = m
        /\ \A i \in 1..Len(s) : t[i] = s[i]
    OBVIOUS
  <2> HIDE DEF t
  <2>2. HasState(t) <=> HasState(s)
    BY <1>1, <2>1 DEF HasState
  <2>3. ASSUME NEW v PROVE LastState(t, v) <=> LastState(s, v)
    <3>1. ASSUME LastState(t, v) PROVE LastState(s, v)
      BY <1>1, <2>1, <3>1 DEF LastState
    <3>2. ASSUME LastState(s, v) PROVE LastState(t, v)
      BY <1>1, <2>1, <3>2 DEF LastState
    <3> QED
      BY <3>1, <3>2
  <2> QED
    BY <2>2, <2>3 DEF t
<1>2. ASSUME s # <<>>, Head(s).kind # "state"
      PROVE  /\ HasState(Tail(s)) <=> HasState(s)
             /\ \A v : LastState(Tail(s), v) <=> LastState(s, v)
  <2> DEFINE t == Tail(s)
  <2>1. /\ Len(t) \in Nat /\ Len(s) = Len(t) + 1 /\ s[1] = Head(s)
        /\ \A i \in 1..Len(t) : t[i] = s[i + 1]
    BY <1>2
  <2> HIDE DEF t
  <2>4. \A i \in 1..Len(s) : i # 1 => i - 1 \in 1..Len(t) /\ s[i] = t[i - 1]
    BY <2>1
  <2>5. \A i \in 1..Len(t) : i + 1 \in 1..Len(s) /\ s[i + 1] = t[i]
    BY <2>1
  <2>2. HasState(t) <=> HasState(s)
    <3>1. ASSUME NEW i \in 1..Len(t), t[i].kind = "state" PROVE HasState(s)
      BY <2>5, <3>1 DEF HasState
    <3>2. ASSUME NEW i \in 1..Len(s), s[i].kind = "state" PROVE HasState(t)
      <4>1. i # 1
        BY <1>2, <2>1, <3>2
      <4> QED
        BY <2>4, <3>2, <4>1 DEF HasState
    <3> QED
      BY <3>1, <3>2 DEF HasState
  <2>3. ASSUME NEW v PROVE LastState(t, v) <=> LastState(s, v)
    <3>1. ASSUME LastState(t, v) PROVE LastState(s, v)
      <4>1. PICK i \in 1..Len(t) :
              /\ t[i].kind = "state" /\ t[i].v = v
              /\ \A j \in 1..Len(t) : j > i => t[j].kind # "state"
        BY <3>1 DEF LastState
      <4>2. i + 1 \in 1..Len(s) /\ s[i + 1].kind = "state" /\ s[i + 1].v = v
        BY <2>5, <4>1
      <4>3. ASSUME NEW j \in 1..Len(s), j > i + 1 PROVE s[j].kind # "state"
        <5>1. j # 1 /\ j - 1 > i
          BY <4>3
        <5> QED
          BY <2>4, <4>1, <5>1
      <4> QED
        BY <4>2, <4>3 DEF LastState
    <3>2. ASSUME LastState(s, v) PROVE LastState(t, v)
      <4>1. PICK i \in 1..Len(s) :
              /\ s[i].kind = "state" /\ s[i].v = v
              /\ \A j \in 1..Len(s) : j > i => s[j].kind # "state"
        BY <3>2 DEF LastState
      <4>2. i # 1
        BY <1>2, <2>1, <4>1
      <4>3. /\ i - 1 \in 1..Len(t) /\ t[i - 1].kind = "state" /\ t[i - 1].v = v
            /\ \A j \in 1..Len(t) : j > i - 1 => t[j].kind # "state"
        BY <2>1, <2>4, <4>1, <4>2
      <4> QED
        BY <4>3 DEF LastState
    <3> QED
      BY <3>1, <3>2
  <2> QED
    BY <2>2, <2>3 DEF t
<1> QED
  BY <1>1, <1>2

(* A StateUpdate that arrives is the last one; the one that is taken was   *)
(* the last, or the last stays.                                            *)
LEMMA StateMessages ==
    ASSUME NEW s \in Seq(Messages)
    PROVE  /\ \A m \in Messages : m.kind = "state" => LastState(Append(s, m), m.v)
           /\ s # <<>> /\ Head(s).kind = "state" =>
                 /\ HasState(s)
                 /\ \A v : LastState(s, v) =>
                       \/ LastState(Tail(s), v)
                       \/ ~HasState(Tail(s)) /\ Head(s).v = v
<1>1. ASSUME NEW m \in Messages, m.kind = "state"
      PROVE  LastState(Append(s, m), m.v)
  <2> DEFINE t == Append(s, m)
  <2>1. /\ Len(s) \in Nat /\ Len(t) = Len(s) + 1 /\ t[Len(s) + 1] = m
    OBVIOUS
  <2> HIDE DEF t
  <2>2. LastState(t, m.v)
    BY <1>1, <2>1 DEF LastState
  <2> QED
    BY <2>2 DEF t
<1>2. ASSUME s # <<>>, Head(s).kind = "state"
      PROVE  /\ HasState(s)
             /\ \A v : LastState(s, v) =>
                   \/ LastState(Tail(s), v)
                   \/ ~HasState(Tail(s)) /\ Head(s).v = v
  <2> DEFINE t == Tail(s)
  <2>1. /\ Len(t) \in Nat /\ Len(s) = Len(t) + 1 /\ s[1] = Head(s)
        /\ \A i \in 1..Len(t) : t[i] = s[i + 1]
    BY <1>2
  <2> HIDE DEF t
  <2>2. HasState(s)
    BY <1>2, <2>1 DEF HasState
  <2>3. ASSUME NEW v, LastState(s, v)
        PROVE  LastState(t, v) \/ (~HasState(t) /\ Head(s).v = v)
    <3>1. PICK i \in 1..Len(s) :
            /\ s[i].kind = "state" /\ s[i].v = v
            /\ \A j \in 1..Len(s) : j > i => s[j].kind # "state"
      BY <2>3 DEF LastState
    <3>2. CASE i = 1
      <4>1. \A j \in 1..Len(t) : t[j].kind # "state"
        BY <2>1, <3>1, <3>2
      <4> QED
        BY <2>1, <3>1, <3>2, <4>1 DEF HasState
    <3>3. CASE i # 1
      <4>1. /\ i - 1 \in 1..Len(t) /\ t[i - 1].kind = "state" /\ t[i - 1].v = v
            /\ \A j \in 1..Len(t) : j > i - 1 => t[j].kind # "state"
        BY <2>1, <3>1, <3>3
      <4> QED
        BY <4>1 DEF LastState
    <3> QED
      BY <3>2, <3>3
  <2> QED
    BY <2>2, <2>3 DEF t
<1> QED
  BY <1>1, <1>2

(* A mailbox whose last state is known has a state.                        *)
LEMMA LastIsState == \A s, v : LastState(s, v) => HasState(s)
  BY DEF LastState, HasState

-----------------------------------------------------------------------------
(* Types *)

(* What is posted to a mailbox is a Message, of the kind it was made for.  *)
LEMMA PostedTypes ==
    /\ \A k \in FrameKinds \cup {"tick", "closed"} :
          Msg(k) \in Messages /\ Msg(k).kind = k /\ Msg(k).kind # "state"
    /\ \A v \in States : /\ StateUpdate(v) \in Messages
                         /\ StateUpdate(v).kind = "state" /\ StateUpdate(v).v = v
  BY DEF Msg, StateUpdate, Messages, FrameKinds

(* The message at the head of a mailbox, and the rest of it.               *)
LEMMA HeadTypes ==
    ASSUME TypeOK, NEW c \in Conns, mail[c] # <<>>
    PROVE  /\ mail[c] \in Seq(Messages) /\ Tail(mail[c]) \in Seq(Messages)
           /\ Head(mail[c]) \in Messages
           /\ Head(mail[c]).kind = "state" => Head(mail[c]).v \in States
<1>1. mail[c] \in Seq(Messages)
  BY DEF TypeOK
<1>2. Head(mail[c]) \in Messages /\ Tail(mail[c]) \in Seq(Messages)
  BY <1>1
<1>3. Head(mail[c]).kind = "state" => Head(mail[c]).v \in States
  BY <1>2 DEF Messages, FrameKinds
<1> QED
  BY <1>1, <1>2, <1>3

(* The end of an actor keeps the types.                                    *)
LEMMA EndsTypes ==
    ASSUME TypeOK, NEW c \in Conns, Ends(c),
           UNCHANGED <<serverVars, storeVars, reading, asking>>
    PROVE  TypeOK'
<1>1. watch' \in [Conns -> [Watchers ->
                    {"unused", "spawned", "listening", "aborted", "ended"}]]
  BY DEF TypeOK, Ends, post_stop
<1>2. mail' \in [Conns -> Seq(Messages)]
  BY DEF TypeOK, Ends
<1>3. /\ unseen' \in [Conns -> [Watchers -> BOOLEAN]]
      /\ held' \in [Conns -> [Watchers -> States \cup {Nothing}]]
  BY DEF TypeOK, Ends
<1> QED
  BY <1>1, <1>2, <1>3 DEF TypeOK, Ends, serverVars, storeVars, LiveStates

(* Init has the types.                                                     *)
LEMMA InitTypes == Init => TypeOK
<1> SUFFICES ASSUME Init PROVE TypeOK
  OBVIOUS
<1>1. /\ <<>> \in Seq(Messages) /\ "none" \in {"none", "queued", "refused", "dropped", "stopped"}
  OBVIOUS
<1>2. /\ mail \in [Conns -> Seq(Messages)] /\ slots \in SUBSET Conns
      /\ conn \in [Conns -> {"none", "queued", "refused", "dropped", "stopped"}
                            \cup LiveStates]
  BY <1>1 DEF Init
<1>3. /\ watch \in [Conns -> [Watchers ->
                      {"unused", "spawned", "listening", "aborted", "ended"}]]
      /\ unseen \in [Conns -> [Watchers -> BOOLEAN]]
      /\ held \in [Conns -> [Watchers -> States \cup {Nothing}]]
  BY DEF Init
<1>4. /\ server \in {"new", "up", "down"} /\ accepting \in BOOLEAN
      /\ told \in [Conns -> BOOLEAN] /\ reading \in [Conns -> BOOLEAN]
      /\ idle \in [Conns -> BOOLEAN] /\ covered \in [Conns -> BOOLEAN]
      /\ asking \in [Conns -> {"none", "open", "lost"}]
      /\ stored \in States \cup {Nothing} /\ chan \in States \cup {Nothing}
      /\ sent \in [Conns -> Values \cup {Nothing}]
  BY DEF Init
<1> QED
  BY <1>2, <1>3, <1>4 DEF TypeOK

(* The fate of a question keeps the types.                                 *)
LEMMA AskTypes ==
    ASSUME TypeOK, NEW c \in Conns, NEW to \in {"none", "lost"}, AskBecomes(c, to)
    PROVE  TypeOK'
<1>1. asking' \in [Conns -> {"none", "open", "lost"}]
  BY DEF TypeOK, AskBecomes
<1>2. UNCHANGED <<serverVars, storeVars, watchVars, conn, told, mail, reading,
                  idle, sent, covered>>
  BY DEF AskBecomes
<1> QED
  BY <1>1, <1>2 DEF TypeOK, serverVars, storeVars, watchVars

(* Every step keeps the types.                                             *)
LEMMA NextTypes == TypeOK /\ [Next]_vars => TypeOK'
<1> SUFFICES ASSUME TypeOK, [Next]_vars PROVE TypeOK'
  OBVIOUS
<1> USE DEF serverVars, storeVars, watchVars, connVars
<1>1. CASE Start
  BY <1>1 DEF TypeOK, Start
<1>2. CASE Stop
  BY <1>2 DEF TypeOK, Stop, Live, LiveStates
<1>3. ASSUME NEW v \in States, update(v) PROVE TypeOK'
  <2>1. unseen' \in [Conns -> [Watchers -> BOOLEAN]]
    BY <1>3 DEF update
  <2> QED
    BY <1>3, <2>1 DEF TypeOK, update
<1>4. ASSUME NEW c \in Conns, Accept(c) \/ NewConnection(c) PROVE TypeOK'
  <2>1. /\ conn' \in [Conns -> {"none", "queued", "refused", "dropped", "stopped"}
                               \cup LiveStates]
        /\ slots' \in SUBSET Conns /\ reading' \in [Conns -> BOOLEAN]
        /\ server' = server /\ accepting' \in BOOLEAN
    <3>1. CASE Accept(c)
      BY <3>1 DEF TypeOK, Accept
    <3>2. CASE NewConnection(c)
      <4>1. /\ server' = server /\ accepting' = accepting
            /\ \/ conn' = [conn EXCEPT ![c] = "refused"] /\ UNCHANGED <<slots, reading>>
               \/ Admit(c)
        BY <3>2 DEF NewConnection
      <4> QED
        BY <4>1 DEF TypeOK, Admit, LiveStates
    <3> QED
      BY <1>4, <3>1, <3>2
  <2>2. UNCHANGED <<told, mail, idle, asking, sent, storeVars, watchVars, covered>>
    BY <1>4 DEF Accept, NewConnection
  <2> QED
    BY <2>1, <2>2 DEF TypeOK
<1>5. ASSUME NEW c \in Conns,
             \/ \E kind \in Frames : ReadFrame(c, kind)
             \/ ReaderEnds(c) \/ Tick(c) \/ Silence(c)
      PROVE TypeOK'
  <2>1. \A k \in FrameKinds \cup {"tick", "closed"} :
            Append(mail[c], Msg(k)) \in Seq(Messages)
    BY PostedTypes DEF TypeOK
  <2>2. mail' \in [Conns -> Seq(Messages)]
    <3>1. \/ mail' = mail
          \/ \E k \in FrameKinds \cup {"tick", "closed"} :
                mail' = [mail EXCEPT ![c] = Append(@, Msg(k))]
      BY <1>5, ConstantsAssumption DEF ReadFrame, ReaderEnds, Tick, Silence
    <3> QED
      BY <2>1, <3>1 DEF TypeOK
  <2> QED
    BY <1>5, <2>2 DEF TypeOK, ReadFrame, ReaderEnds, Tick, Silence
<1>6. ASSUME NEW c \in Conns, NEW w \in Watchers, WatcherRuns(c, w) PROVE TypeOK'
  <2>1. CASE WatcherSubscribes(c, w)
    BY <2>1 DEF TypeOK, WatcherSubscribes, States
  <2>2. CASE WatcherSees(c, w)
    BY <2>2 DEF TypeOK, WatcherSees
  <2>3. CASE WatcherSends(c, w)
    <3>1. Append(mail[c], StateUpdate(held[c][w])) \in Seq(Messages)
      BY <2>3, PostedTypes DEF TypeOK, WatcherSends
    <3> QED
      BY <2>3, <3>1 DEF TypeOK, WatcherSends
  <2>4. CASE WatcherDropped(c, w)
    BY <2>4 DEF TypeOK, WatcherDropped
  <2> QED
    BY <1>6, <2>1, <2>2, <2>3, <2>4 DEF WatcherRuns
<1>7. ASSUME NEW c \in Conns, Handle(c) PROVE TypeOK'
  <2>1. CASE HandleEarlyFrame(c) \/ HandleDisconnect(c) \/ HandleReaderClosed(c)
    BY <2>1, EndsTypes DEF HandleEarlyFrame, HandleDisconnect, HandleReaderClosed
  <2>2. CASE HandleHello(c) \/ HandleOther(c)
    <3>1. mail' \in [Conns -> Seq(Messages)]
      <4>1. mail[c] # <<>> /\ mail' = [mail EXCEPT ![c] = Tail(mail[c])]
        BY <2>2 DEF HandleHello, HandleOther, Takes, Continues
      <4>2. Tail(mail[c]) \in Seq(Messages)
        BY <4>1, HeadTypes
      <4> QED
        BY <4>1, <4>2 DEF TypeOK
    <3> QED
      BY <2>2, <3>1 DEF TypeOK, HandleHello, HandleOther, LiveStates
  <2>6. CASE HandleAsk(c)
    <3>1. mail' \in [Conns -> Seq(Messages)]
      BY <2>6, HeadTypes DEF HandleAsk, Takes, Continues, TypeOK
    <3> QED
      BY <2>6, <3>1 DEF TypeOK, HandleAsk
  <2>7. CASE Answered(c)
    BY <2>7, AskTypes DEF Answered
  <2>3. CASE HandleSubscribe(c)
    <3>1. mail' \in [Conns -> Seq(Messages)]
      BY <2>3, HeadTypes DEF HandleSubscribe, Takes, Continues, TypeOK
    <3>2. sent' \in [Conns -> Values \cup {Nothing}]
      BY <2>3 DEF HandleSubscribe, Push, TypeOK
    <3>3. watch' \in [Conns -> [Watchers ->
                    {"unused", "spawned", "listening", "aborted", "ended"}]]
      BY <2>3 DEF HandleSubscribe, TypeOK
    <3> QED
      BY <2>3, <3>1, <3>2, <3>3 DEF TypeOK, HandleSubscribe, LiveStates
  <2>4. CASE HandleStateUpdate(c)
    <3>1. mail' \in [Conns -> Seq(Messages)]
      BY <2>4, HeadTypes DEF HandleStateUpdate, Takes, Continues, TypeOK
    <3>2. sent' \in [Conns -> Values \cup {Nothing}]
      BY <2>4 DEF HandleStateUpdate, Push, TypeOK
    <3> QED
      BY <2>4, <3>1, <3>2 DEF TypeOK, HandleStateUpdate
  <2>5. CASE HandleTick(c)
    <3>1. CASE Ends(c)
      BY <2>5, <3>1, EndsTypes DEF HandleTick
    <3>2. CASE KeepsOn(c)
      <4>1. mail' \in [Conns -> Seq(Messages)]
        BY <2>5, <3>2, HeadTypes DEF HandleTick, KeepsOn, Takes, Continues, TypeOK
      <4> QED
        BY <2>5, <3>2, <4>1 DEF TypeOK, HandleTick, KeepsOn
    <3> QED
      BY <2>5, <3>1, <3>2 DEF HandleTick
  <2> QED
    BY <1>7, <2>1, <2>2, <2>3, <2>4, <2>5, <2>6, <2>7 DEF Handle
<1>8. ASSUME NEW c \in Conns, StopSignal(c) \/ QuestionLost(c) PROVE TypeOK'
  BY <1>8, EndsTypes, AskTypes DEF StopSignal, QuestionLost
<1>9. CASE UNCHANGED vars
  BY <1>9 DEF TypeOK, vars
<1> QED
  BY <1>1, <1>2, <1>3, <1>4, <1>5, <1>6, <1>7, <1>8, <1>9 DEF Next

-----------------------------------------------------------------------------
(* The feed *)

\* The states in the mailboxes, and who is subscribed, are as before.
SameStates ==
    \A c \in Conns :
        /\ HasState(mail'[c]) <=> HasState(mail[c])
        /\ \A v : LastState(mail'[c], v) <=> LastState(mail[c], v)
        /\ conn'[c] = "subscribed" <=> conn[c] = "subscribed"

(* A step that touches neither the store, nor the watchers, nor the states *)
(* in a mailbox keeps the feed's invariant.                                *)
LEMMA QuietStep ==
    ASSUME Inv, SameStates,
           UNCHANGED <<storeVars, watchVars, sent, covered>>
    PROVE  Feed'
<1> USE DEF storeVars, watchVars
<1>1. Placed'
  BY DEF Inv, Feed, Placed, SameStates
<1>2. PushedIsCurrent' /\ HeldIsCurrent'
  BY DEF Inv, Feed, PushedIsCurrent, HeldIsCurrent
<1>3. Traced'
  BY DEF Inv, Feed, Traced, Listening, SameStates
<1>4. Uncovered'
  BY DEF Inv, Feed, Uncovered, Settled, Pending, HasState, SameStates
<1>5. Reaches'
  BY DEF Inv, Feed, Reaches, SameStates
<1> QED
  BY <1>1, <1>2, <1>3, <1>4, <1>5 DEF Feed

(* A message that is no StateUpdate arrives at a mailbox, or is taken.     *)
LEMMA SameMail ==
    ASSUME TypeOK, NEW c \in Conns,
           \/ \E k \in FrameKinds \cup {"tick", "closed"} :
                 mail' = [mail EXCEPT ![c] = Append(@, Msg(k))]
           \/ /\ mail[c] # <<>> /\ Head(mail[c]).kind # "state"
              /\ mail' = [mail EXCEPT ![c] = Tail(@)]
    PROVE  \A d \in Conns :
               /\ HasState(mail'[d]) <=> HasState(mail[d])
               /\ \A v : LastState(mail'[d], v) <=> LastState(mail[d], v)
<1>1. mail[c] \in Seq(Messages) /\ mail \in [Conns -> Seq(Messages)]
  BY DEF TypeOK
<1>2. \A d \in Conns : d # c => mail'[d] = mail[d]
  BY <1>1
<1>3. CASE \E k \in FrameKinds \cup {"tick", "closed"} :
              mail' = [mail EXCEPT ![c] = Append(@, Msg(k))]
  <2>1. PICK k \in FrameKinds \cup {"tick", "closed"} : mail'[c] = Append(mail[c], Msg(k))
    BY <1>1, <1>3
  <2>2. Msg(k) \in Messages /\ Msg(k).kind # "state"
    BY PostedTypes
  <2>3. \A m \in Messages : m.kind # "state" =>
            /\ HasState(Append(mail[c], m)) <=> HasState(mail[c])
            /\ \A v : LastState(Append(mail[c], m), v) <=> LastState(mail[c], v)
    BY <1>1, OtherMessages
  <2>4. /\ HasState(mail'[c]) <=> HasState(mail[c])
        /\ \A v : LastState(mail'[c], v) <=> LastState(mail[c], v)
    BY <2>1, <2>2, <2>3, Zenon
  <2> QED
    BY <1>2, <2>4
<1>4. CASE /\ mail[c] # <<>> /\ Head(mail[c]).kind # "state"
           /\ mail' = [mail EXCEPT ![c] = Tail(@)]
  <2>1. mail'[c] = Tail(mail[c])
    BY <1>1, <1>4
  <2> QED
    BY <1>1, <1>2, <1>4, <2>1, OtherMessages
<1> QED
  BY <1>3, <1>4

(* The end of an actor takes its part of the feed away.                    *)
LEMMA EndsFeed ==
    ASSUME Inv, NEW c \in Conns, Ends(c),
           UNCHANGED <<serverVars, storeVars, reading>>
    PROVE  Feed'
<1> USE DEF storeVars
<1>1. /\ \A d \in Conns : d # c =>
            /\ conn'[d] = conn[d] /\ mail'[d] = mail[d] /\ sent'[d] = sent[d]
            /\ covered'[d] = covered[d] /\ watch'[d] = watch[d]
            /\ unseen'[d] = unseen[d] /\ held'[d] = held[d]
      /\ mail'[c] = <<>> /\ covered'[c] = FALSE
  BY DEF Inv, TypeOK, Ends, post_stop
<1>2. \A w \in Watchers :
        /\ watch'[c][w] \notin {"spawned", "listening"}
        /\ ~unseen'[c][w] /\ held'[c][w] = Nothing
  BY DEF Inv, TypeOK, Ends, post_stop
<1>3. ~HasState(mail'[c])
  BY <1>1 DEF HasState
<1>4. Placed'
  BY <1>1, <1>2 DEF Inv, Feed, Placed
<1>5. PushedIsCurrent' /\ HeldIsCurrent'
  BY <1>1, <1>2 DEF Inv, Feed, PushedIsCurrent, HeldIsCurrent
<1>6. Traced'
  BY <1>1, <1>3 DEF Inv, Feed, Traced, Listening
<1>7. Uncovered'
  BY <1>1, <1>2, <1>3 DEF Inv, Feed, Uncovered, Settled, Pending, HasState
<1>8. Reaches'
  BY <1>1 DEF Inv, Feed, Reaches
<1> QED
  BY <1>4, <1>5, <1>6, <1>7, <1>8 DEF Feed

(* An update wakes every watcher that listens; a connection without one    *)
(* has nothing under way.                                                  *)
LEMMA UpdateFeed ==
    ASSUME Inv, NEW v \in States, update(v)
    PROVE  Feed'
<1> USE DEF connVars
<1>1. /\ stored' = v /\ conn' = conn /\ mail' = mail /\ sent' = sent
      /\ watch' = watch /\ held' = held
      /\ \A c \in Conns : covered'[c] = Listening(c)
      /\ \A c \in Conns, w \in Watchers :
            unseen'[c][w] = (unseen[c][w] \/ watch[c][w] = "listening")
  BY DEF update, Listening
<1>2. \A c \in Conns : Listening(c) => chan' = v
  BY DEF update, Listening, HasReceiver, Receives
<1>3. v # Nothing
  BY ConstantsAssumption DEF States
<1>4. Placed'
  BY <1>1, <1>3 DEF Inv, Feed, Placed
<1>5. PushedIsCurrent'
  BY <1>1, <1>2 DEF PushedIsCurrent, Listening
<1>6. HeldIsCurrent'
  BY <1>1 DEF HeldIsCurrent
<1>7. Traced'
  BY <1>1 DEF Inv, Feed, Traced, Listening
<1>8. Uncovered'
  <2> SUFFICES ASSUME NEW c \in Conns
               PROVE  IF covered'[c] THEN conn'[c] = "subscribed" ELSE Settled(c)'
    BY DEF Uncovered
  <2>1. CASE Listening(c)
    BY <1>1, <2>1 DEF Inv, Feed, Placed, Listening
  <2>2. CASE ~Listening(c)
    <3>1. ~HasState(mail[c]) /\ \A w \in Watchers : held[c][w] = Nothing
      BY <2>2 DEF Inv, Feed, Traced, Placed, Listening
    <3> QED
      BY <1>1, <2>2, <3>1 DEF Settled, Pending, HasState, Listening
  <2> QED
    BY <2>1, <2>2
<1>9. Reaches'
  BY <1>1 DEF Reaches, Listening
<1> QED
  BY <1>4, <1>5, <1>6, <1>7, <1>8, <1>9 DEF Feed

(* A new receiver has seen what is in the channel, and the placeholder it  *)
(* may create is the entity's first state.                                 *)
LEMMA WatcherSubscribesFeed ==
    ASSUME Inv, NEW c \in Conns, NEW w \in Watchers, WatcherSubscribes(c, w)
    PROVE  Feed'
<1> USE DEF connVars
<1>1. /\ conn' = conn /\ mail' = mail /\ sent' = sent /\ held' = held
      /\ chan' = chan /\ covered' = covered /\ watch[c][w] = "spawned"
      /\ stored # Nothing => stored' = stored
      /\ stored' # Nothing
      /\ stored' \in Values => stored' = stored
  BY ConstantsAssumption DEF WatcherSubscribes
<1>2. /\ watch'[c][w] = "listening" /\ ~unseen'[c][w]
      /\ \A d \in Conns, u \in Watchers : <<d, u>> # <<c, w>> =>
            watch'[d][u] = watch[d][u] /\ unseen'[d][u] = unseen[d][u]
  BY DEF WatcherSubscribes, Inv, TypeOK
<1>3. held[c][w] = Nothing
  BY <1>1 DEF Inv, Feed, Placed
<1>4. Placed'
  BY <1>1, <1>2, <1>3 DEF Inv, Feed, Placed
<1>5. PushedIsCurrent'
  BY <1>1, <1>2 DEF Inv, Feed, Placed, PushedIsCurrent
<1>6. HeldIsCurrent'
  BY <1>1, <1>2, <1>3 DEF Inv, Feed, Placed, HeldIsCurrent
<1>7. Traced'
  BY <1>1, <1>2 DEF Inv, Feed, Traced, Listening
<1>8. Uncovered'
  BY <1>1, <1>2 DEF Inv, Feed, Uncovered, Settled, Pending
<1>9. Reaches'
  BY <1>1, <1>2 DEF Inv, Feed, Reaches
<1> QED
  BY <1>4, <1>5, <1>6, <1>7, <1>8, <1>9 DEF Feed

(* A watcher that looks takes the store's state.                           *)
LEMMA WatcherSeesFeed ==
    ASSUME Inv, NEW c \in Conns, NEW w \in Watchers, WatcherSees(c, w)
    PROVE  Feed'
<1> USE DEF connVars, storeVars
<1>1. /\ conn' = conn /\ mail' = mail /\ sent' = sent /\ watch' = watch
      /\ chan' = chan /\ covered' = covered /\ stored' = stored
      /\ watch[c][w] = "listening" /\ unseen[c][w]
  BY DEF WatcherSees
<1>2. chan = stored /\ covered[c]
  BY <1>1 DEF Inv, Feed, PushedIsCurrent, Uncovered, Settled
<1>3. /\ held'[c][w] = stored /\ ~unseen'[c][w]
      /\ \A d \in Conns, u \in Watchers : <<d, u>> # <<c, w>> =>
            held'[d][u] = held[d][u] /\ unseen'[d][u] = unseen[d][u]
  BY <1>2 DEF WatcherSees, Inv, TypeOK
<1>4. Placed'
  BY <1>1, <1>3 DEF Inv, Feed, Placed
<1>5. PushedIsCurrent'
  BY <1>1, <1>3 DEF Inv, Feed, PushedIsCurrent
<1>6. HeldIsCurrent'
  BY <1>1, <1>3 DEF Inv, Feed, HeldIsCurrent
<1>7. Traced'
  BY <1>1 DEF Inv, Feed, Traced, Listening
<1>8. Uncovered'
  BY <1>1, <1>2, <1>3 DEF Inv, Feed, Uncovered, Settled, Pending
<1>9. Reaches'
  BY <1>1, <1>3 DEF Inv, Feed, Reaches
<1> QED
  BY <1>4, <1>5, <1>6, <1>7, <1>8, <1>9 DEF Feed

(* What a watcher sends is the store's state, or it will look again.       *)
LEMMA WatcherSendsFeed ==
    ASSUME Inv, NEW c \in Conns, NEW w \in Watchers, WatcherSends(c, w)
    PROVE  Feed'
<1> USE DEF storeVars
<1>1. /\ conn' = conn /\ sent' = sent /\ watch' = watch /\ unseen' = unseen
      /\ chan' = chan /\ covered' = covered /\ stored' = stored
      /\ watch[c][w] = "listening" /\ held[c][w] # Nothing
  BY DEF WatcherSends
<1>2. /\ held'[c][w] = Nothing /\ mail'[c] = Append(mail[c], StateUpdate(held[c][w]))
      /\ \A d \in Conns, u \in Watchers : <<d, u>> # <<c, w>> => held'[d][u] = held[d][u]
      /\ \A d \in Conns : d # c => mail'[d] = mail[d]
      /\ mail[c] \in Seq(Messages)
  BY DEF WatcherSends, Inv, TypeOK
<1>3. LastState(mail'[c], held[c][w])
  <2>1. held[c][w] \in States
    BY <1>1 DEF Inv, TypeOK
  <2>2. /\ StateUpdate(held[c][w]) \in Messages /\ StateUpdate(held[c][w]).kind = "state"
        /\ StateUpdate(held[c][w]).v = held[c][w]
    BY <2>1, PostedTypes
  <2>3. \A m \in Messages : m.kind = "state" => LastState(Append(mail[c], m), m.v)
    BY <1>2, StateMessages
  <2> QED
    BY <1>2, <2>2, <2>3, Zenon
<1>4. covered[c]
  BY <1>1 DEF Inv, Feed, Uncovered, Settled
<1>5. Placed'
  BY <1>1, <1>2 DEF Inv, Feed, Placed
<1>6. PushedIsCurrent'
  BY <1>1 DEF Inv, Feed, PushedIsCurrent
<1>7. HeldIsCurrent'
  BY <1>1, <1>2 DEF Inv, Feed, HeldIsCurrent
<1>8. Traced'
  BY <1>1, <1>2 DEF Inv, Feed, Traced, Listening
<1>9. Uncovered'
  BY <1>1, <1>2, <1>4, SMTT(30) DEF Inv, Feed, Uncovered, Settled, Pending
<1>10. Reaches'
  <2> SUFFICES ASSUME NEW d \in Conns, covered[d], stored \in Values
               PROVE  \/ \E u \in Watchers : watch[d][u] = "listening" /\ unseen[d][u]
                      \/ \E u \in Watchers : held'[d][u] = stored
                      \/ LastState(mail'[d], stored)
                      \/ ~HasState(mail'[d]) /\ sent[d] = stored
    BY <1>1 DEF Reaches
  <2>1. CASE d # c
    BY <1>2, <2>1 DEF Inv, Feed, Reaches
  <2>2. CASE d = c /\ unseen[c][w]
    BY <1>1, <2>2
  <2>3. CASE d = c /\ ~unseen[c][w]
    <3>1. held[c][w] = stored
      BY <1>1, <2>3 DEF Inv, Feed, HeldIsCurrent
    <3> QED
      BY <1>3, <2>3, <3>1
  <2> QED
    BY <2>1, <2>2, <2>3
<1> QED
  BY <1>5, <1>6, <1>7, <1>8, <1>9, <1>10 DEF Feed

(* Dropping an aborted task changes nothing.                               *)
LEMMA WatcherDroppedFeed ==
    ASSUME Inv, NEW c \in Conns, NEW w \in Watchers, WatcherDropped(c, w)
    PROVE  Feed'
<1> USE DEF connVars, storeVars
<1>1. /\ conn' = conn /\ mail' = mail /\ sent' = sent /\ held' = held
      /\ unseen' = unseen /\ chan' = chan /\ covered' = covered /\ stored' = stored
  BY DEF WatcherDropped
<1>2. /\ watch[c][w] = "aborted" /\ watch'[c][w] = "ended"
      /\ \A d \in Conns, u \in Watchers : <<d, u>> # <<c, w>> =>
            watch'[d][u] = watch[d][u]
  BY DEF WatcherDropped, Inv, TypeOK
<1>3. \A d \in Conns, u \in Watchers :
         /\ watch'[d][u] = "listening" <=> watch[d][u] = "listening"
         /\ watch'[d][u] = "spawned" <=> watch[d][u] = "spawned"
  BY <1>2
<1>4. Placed'
  BY <1>1, <1>3 DEF Inv, Feed, Placed
<1>5. PushedIsCurrent' /\ HeldIsCurrent'
  BY <1>1, <1>3 DEF Inv, Feed, PushedIsCurrent, HeldIsCurrent
<1>6. Traced'
  BY <1>1, <1>3 DEF Inv, Feed, Traced, Listening
<1>7. Uncovered'
  BY <1>1, <1>3 DEF Inv, Feed, Uncovered, Settled, Pending
<1>8. Reaches'
  BY <1>1, <1>3 DEF Inv, Feed, Reaches
<1> QED
  BY <1>4, <1>5, <1>6, <1>7, <1>8 DEF Feed

(* SubscribeStates pushes the store's state; older pushes that are under   *)
(* way to the client already end with it.                                  *)
LEMMA HandleSubscribeFeed ==
    ASSUME Inv, NEW c \in Conns, HandleSubscribe(c)
    PROVE  Feed'
<1> USE DEF storeVars
<1>1. /\ unseen' = unseen /\ held' = held /\ chan' = chan /\ stored' = stored
      /\ mail[c] # <<>> /\ Head(mail[c]).kind # "state"
      /\ mail' = [mail EXCEPT ![c] = Tail(@)]
  BY DEF HandleSubscribe, Takes, Continues
<1>2. \A d \in Conns :
         /\ HasState(mail'[d]) <=> HasState(mail[d])
         /\ \A v : LastState(mail'[d], v) <=> LastState(mail[d], v)
  BY <1>1, SameMail DEF Inv
<1>3. /\ conn'[c] = "subscribed" /\ covered'[c]
      /\ stored \in Values => sent'[c] = stored
      /\ \A d \in Conns : d # c =>
            conn'[d] = conn[d] /\ covered'[d] = covered[d] /\ sent'[d] = sent[d]
  BY DEF HandleSubscribe, Push, Inv, TypeOK
<1>4. \A d \in Conns, u \in Watchers :
         /\ watch'[d][u] = "listening" <=> watch[d][u] = "listening"
         /\ d # c => watch'[d][u] = watch[d][u]
  BY DEF HandleSubscribe, FirstUnused, Inv, TypeOK
<1>5. Placed'
  BY <1>1, <1>3, <1>4 DEF Inv, Feed, Placed
<1>6. PushedIsCurrent' /\ HeldIsCurrent'
  BY <1>1, <1>4 DEF Inv, Feed, PushedIsCurrent, HeldIsCurrent
<1>7. Traced'
  BY <1>2, <1>4 DEF Inv, Feed, Traced, Listening
<1>8. Uncovered'
  BY <1>1, <1>2, <1>3, <1>4 DEF Inv, Feed, Uncovered, Settled, Pending, HasState
<1>9. Reaches'
  <2> SUFFICES ASSUME NEW d \in Conns, covered'[d], stored \in Values
               PROVE  \/ \E u \in Watchers : watch'[d][u] = "listening" /\ unseen[d][u]
                      \/ \E u \in Watchers : held[d][u] = stored
                      \/ LastState(mail'[d], stored)
                      \/ ~HasState(mail'[d]) /\ sent'[d] = stored
    BY <1>1 DEF Reaches
  <2>1. CASE covered[d]
    <3>1. \/ \E u \in Watchers : watch[d][u] = "listening" /\ unseen[d][u]
          \/ \E u \in Watchers : held[d][u] = stored
          \/ LastState(mail[d], stored)
          \/ ~HasState(mail[d]) /\ sent[d] = stored
      BY <2>1 DEF Inv, Feed, Reaches
    <3> QED
      BY <1>2, <1>3, <1>4, <3>1
  <2>2. CASE ~covered[d]
    <3>1. d = c
      BY <1>3, <2>2
    <3>2. ~HasState(mail[c])
      BY <2>2, <3>1 DEF Inv, Feed, Uncovered, Settled, Pending, HasState
    <3> QED
      BY <1>2, <1>3, <3>1, <3>2
  <2> QED
    BY <2>1, <2>2
<1> QED
  BY <1>5, <1>6, <1>7, <1>8, <1>9 DEF Feed

(* The last StateUpdate taken from a mailbox is the last frame.            *)
LEMMA HandleStateUpdateFeed ==
    ASSUME Inv, NEW c \in Conns, HandleStateUpdate(c)
    PROVE  Feed'
<1> USE DEF storeVars, watchVars
<1>1. /\ conn' = conn /\ covered' = covered /\ stored' = stored /\ chan' = chan
      /\ watch' = watch /\ unseen' = unseen /\ held' = held
      /\ mail[c] # <<>> /\ Head(mail[c]).kind = "state"
  BY DEF HandleStateUpdate, Takes
<1>2. /\ mail[c] \in Seq(Messages) /\ mail'[c] = Tail(mail[c])
      /\ \A d \in Conns : d # c => mail'[d] = mail[d] /\ sent'[d] = sent[d]
  BY DEF HandleStateUpdate, Continues, Push, Inv, TypeOK
<1>3. /\ HasState(mail[c])
      /\ \A v : LastState(mail[c], v) =>
            \/ LastState(mail'[c], v)
            \/ ~HasState(mail'[c]) /\ Head(mail[c]).v = v
  BY <1>1, <1>2, StateMessages
<1>4. Listening(c)
  BY <1>3 DEF Inv, Feed, Traced
<1>5. conn[c] = "subscribed"
  BY <1>4 DEF Inv, Feed, Placed, Listening
<1>6. covered[c]
  BY <1>3 DEF Inv, Feed, Uncovered, Settled, Pending, HasState
<1>7. Placed' /\ PushedIsCurrent' /\ HeldIsCurrent'
  BY <1>1 DEF Inv, Feed, Placed, PushedIsCurrent, HeldIsCurrent
<1>8. Traced'
  BY <1>1, <1>2, <1>4 DEF Inv, Feed, Traced, Listening
<1>9. Uncovered'
  BY <1>1, <1>2, <1>6 DEF Inv, Feed, Uncovered, Settled, Pending
<1>10. Reaches'
  <2> SUFFICES ASSUME NEW d \in Conns, covered[d], stored \in Values
               PROVE  \/ \E u \in Watchers : watch[d][u] = "listening" /\ unseen[d][u]
                      \/ \E u \in Watchers : held[d][u] = stored
                      \/ LastState(mail'[d], stored)
                      \/ ~HasState(mail'[d]) /\ sent'[d] = stored
    BY <1>1 DEF Reaches
  <2>1. \/ \E u \in Watchers : watch[d][u] = "listening" /\ unseen[d][u]
        \/ \E u \in Watchers : held[d][u] = stored
        \/ LastState(mail[d], stored)
        \/ ~HasState(mail[d]) /\ sent[d] = stored
    BY DEF Inv, Feed, Reaches
  <2>2. CASE d # c
    BY <1>2, <2>1, <2>2
  <2>3. CASE d = c /\ LastState(mail[c], stored)
    <3>1. Head(mail[c]).v = stored => sent'[c] = stored
      BY <1>5 DEF HandleStateUpdate, Push, Inv, TypeOK
    <3> QED
      BY <1>3, <2>3, <3>1
  <2> QED
    BY <1>3, <2>1, <2>2, <2>3
<1> QED
  BY <1>7, <1>8, <1>9, <1>10 DEF Feed

-----------------------------------------------------------------------------
(* Every step keeps the feed's invariant.                                  *)
LEMMA NextFeed == Inv /\ [Next]_vars => Feed'
<1> SUFFICES ASSUME Inv, [Next]_vars PROVE Feed'
  OBVIOUS
<1>1. CASE Start \/ Stop \/ UNCHANGED vars
  <2>1. SameStates
    BY <1>1 DEF Start, Stop, vars, connVars, SameStates, Inv, TypeOK
  <2>2. UNCHANGED <<storeVars, watchVars, sent, covered>>
    BY <1>1 DEF Start, Stop, vars, connVars
  <2> QED
    BY <2>1, <2>2, QuietStep
<1>2. ASSUME NEW c \in Conns, Accept(c) \/ NewConnection(c) \/ Silence(c) PROVE Feed'
  <2>1. SameStates
    <3>1. mail' = mail /\ \A d \in Conns : d # c => conn'[d] = conn[d]
      BY <1>2 DEF Accept, NewConnection, Admit, Silence, Inv, TypeOK
    <3>2. conn'[c] = "subscribed" <=> conn[c] = "subscribed"
      BY <1>2 DEF Accept, NewConnection, Admit, Silence, Inv, TypeOK
    <3> QED
      BY <3>1, <3>2 DEF SameStates
  <2>2. UNCHANGED <<storeVars, watchVars, sent, covered>>
    BY <1>2 DEF Accept, NewConnection, Silence
  <2> QED
    BY <2>1, <2>2, QuietStep
<1>3. ASSUME NEW c \in Conns,
             (\E kind \in Frames : ReadFrame(c, kind)) \/ ReaderEnds(c) \/ Tick(c)
      PROVE  Feed'
  <2>1. \/ mail' = mail
        \/ \E k \in FrameKinds \cup {"tick", "closed"} :
              mail' = [mail EXCEPT ![c] = Append(@, Msg(k))]
    BY <1>3, ConstantsAssumption DEF ReadFrame, ReaderEnds, Tick
  <2>2. conn' = conn /\ UNCHANGED <<storeVars, watchVars, sent, covered>>
    BY <1>3 DEF ReadFrame, ReaderEnds, Tick
  <2>3. SameStates
    BY <2>1, <2>2, SameMail DEF SameStates, Inv
  <2> QED
    BY <2>2, <2>3, QuietStep
<1>4. ASSUME NEW c \in Conns, HandleHello(c) \/ HandleOther(c) \/ HandleAsk(c)
             \/ (HandleTick(c) /\ KeepsOn(c))
      PROVE  Feed'
  <2>1. /\ mail[c] # <<>> /\ Head(mail[c]).kind # "state"
        /\ mail' = [mail EXCEPT ![c] = Tail(@)]
    BY <1>4 DEF HandleHello, HandleOther, HandleAsk, HandleTick, KeepsOn, Takes, Continues
  <2>2. UNCHANGED <<storeVars, watchVars, sent, covered>>
    BY <1>4 DEF HandleHello, HandleOther, HandleAsk, HandleTick, KeepsOn
  <2>3. \A d \in Conns : conn'[d] = "subscribed" <=> conn[d] = "subscribed"
    BY <1>4 DEF HandleHello, HandleOther, HandleAsk, KeepsOn, Inv, TypeOK
  <2>4. SameStates
    BY <2>1, <2>3, SameMail DEF SameStates, Inv
  <2> QED
    BY <2>2, <2>4, QuietStep
<1>5. ASSUME NEW c \in Conns,
             \/ HandleEarlyFrame(c) \/ HandleDisconnect(c) \/ HandleReaderClosed(c)
             \/ StopSignal(c) \/ (HandleTick(c) /\ Ends(c))
      PROVE  Feed'
  <2>1. Ends(c) /\ UNCHANGED <<serverVars, storeVars, reading>>
    BY <1>5 DEF HandleEarlyFrame, HandleDisconnect, HandleReaderClosed,
                StopSignal, HandleTick
  <2> QED
    BY <2>1, EndsFeed
<1>8. ASSUME NEW c \in Conns, NEW to, AskBecomes(c, to) PROVE Feed'
  <2>1. UNCHANGED <<mail, conn, storeVars, watchVars, sent, covered>>
    BY <1>8 DEF AskBecomes
  <2>2. SameStates
    BY <2>1 DEF SameStates
  <2> QED
    BY <2>1, <2>2, QuietStep
<1>6. ASSUME NEW c \in Conns, Handle(c) PROVE Feed'
  <2>1. HandleTick(c) => Ends(c) \/ KeepsOn(c)
    BY DEF HandleTick
  <2>2. Answered(c) => Feed'
    BY <1>8 DEF Answered
  <2> QED
    BY <1>4, <1>5, <1>6, <2>1, <2>2, HandleSubscribeFeed, HandleStateUpdateFeed DEF Handle
<1>7. ASSUME NEW c \in Conns, NEW w \in Watchers, WatcherRuns(c, w) PROVE Feed'
  BY <1>7, WatcherSubscribesFeed, WatcherSeesFeed, WatcherSendsFeed,
     WatcherDroppedFeed DEF WatcherRuns
<1> QED
  BY <1>1, <1>2, <1>3, <1>5, <1>6, <1>7, <1>8, UpdateFeed DEF Next, QuestionLost

(* Init satisfies the invariant.                                           *)
LEMMA InitInv == Init => Inv
<1> SUFFICES ASSUME Init PROVE Inv
  OBVIOUS
<1>1. \A c \in Conns : ~HasState(mail[c])
  BY DEF Init, HasState
<1>2. \A c \in Conns, w \in Watchers :
         watch[c][w] = "unused" /\ ~unseen[c][w] /\ held[c][w] = Nothing
  BY DEF Init
<1>3. \A c \in Conns : covered[c] = FALSE
  BY DEF Init
<1>4. Placed /\ PushedIsCurrent /\ HeldIsCurrent
  BY <1>2 DEF Placed, PushedIsCurrent, HeldIsCurrent
<1>5. Traced /\ Reaches
  BY <1>1, <1>3 DEF Traced, Reaches
<1>6. Uncovered
  BY <1>1, <1>2, <1>3 DEF Uncovered, Settled, Pending, HasState
<1> QED
  BY <1>4, <1>5, <1>6, InitTypes DEF Inv, Feed

(* The inductive invariant holds.                                          *)
THEOREM Invariance == Spec => []Inv
<1>1. Inv /\ [Next]_vars => Inv'
  BY NextTypes, NextFeed DEF Inv
<1> QED
  BY InitInv, <1>1, PTL DEF Spec

(* Every state of the server, its connections and the store has its type,  *)
(* for any number of connections, subscriptions and slots.                 *)
THEOREM TypeCorrect == Spec => []TypeOK
<1>1. Inv => TypeOK
  BY DEF Inv
<1> QED
  BY Invariance, <1>1, PTL

(* A watcher that is about to look at its channel finds the store's state, *)
(* though sends without receivers leave old values in the channel.         *)
THEOREM PushedIsCurrentInvariant == Spec => []PushedIsCurrent
<1>1. Inv => PushedIsCurrent
  BY DEF Inv, Feed
<1> QED
  BY Invariance, <1>1, PTL

(* When nothing is under way to a subscribed client, its last frame is the *)
(* entity's state, unless that state fell between the push and the         *)
(* subscription.                                                           *)
THEOREM LastPushWinsInvariant == Spec => []LastPushWins
<1>1. Inv => LastPushWins
  <2> SUFFICES ASSUME Inv, NEW c \in Conns, covered[c], Settled(c), stored \in Values
               PROVE  sent[c] = stored
    BY DEF LastPushWins
  <2>1. ~HasState(mail[c]) /\ ~LastState(mail[c], stored)
    BY LastIsState DEF Settled, Pending, HasState
  <2>2. \A w \in Watchers : held[c][w] # stored
    BY ConstantsAssumption DEF Settled
  <2> QED
    BY <2>1, <2>2 DEF Inv, Feed, Reaches, Settled
<1> QED
  BY Invariance, <1>1, PTL

-----------------------------------------------------------------------------
(* The end of the server and of its connections: what StopEndsConnections  *)
(* and WatchersReleased need besides fairness.                             *)

\* With the server down no stream is left in its mailbox and every
\* connection that lives has the stop signal, whatever was accepted, admitted
\* or handled around the Stop; a connection that ended has no watcher that
\* listens or is still to start.
EndsCalled ==
    /\ server = "down" => \A c \in Conns : conn[c] # "queued" /\ (Live(c) => told[c])
    /\ \A c \in Conns, w \in Watchers :
          conn[c] = "stopped" => watch[c][w] \notin {"spawned", "listening"}

\* Nothing comes in before the port is bound.
Fresh == server = "new" => ~accepting /\ \A c \in Conns : conn[c] = "none"

StopInv ==
    /\ Inv /\ Fresh
    /\ server = "down" => \A c \in Conns : conn[c] # "queued" /\ (Live(c) => told[c])

\* How a step may change a connection under a server that stays as it is:
\* only the accept task brings one in and only the server admits it.
Onward ==
    /\ server' = server
    /\ \A c \in Conns :
          \/ conn'[c] = conn[c] /\ told'[c] = told[c]
          \/ conn'[c] = "stopped"
          \/ Live(c) /\ conn'[c] # "queued" /\ told'[c] = told[c]
          \/ server = "up"
          \/ conn'[c] = "dropped"
    /\ server = "new" => accepting' = accepting /\ conn' = conn

(* The actor's end changes its own connection only, and only to stopped.   *)
LEMMA EndsOnward ==
    ASSUME TypeOK, NEW c \in Conns, Ends(c), Live(c), Fresh,
           UNCHANGED <<serverVars, storeVars, reading>>
    PROVE  Onward
<1>1. \A d \in Conns : \/ conn'[d] = conn[d] /\ told'[d] = told[d]
                       \/ conn'[d] = "stopped"
  BY DEF Ends, TypeOK
<1>2. server # "new"
  BY DEF Fresh, Live, LiveStates
<1> QED
  BY <1>1, <1>2 DEF Onward, serverVars

(* Every step but Start and Stop leaves the server and moves connections   *)
(* on.                                                                     *)
LEMMA OnwardStep ==
    ASSUME TypeOK, Fresh, [Next]_vars, ~Start, ~Stop
    PROVE  Onward
<1> USE DEF serverVars, storeVars, watchVars, connVars
<1>1. ASSUME UNCHANGED <<server, accepting, conn, told>> PROVE Onward
  BY <1>1 DEF Onward
<1>2. ASSUME NEW v \in States, update(v) PROVE Onward
  BY <1>1, <1>2 DEF update
<1>3. ASSUME NEW c \in Conns, Accept(c) PROVE Onward
  <2>1. server # "new" /\ server' = server /\ told' = told
    BY <1>3 DEF Accept, Fresh
  <2>2. \A d \in Conns : conn'[d] = conn[d] \/ server = "up" \/ conn'[d] = "dropped"
    BY <1>3 DEF Accept, TypeOK
  <2> QED
    BY <2>1, <2>2 DEF Onward
<1>4. ASSUME NEW c \in Conns, NewConnection(c) PROVE Onward
  BY <1>4 DEF NewConnection, Onward
<1>5. ASSUME NEW c \in Conns,
             \/ \E kind \in Frames : ReadFrame(c, kind)
             \/ ReaderEnds(c) \/ Tick(c) \/ Silence(c)
      PROVE  Onward
  BY <1>1, <1>5 DEF ReadFrame, ReaderEnds, Tick, Silence
<1>6. ASSUME NEW c \in Conns, NEW w \in Watchers, WatcherRuns(c, w) PROVE Onward
  BY <1>1, <1>6 DEF WatcherRuns, WatcherSubscribes, WatcherSees, WatcherSends, WatcherDropped
<1>7. ASSUME NEW c \in Conns, Handle(c) \/ StopSignal(c) \/ QuestionLost(c) PROVE Onward
  <2>1. CASE \/ HandleEarlyFrame(c) \/ HandleDisconnect(c) \/ HandleReaderClosed(c)
             \/ StopSignal(c)
    BY <2>1, EndsOnward DEF HandleEarlyFrame, HandleDisconnect, HandleReaderClosed,
                            StopSignal, Takes
  <2>2. CASE HandleTick(c)
    <3>1. CASE Ends(c)
      BY <2>2, <3>1, EndsOnward DEF HandleTick, Takes
    <3>2. CASE KeepsOn(c)
      BY <1>1, <2>2, <3>2 DEF HandleTick, KeepsOn
    <3> QED
      BY <2>2, <3>1, <3>2 DEF HandleTick
  <2>3. CASE HandleOther(c) \/ HandleAsk(c) \/ HandleStateUpdate(c)
    BY <1>1, <2>3 DEF HandleOther, HandleAsk, HandleStateUpdate
  <2>5. CASE Answered(c) \/ QuestionLost(c)
    BY <1>1, <2>5 DEF Answered, QuestionLost, AskBecomes
  <2>4. CASE HandleHello(c) \/ HandleSubscribe(c)
    <3>1. /\ Live(c) /\ server' = server /\ told' = told
          /\ \/ conn' = [conn EXCEPT ![c] = "active"]
             \/ conn' = [conn EXCEPT ![c] = "subscribed"]
      BY <2>4 DEF HandleHello, HandleSubscribe, Takes
    <3>2. server # "new"
      BY <3>1 DEF Fresh, Live, LiveStates
    <3>3. \A d \in Conns : conn'[d] = conn[d] \/ (Live(d) /\ conn'[d] # "queued")
      BY <3>1 DEF TypeOK
    <3> QED
      BY <3>1, <3>2, <3>3 DEF Onward
  <2> QED
    BY <1>7, <2>1, <2>2, <2>3, <2>4, <2>5 DEF Handle
<1>8. CASE UNCHANGED vars
  BY <1>1, <1>8 DEF vars
<1> QED
  BY <1>2, <1>3, <1>4, <1>5, <1>6, <1>7, <1>8 DEF Next

(* Stopping the server reaches every connection: those it admitted have    *)
(* the stop signal, streams not admitted yet are dropped, and none is      *)
(* admitted afterwards; a connection that ended leaves no task behind that *)
(* reads the store.                                                        *)
THEOREM EndsCalledInvariant == Spec => []EndsCalled
<1>1. Init => StopInv
  BY InitInv DEF Init, StopInv, Fresh
<1>2. StopInv /\ [Next]_vars => StopInv'
  <2> SUFFICES ASSUME StopInv, [Next]_vars PROVE StopInv'
    OBVIOUS
  <2>1. Inv'
    BY NextTypes, NextFeed DEF StopInv, Inv
  <2>2. CASE Start
    BY <2>1, <2>2 DEF Start, StopInv, Fresh, Live, LiveStates, connVars
  <2>3. CASE Stop
    <3>1. ASSUME NEW c \in Conns PROVE conn'[c] # "queued" /\ (Live(c)' => told'[c])
      BY <2>3 DEF Stop, Live, LiveStates
    <3>2. server' = "down"
      BY <2>3 DEF Stop
    <3> QED
      BY <2>1, <3>1, <3>2 DEF StopInv, Fresh
  <2>4. CASE ~Start /\ ~Stop
    <3>1. Onward
      BY <2>4, OnwardStep DEF StopInv, Inv
    <3>2. Fresh'
      BY <3>1 DEF StopInv, Fresh, Onward
    <3>3. ASSUME server' = "down", NEW c \in Conns
          PROVE  conn'[c] # "queued" /\ (Live(c)' => told'[c])
      BY <3>1, <3>3 DEF StopInv, Onward, Live, LiveStates
    <3> QED
      BY <2>1, <3>2, <3>3 DEF StopInv
  <2> QED
    BY <2>2, <2>3, <2>4
<1>3. StopInv => EndsCalled
  BY DEF StopInv, Inv, Feed, Placed, EndsCalled
<1> QED
  BY <1>1, <1>2, <1>3, PTL DEF Spec
=============================================================================
