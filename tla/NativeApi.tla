------------------------------ MODULE NativeApi ------------------------------
(***************************************************************************)
(* The native API server that offers the hub's entities to clients, and    *)
(* the state store its subscriptions read: NativeApiServerActor,           *)
(* ConnectionActor (rshome-native-api/src/server.rs, connection.rs) and    *)
(* StateStore (rshome-state/src/store.rs), for one entity.                 *)
(*                                                                         *)
(* Each connection is an actor with a mailbox, a reader task, a ticker and *)
(* one watcher task for every SubscribeStates it received.  The store      *)
(* publishes through a tokio watch channel: it holds one value, a receiver *)
(* sees that the value changed since it last looked, and a send without    *)
(* receivers leaves the channel as it was.  Frames to a client are written *)
(* without delay: a client that stops reading its socket is not modelled.  *)
(***************************************************************************)
EXTENDS Naturals, Sequences, FiniteSets

CONSTANTS
    Conns,            \* TCP connections clients open
    Values,           \* entity states other than Unavailable
    Unavailable,      \* EntityState::Unavailable
    Nothing,          \* None: no entry, an empty channel, no frame yet
    MAX_CONNECTIONS,
    Frames,           \* which of FrameKinds the clients send
    MaxWatch,         \* bound: SubscribeStates frames of one connection
    MaxMail           \* bound: messages in a mailbox when a frame arrives
                      \* or the entity changes

\* "ask": ListEntities and the commands; "other": ping, device info, unknown.
FrameKinds == {"hello", "subscribe", "disconnect", "ask", "other"}

ASSUME ConstantsAssumption ==
    /\ Frames \subseteq FrameKinds
    /\ Unavailable \notin Values /\ Nothing \notin Values \cup {Unavailable}
    /\ MAX_CONNECTIONS \in Nat /\ MaxWatch \in Nat /\ MaxMail \in Nat

VARIABLES
    server,     \* the server actor: "new", "up" or "down"
    accepting,  \* the accept task runs
    slots,      \* connections with a reference in a slot
    conn,       \* where each connection is
    told,       \* the parent's stop signal is set
    mail,       \* the connection actor's mailbox
    reading,    \* the reader task runs
    idle,       \* more than 30 s since last_activity
    asking,     \* the question its handler awaits: "none", "open" or "lost"
    stored,     \* the entity's state in the store
    chan,       \* the value of its watch channel
    watch,      \* the watcher tasks
    unseen,     \* the channel changed since the watcher looked
    held,       \* value a watcher has borrowed and is about to send
    sent,       \* last state frame written to the client
    covered     \* history: the current value was pushed by Subscribe, or
                \* stored while a watcher of the connection listened

serverVars == <<server, accepting, slots>>
storeVars == <<stored, chan>>
watchVars == <<watch, unseen, held>>
connVars == <<conn, told, mail, reading, idle, asking, sent>>
vars == <<serverVars, storeVars, watchVars, connVars, covered>>

Watchers == 1..MaxWatch
States == Values \cup {Unavailable}
Messages == [kind : FrameKinds \cup {"tick", "closed"}, v : {Nothing}]
            \cup [kind : {"state"}, v : States]
Msg(kind) == [kind |-> kind, v |-> Nothing]
StateUpdate(v) == [kind |-> "state", v |-> v]

LiveStates == {"awaiting", "active", "subscribed"}
Live(c) == conn[c] \in LiveStates

Init ==
    /\ server = "new" /\ accepting = FALSE /\ slots = {}
    /\ conn = [c \in Conns |-> "none"]
    /\ told = [c \in Conns |-> FALSE]
    /\ mail = [c \in Conns |-> <<>>]
    /\ reading = [c \in Conns |-> FALSE]
    /\ idle = [c \in Conns |-> FALSE]
    /\ asking = [c \in Conns |-> "none"]
    /\ stored = Nothing /\ chan = Nothing
    /\ watch = [c \in Conns |-> [w \in Watchers |-> "unused"]]
    /\ unseen = [c \in Conns |-> [w \in Watchers |-> FALSE]]
    /\ held = [c \in Conns |-> [w \in Watchers |-> Nothing]]
    /\ sent = [c \in Conns |-> Nothing]
    /\ covered = [c \in Conns |-> FALSE]

-----------------------------------------------------------------------------
(* The store *)

\* An aborted task keeps its receiver until the runtime drops it.
Receives(c, w) == watch[c][w] \in {"listening", "aborted"}
HasReceiver == \E c \in Conns, w \in Watchers : Receives(c, w)

\* StateStore::update: entities, restore_snapshot.  The first update creates
\* the channel with the value in it; later ones send.
update(v) ==
    /\ \A c \in Conns : Len(mail[c]) < MaxMail
    /\ stored' = v
    /\ chan' = IF stored = Nothing \/ HasReceiver THEN v ELSE chan
    /\ unseen' = [c \in Conns |-> [w \in Watchers |->
                     unseen[c][w] \/ watch[c][w] = "listening"]]
    /\ covered' = [c \in Conns |-> \E w \in Watchers : watch[c][w] = "listening"]
    /\ UNCHANGED <<serverVars, connVars, watch, held>>

-----------------------------------------------------------------------------
(* The server *)

\* NativeApiMsg::Start binds the port; if that fails the server stops.
Start ==
    /\ server = "new"
    /\ \/ server' = "up" /\ accepting' = TRUE
       \/ server' = "down" /\ UNCHANGED accepting
    /\ UNCHANGED <<slots, storeVars, watchVars, connVars, covered>>

\* The accept task hands the stream to the server.  With the server gone it
\* drops the stream and ends.
Accept(c) ==
    /\ accepting /\ conn[c] = "none"
    /\ IF server = "up"
         THEN conn' = [conn EXCEPT ![c] = "queued"] /\ UNCHANGED accepting
         ELSE conn' = [conn EXCEPT ![c] = "dropped"] /\ accepting' = FALSE
    /\ UNCHANGED <<server, slots, told, mail, reading, idle, asking, sent,
                   storeVars, watchVars, covered>>

\* NewConnection: a slot holds a reference from here on.
Admit(c) ==
    /\ slots' = slots \cup {c}
    /\ conn' = [conn EXCEPT ![c] = "awaiting"]
    /\ reading' = [reading EXCEPT ![c] = TRUE]

NewConnection(c) ==
    /\ server = "up" /\ conn[c] = "queued"
    /\ IF Cardinality(slots) >= MAX_CONNECTIONS
         THEN conn' = [conn EXCEPT ![c] = "refused"] /\ UNCHANGED <<slots, reading>>
         ELSE Admit(c)
    /\ UNCHANGED <<server, accepting, told, mail, idle, asking, sent,
                   storeVars, watchVars, covered>>

\* Mutant: the stopped server does not stop its children.
Stop_LeavesChildren ==
    /\ server = "up" /\ server' = "down" /\ slots' = {}
    /\ told' = told
    /\ conn' = [c \in Conns |-> IF conn[c] = "queued" THEN "dropped" ELSE conn[c]]
    /\ UNCHANGED <<accepting, mail, reading, idle, asking, sent,
                   storeVars, watchVars, covered>>

\* NativeApiMsg::Stop; the actor loop then signals its children.  Streams
\* still in the mailbox are dropped with it.
Stop ==
    /\ server = "up" /\ server' = "down" /\ slots' = {}
    /\ told' = [c \in Conns |-> told[c] \/ Live(c)]
    /\ conn' = [c \in Conns |-> IF conn[c] = "queued" THEN "dropped" ELSE conn[c]]
    /\ UNCHANGED <<accepting, mail, reading, idle, asking, sent,
                   storeVars, watchVars, covered>>

-----------------------------------------------------------------------------
(* What feeds a connection's mailbox *)

Pending(c, kind) == \E i \in 1..Len(mail[c]) : mail[c][i].kind = kind

\* The reader task.  A second SubscribeStates is read once the first has been
\* handled, and only while there is a watcher left (MaxWatch).
ReadFrame(c, kind) ==
    /\ reading[c] /\ Live(c) /\ Len(mail[c]) < MaxMail
    /\ kind = "subscribe" => /\ ~Pending(c, "subscribe")
                             /\ \E w \in Watchers : watch[c][w] = "unused"
    /\ mail' = [mail EXCEPT ![c] = Append(@, Msg(kind))]
    /\ UNCHANGED <<serverVars, storeVars, watchVars, conn, told, reading, idle, asking,
                   sent, covered>>

\* The client closed, the stream broke, or the mailbox is gone.
ReaderEnds(c) ==
    /\ reading[c] /\ reading' = [reading EXCEPT ![c] = FALSE]
    /\ mail' = IF Live(c) THEN [mail EXCEPT ![c] = Append(@, Msg("closed"))] ELSE mail
    /\ UNCHANGED <<serverVars, storeVars, watchVars, conn, told, idle, asking, sent, covered>>

\* The ticker, every 5 s.  One pending tick stands for several.
Tick(c) ==
    /\ Live(c) /\ ~Pending(c, "tick")
    /\ mail' = [mail EXCEPT ![c] = Append(@, Msg("tick"))]
    /\ UNCHANGED <<serverVars, storeVars, watchVars, conn, told, reading, idle, asking,
                   sent, covered>>

\* 30 s pass without a frame handled.
Silence(c) ==
    /\ Live(c) /\ ~idle[c] /\ idle' = [idle EXCEPT ![c] = TRUE]
    /\ UNCHANGED <<serverVars, storeVars, watchVars, conn, told, mail, reading,
                   asking, sent, covered>>

-----------------------------------------------------------------------------
(* Watchers *)

\* Mutant: the new receiver takes the channel's value for a change.
WatcherSubscribes_MarksChanged(c, w) ==
    /\ watch[c][w] = "spawned"
    /\ watch' = [watch EXCEPT ![c][w] = "listening"]
    /\ unseen' = [unseen EXCEPT ![c][w] = TRUE]
    /\ stored' = IF stored = Nothing THEN Unavailable ELSE stored
    /\ UNCHANGED <<serverVars, connVars, chan, held, covered>>

\* The task starts: StateStore::subscribe.  The value in the channel counts
\* as seen; an unknown entity gets a placeholder and an empty channel.
WatcherSubscribes(c, w) ==
    /\ watch[c][w] = "spawned"
    /\ watch' = [watch EXCEPT ![c][w] = "listening"]
    /\ unseen' = [unseen EXCEPT ![c][w] = FALSE]
    /\ stored' = IF stored = Nothing THEN Unavailable ELSE stored
    /\ UNCHANGED <<serverVars, connVars, chan, held, covered>>

\* changed() returns and the value is borrowed.
WatcherSees(c, w) ==
    /\ watch[c][w] = "listening" /\ held[c][w] = Nothing /\ unseen[c][w]
    /\ unseen' = [unseen EXCEPT ![c][w] = FALSE]
    /\ held' = [held EXCEPT ![c][w] = chan]
    /\ UNCHANGED <<serverVars, storeVars, connVars, watch, covered>>

\* Mutant: sending also marks the channel as seen.
WatcherSends_MarksSeen(c, w) ==
    /\ watch[c][w] = "listening" /\ held[c][w] # Nothing
    /\ held' = [held EXCEPT ![c][w] = Nothing]
    /\ unseen' = [unseen EXCEPT ![c][w] = FALSE]
    /\ mail' = [mail EXCEPT ![c] = Append(@, StateUpdate(held[c][w]))]
    /\ UNCHANGED <<serverVars, storeVars, conn, told, reading, idle, asking, sent,
                   watch, covered>>

\* StateUpdate to the actor.  A task aborted between the borrow and the send
\* finds the mailbox gone.
WatcherSends(c, w) ==
    /\ watch[c][w] = "listening" /\ held[c][w] # Nothing
    /\ held' = [held EXCEPT ![c][w] = Nothing]
    /\ mail' = [mail EXCEPT ![c] = Append(@, StateUpdate(held[c][w]))]
    /\ UNCHANGED <<serverVars, storeVars, conn, told, reading, idle, asking, sent,
                   watch, unseen, covered>>

\* The runtime drops an aborted task and its receiver.
WatcherDropped(c, w) ==
    /\ watch[c][w] = "aborted"
    /\ watch' = [watch EXCEPT ![c][w] = "ended"]
    /\ UNCHANGED <<serverVars, storeVars, connVars, unseen, held, covered>>

-----------------------------------------------------------------------------
(* The connection actor *)

\* A handler that awaits an answer keeps the actor from its mailbox and from
\* the stop signal.
Waits(c) == asking[c] # "none"

Takes(c, kinds) ==
    /\ Live(c) /\ ~Waits(c)
    /\ mail[c] # <<>> /\ Head(mail[c]).kind \in kinds

\* Mutant: post_stop leaves the watchers alone.
post_stop_KeepsWatchers(c) == watch' = watch

\* A task that has not started never will.
post_stop(c) ==
    watch' = [watch EXCEPT ![c] = [w \in Watchers |->
                 CASE watch[c][w] = "listening" -> "aborted"
                   [] watch[c][w] = "spawned" -> "ended"
                   [] OTHER -> watch[c][w]]]

\* The loop ends: post_stop runs, the actor and its mailbox are gone.
Ends(c) ==
    /\ conn' = [conn EXCEPT ![c] = "stopped"]
    /\ mail' = [mail EXCEPT ![c] = <<>>]
    /\ told' = [told EXCEPT ![c] = FALSE]
    /\ idle' = [idle EXCEPT ![c] = FALSE]
    /\ sent' = [sent EXCEPT ![c] = Nothing]
    /\ covered' = [covered EXCEPT ![c] = FALSE]
    /\ post_stop(c)
    /\ unseen' = [unseen EXCEPT ![c] = [w \in Watchers |-> FALSE]]
    /\ held' = [held EXCEPT ![c] = [w \in Watchers |-> Nothing]]

Continues(c) == mail' = [mail EXCEPT ![c] = Tail(@)]

\* state_to_frame: Unavailable has no frame.
Push(c, v) == sent' = IF v \in Values THEN [sent EXCEPT ![c] = v] ELSE sent

HandleHello(c) ==
    /\ Takes(c, {"hello"}) /\ conn[c] = "awaiting"
    /\ conn' = [conn EXCEPT ![c] = "active"]
    /\ Continues(c) /\ idle' = [idle EXCEPT ![c] = FALSE]
    /\ UNCHANGED <<serverVars, storeVars, watchVars, told, reading, asking, sent, covered>>

\* A frame before the hello closes the connection.
HandleEarlyFrame(c) ==
    /\ Takes(c, FrameKinds \ {"hello"}) /\ conn[c] = "awaiting"
    /\ Ends(c)
    /\ UNCHANGED <<serverVars, storeVars, reading, asking>>

\* Pings and device info are answered; a command for an unknown entity, a
\* second hello and unknown frames are ignored.
HandleOther(c) ==
    /\ Takes(c, {"other", "hello"}) /\ conn[c] # "awaiting"
    /\ Continues(c) /\ idle' = [idle EXCEPT ![c] = FALSE]
    /\ UNCHANGED <<serverVars, storeVars, watchVars, conn, told, reading, asking,
                   sent, covered>>

\* ListEntities asks the entity for its state, a command asks the service
\* registry: the handler awaits the answer, without a timeout.
HandleAsk(c) ==
    /\ Takes(c, {"ask"}) /\ conn[c] # "awaiting"
    /\ Continues(c) /\ idle' = [idle EXCEPT ![c] = FALSE]
    /\ asking' = [asking EXCEPT ![c] = "open"]
    /\ UNCHANGED <<serverVars, storeVars, watchVars, conn, told, reading, sent,
                   covered>>

AskBecomes(c, to) ==
    /\ asking[c] = "open" /\ asking' = [asking EXCEPT ![c] = to]
    /\ UNCHANGED <<serverVars, storeVars, watchVars, conn, told, mail, reading,
                   idle, sent, covered>>

\* The answer, or an error: the handler returns.
Answered(c) == AskBecomes(c, "none")

\* The one asked ended with the question in its mailbox, which lives as long
\* as somebody can send to it: the answer never comes.
QuestionLost(c) == AskBecomes(c, "lost")

FirstUnused(c, w) ==
    /\ watch[c][w] = "unused"
    /\ \A u \in Watchers : watch[c][u] = "unused" => w <= u

\* SubscribeStates pushes the current state, then spawns a watcher, which
\* subscribes to the store when it first runs.
HandleSubscribe(c) ==
    /\ Takes(c, {"subscribe"}) /\ conn[c] # "awaiting"
    /\ conn' = [conn EXCEPT ![c] = "subscribed"]
    /\ Push(c, stored)
    /\ \E w \in Watchers : FirstUnused(c, w) /\ watch' = [watch EXCEPT ![c][w] = "spawned"]
    /\ covered' = [covered EXCEPT ![c] = TRUE]
    /\ Continues(c) /\ idle' = [idle EXCEPT ![c] = FALSE]
    /\ UNCHANGED <<serverVars, storeVars, unseen, held, told, reading, asking>>

HandleDisconnect(c) ==
    /\ Takes(c, {"disconnect"}) /\ conn[c] # "awaiting"
    /\ Ends(c)
    /\ UNCHANGED <<serverVars, storeVars, reading, asking>>

HandleStateUpdate(c) ==
    /\ Takes(c, {"state"})
    /\ IF conn[c] = "subscribed" THEN Push(c, Head(mail[c]).v) ELSE UNCHANGED sent
    /\ Continues(c)
    /\ UNCHANGED <<serverVars, storeVars, watchVars, conn, told, reading, idle, asking,
                   covered>>

KeepsOn(c) == Continues(c) /\ UNCHANGED <<conn, told, idle, sent, covered, watchVars>>

\* Mutant: the inactivity check runs only once the client has said hello.
HandleTick_AfterHello(c) ==
    /\ Takes(c, {"tick"})
    /\ IF idle[c] /\ conn[c] # "awaiting"
         THEN Ends(c) ELSE KeepsOn(c)
    /\ UNCHANGED <<serverVars, storeVars, reading, asking>>

HandleTick(c) ==
    /\ Takes(c, {"tick"})
    /\ IF idle[c] THEN Ends(c) ELSE KeepsOn(c)
    /\ UNCHANGED <<serverVars, storeVars, reading, asking>>

HandleReaderClosed(c) ==
    /\ Takes(c, {"closed"}) /\ Ends(c)
    /\ UNCHANGED <<serverVars, storeVars, reading, asking>>

\* The actor loop sees the parent's stop signal between two messages.
StopSignal(c) ==
    /\ Live(c) /\ ~Waits(c) /\ told[c] /\ Ends(c)
    /\ UNCHANGED <<serverVars, storeVars, reading, asking>>

Handle(c) ==
    \/ HandleHello(c) \/ HandleEarlyFrame(c) \/ HandleOther(c)
    \/ HandleAsk(c) \/ Answered(c)
    \/ HandleSubscribe(c) \/ HandleDisconnect(c) \/ HandleStateUpdate(c)
    \/ HandleTick(c) \/ HandleReaderClosed(c)

-----------------------------------------------------------------------------
WatcherRuns(c, w) ==
    \/ WatcherSubscribes(c, w) \/ WatcherSees(c, w)
    \/ WatcherSends(c, w) \/ WatcherDropped(c, w)

Next ==
    \/ Start \/ Stop
    \/ \E v \in States : update(v)
    \/ \E c \in Conns :
          \/ Accept(c) \/ NewConnection(c)
          \/ \E kind \in Frames : ReadFrame(c, kind)
          \/ ReaderEnds(c) \/ Tick(c) \/ Silence(c)
          \/ Handle(c) \/ StopSignal(c) \/ QuestionLost(c)
          \/ \E w \in Watchers : WatcherRuns(c, w)

Spec == Init /\ [][Next]_vars

\* Actors with mail run, tickers tick, tasks are scheduled; the loop's select!
\* is not biased, so an actor that comes back to it again and again takes the
\* stop signal at last.  A question is answered unless it is lost, and then
\* its handler never returns.
\* Nothing is assumed of clients, of entities or of the passing of 30 s.
Fairness ==
    \A c \in Conns :
       /\ WF_vars(Handle(c)) /\ SF_vars(StopSignal(c)) /\ WF_vars(Tick(c))
       /\ \A w \in Watchers : WF_vars(WatcherRuns(c, w))

FairSpec == Spec /\ Fairness

-----------------------------------------------------------------------------
(* Properties *)

TypeOK ==
    /\ server \in {"new", "up", "down"} /\ accepting \in BOOLEAN
    /\ slots \in SUBSET Conns
    /\ conn \in [Conns -> {"none", "queued", "refused", "dropped", "stopped"}
                          \cup LiveStates]
    /\ told \in [Conns -> BOOLEAN] /\ mail \in [Conns -> Seq(Messages)]
    /\ reading \in [Conns -> BOOLEAN] /\ idle \in [Conns -> BOOLEAN]
    /\ asking \in [Conns -> {"none", "open", "lost"}]
    /\ stored \in States \cup {Nothing} /\ chan \in States \cup {Nothing}
    /\ watch \in [Conns -> [Watchers ->
                    {"unused", "spawned", "listening", "aborted", "ended"}]]
    /\ unseen \in [Conns -> [Watchers -> BOOLEAN]]
    /\ held \in [Conns -> [Watchers -> States \cup {Nothing}]]
    /\ sent \in [Conns -> Values \cup {Nothing}]
    /\ covered \in [Conns -> BOOLEAN]

(* The channel may hold an old value (a send without receivers is lost),   *)
(* but a watcher that is about to look finds the store's current state.    *)
PushedIsCurrent ==
    \A c \in Conns, w \in Watchers :
        watch[c][w] = "listening" /\ unseen[c][w] => chan = stored

Settled(c) ==
    /\ ~Pending(c, "state")
    /\ \A w \in Watchers : held[c][w] = Nothing
                           /\ (watch[c][w] = "listening" => ~unseen[c][w])

(* Coalesced, duplicated (two SubscribeStates) and delayed pushes end with *)
(* the store's state: when nothing is under way to a subscribed client,    *)
(* the last frame it got is the entity's state, unless that state was      *)
(* stored between the first push and the watcher's subscription.           *)
LastPushWins ==
    \A c \in Conns :
        conn[c] = "subscribed" /\ covered[c] /\ Settled(c) /\ stored \in Values
           => sent[c] = stored

(* A client silent for 30 s is dropped or speaks again, whatever the state *)
(* of its connection, however busy its subscription and whatever it asked, *)
(* unless a question of its handler was lost: ask has no timeout, and the  *)
(* keepalive waits behind it for ever.                                     *)
SilentClientDropped ==
    \A c \in Conns :
        (Live(c) /\ idle[c]) ~> (~Live(c) \/ ~idle[c] \/ asking[c] = "lost")

(* The receivers of a connection that ended are dropped, without waiting   *)
(* for another update.                                                     *)
WatchersReleased ==
    \A c \in Conns : (conn[c] = "stopped") ~> (\A w \in Watchers : ~Receives(c, w))

(* Stopping the server ends every connection, those queued included, and   *)
(* those that await an answer once it comes; only a connection whose       *)
(* question was lost never sees the stop signal.                           *)
StopEndsConnections ==
    \A c \in Conns :
        (server = "down") ~> \/ ~Live(c) /\ conn[c] # "queued"
                             \/ asking[c] = "lost"

(* A client is refused only while MAX_CONNECTIONS connections are active.  *)
RefusedOnlyWhenFull ==
    [][\A c \in Conns : conn[c] = "queued" /\ conn'[c] = "refused"
          => Cardinality({d \in Conns : Live(d)}) >= MAX_CONNECTIONS]_vars
=============================================================================
