--------------------------- MODULE ServerSubscriptions ---------------------------
(***************************************************************************)
(* The pushes of the server and where they go (src/centrifuge/client.py):  *)
(* the registry of server-side subscriptions (_server_subs) with their     *)
(* stream positions, which a connect reply rebuilds while handlers of the  *)
(* application run, and the registry of numeric channel ids (_subs_by_id)  *)
(* that routes compacted pushes to client-side subscriptions.              *)
(*                                                                         *)
(* Channels have server-side subscriptions that recover; Subs have         *)
(* client-side ones.  How a client-side one subscribes is abstract here    *)
(* (SubscriptionFlow), and its pushes stand for join and leave; handlers   *)
(* do not raise (StreamPositions).  The server is external: it chooses the *)
(* server-side subscriptions of a connection and the ids, which mean       *)
(* nothing to the next connection.                                         *)
(***************************************************************************)
EXTENDS Naturals, Sequences, FiniteSets

CONSTANTS
    Channels, Subs,
    MaxId,       \* numeric ids of one connection
    Worlds       \* which channels and subscriptions there are, and the bounds:
                 \* `events' the server decides on (publications, pushes, ends of
                 \* subscriptions), `calls' of subscribe() and unsubscribe(), and
                 \* `faults' (lost connections and invalidations)

ASSUME ServerAssumption ==
    /\ MaxId \in Nat
    /\ Worlds \subseteq [channels : SUBSET Channels, subs : SUBSET Subs,
                        events : Nat, calls : Nat, faults : Nat]

VARIABLES
    transport_id, conn,        \* as in Commands
    connected,                 \* Client.state is CONNECTED
    registered,                \* the channels of Client._server_subs
    offset, valid,             \* their offsets; the channels whose epoch is not "_"
    server_pending,            \* Client._server_pending: [ch, conn, offset]
    tasks,                     \* what applies a connect reply or a push, in a handler
    asked,                     \* the positions in the connect command: [ch, offset]
    state, attempt, push_id,   \* Subscription.state, _attempt, _push_id
    subs_by_id,                \* Client._subs_by_id
    commands, messages,        \* on the way to the server and back
    held, top,                 \* the channels this connection has; the ends of the streams
    serves, ids, last_id,      \* per sub, the attempt the server serves and its id
    told, log, base,           \* what the application knows: channels, publications, starts
    world,                     \* one of Worlds
    events, calls, faults      \* what is left of the bounds

linkVars == <<transport_id, conn, connected, asked, world>>
registryVars == <<registered, offset, valid, server_pending>>
subVars == <<state, attempt, push_id, subs_by_id>>
serverVars == <<held, top, serves, ids, last_id>>
appVars == <<told, log, base>>
vars == <<linkVars, registryVars, tasks, subVars, commands, messages, serverVars, appVars,
          events, calls, faults>>

-----------------------------------------------------------------------------
(* Types *)

Nobody == "nobody"
Ids == 0..MaxId

ASSUME NobodyAssumption == Nobody \notin Channels \cup Subs

\* A task, in a handler of the application.  What applies a connect reply has the
\* channels of the reply, the ones left to tell and the publications left to give.
Publication == [ch : Channels, offset : Nat]
Entry == [ch : Channels, offset : Nat, recovered : BOOLEAN]
Task == [conn : Nat \ {0}, kind : {"reply", "push"}, at : {"connected", "subscribed", "publication"},
         ch : Channels \cup {Nobody}, offset : Nat, reply : SUBSET Channels, left : SUBSET Entry,
         pubs : SUBSET Publication]
Command == [op : {"subscribe", "unsubscribe"}, sub : Subs, attempt : Nat]
Message == [op : {"publication", "subscribe", "unsubscribe"}, ch : Channels, offset : Nat]
           \cup [op : {"subscribed", "join", "again"}, sub : Subs, attempt : Nat, id : Ids]

\* Types; only a connection has messages, and only what is registered a position.
TypeOK ==
    /\ transport_id \in Nat /\ conn \in {0, transport_id} /\ connected \in BOOLEAN
    /\ connected => conn # 0
    /\ conn = 0 => messages = <<>> /\ commands = <<>>
    /\ registered \subseteq Channels /\ valid \subseteq registered
    /\ offset \in [Channels -> Nat] /\ \A c \in Channels \ valid : offset[c] = 0
    /\ server_pending \subseteq [ch : Channels, conn : Nat \ {0}, offset : Nat \ {0}]
    /\ \A p, q \in server_pending : p.ch = q.ch => p = q
    /\ tasks \subseteq Task /\ asked \subseteq Publication
    /\ state \in [Subs -> {"unsubscribed", "subscribing", "subscribed"}]
    /\ attempt \in [Subs -> Nat] /\ push_id \in [Subs -> Ids]
    /\ subs_by_id \in [Ids -> Subs \cup {Nobody}]
    /\ commands \in Seq(Command) /\ messages \in Seq(Message)
    /\ held \subseteq Channels /\ top \in [Channels -> Nat]
    /\ serves \in [Subs -> Nat] /\ ids \in [Subs -> Ids] /\ last_id \in Ids
    /\ told \subseteq Channels /\ log \in [Channels -> Seq(Nat)] /\ base \in [Channels -> Nat]
    /\ world \in Worlds /\ {events, calls, faults} \subseteq Nat

-----------------------------------------------------------------------------
(***************************************************************************)
(* Helpers.  A definition named Faulty... is not part of the model: it is  *)
(* what the next definition would be with a plausible bug, and the mutants *)
(* of PROJECT.json show which property finds that bug.                     *)
(***************************************************************************)

Event == events > 0 /\ events' = events - 1
Fault == faults > 0 /\ faults' = faults - 1

\* Any connection will do.
FaultyConnectionCurrent(c) == connected

\* _connection_current()
ConnectionCurrent(c) == connected /\ conn = c

\* The old id is dropped although it belongs to another subscription by now.
FaultyDropsId(x, i) == i = push_id[x]

\* _update_subscription_push_id(): the old id is dropped only while it is this
\* subscription's.
DropsId(x, i) == i = push_id[x] /\ subs_by_id[i] = x

\* _set_push_id()
SetPushId(x, id) ==
    /\ push_id' = [push_id EXCEPT ![x] = id]
    /\ subs_by_id' = [i \in Ids |-> IF i = id /\ id > 0 THEN x
                                    ELSE IF DropsId(x, i) THEN Nobody
                                    ELSE subs_by_id[i]]

\* _sub_for_push(): by id when the push carries one, by name otherwise.
SubForPush(m) == IF m.id > 0 THEN subs_by_id[m.id] ELSE m.sub

\* A push goes to the subscription whatever its state.
FaultyRoute(m) == SubForPush(m)

\* _subscribed_sub_for_push()
Route(m) ==
    LET x == SubForPush(m) IN IF x # Nobody /\ state[x] = "subscribed" THEN x ELSE Nobody

\* The position of a publication whose handler still runs is not committed.
FaultyCommitted(c) == offset[c]

\* Server-side publications being handled count as delivered (_disconnect()).
Committed(c) ==
    LET mine == {p \in server_pending : p.ch = c /\ p.conn = transport_id} IN
    IF c \in registered /\ mine # {} THEN (CHOOSE p \in mine : TRUE).offset ELSE offset[c]

\* The teardown of the connection; subscribed client-side subscriptions move to
\* subscribing.
CloseConnection ==
    /\ transport_id' = transport_id + 1 /\ conn' = 0 /\ connected' = FALSE /\ asked' = {}
    /\ subs_by_id' = (IF connected THEN [i \in Ids |-> Nobody] ELSE subs_by_id)
    /\ state' = [x \in Subs |-> IF state[x] = "subscribed" THEN "subscribing" ELSE state[x]]
    /\ attempt' = [x \in Subs |-> IF state[x] = "subscribed" THEN attempt[x] + 1 ELSE attempt[x]]
    /\ commands' = <<>> /\ messages' = <<>>
    /\ held' = {} /\ told' = {} /\ last_id' = 0
    /\ serves' = [x \in Subs |-> 0] /\ ids' = [x \in Subs |-> 0]
    /\ server_pending' = {}

Register(c, o) ==
    /\ registered' = registered \cup {c} /\ valid' = valid \cup {c}
    /\ offset' = [offset EXCEPT ![c] = o]

-----------------------------------------------------------------------------
(* The connection *)

\* The connect command, _construct_connect_command(): it asks for every position.
Connect ==
    /\ conn = 0
    /\ transport_id' = transport_id + 1 /\ conn' = transport_id + 1
    /\ asked' = {[ch |-> c, offset |-> offset[c]] : c \in valid}
    /\ UNCHANGED <<connected, world, registryVars, tasks, subVars, commands, messages, serverVars,
                   appVars, events, calls, faults>>

LoseConnection ==
    /\ conn # 0 /\ Fault
    /\ CloseConnection
    /\ offset' = [c \in Channels |-> Committed(c)]
    /\ UNCHANGED <<world, registered, valid, tasks, push_id, top, log, base, events, calls>>

\* A disconnect with "state invalidated": _invalidate_connection_state(), first.
Invalidated ==
    /\ conn # 0 /\ Fault
    /\ CloseConnection
    /\ offset' = [c \in Channels |-> 0] /\ valid' = {}
    /\ push_id' = [x \in Subs |-> 0]
    /\ UNCHANGED <<world, registered, tasks, top, log, base, events, calls>>

-----------------------------------------------------------------------------
(* What applies a connect reply: _connected(), _process_server_subs() *)

\* The position the reply has for channel c, and the publications after it.
Recovered(c) == \E a \in asked : a.ch = c
Position(c) == IF Recovered(c) THEN (CHOOSE a \in asked : a.ch = c).offset ELSE top[c]

\* on_connected is called.
ConnectReply ==
    /\ conn # 0 /\ ~connected /\ connected' = TRUE /\ asked' = {}
    /\ \E reply \in SUBSET world.channels :
        /\ held' = reply
        /\ tasks' = tasks \cup {[conn |-> conn, kind |-> "reply", at |-> "connected",
               ch |-> Nobody, offset |-> 0, reply |-> reply,
               left |-> {[ch |-> c, offset |-> Position(c), recovered |-> Recovered(c)] : c \in reply},
               pubs |-> {p \in [ch : reply, offset : 1..world.events] :
                            p.offset \in (Position(p.ch) + 1)..top[p.ch]}]}
    /\ UNCHANGED <<transport_id, conn, world, registryVars, subVars, commands, messages, top,
                   serves, ids, last_id, appVars, events, calls, faults>>

\* A handler of a connection that is over moves the position, too.
FaultyMoves(t) == t.at = "publication" /\ t.ch \in registered

\* _process_server_publication() when the handler returned: "must not move the position
\* the next connection recovers from, possibly back".
Moves(t) == t.at = "publication" /\ t.ch \in registered /\ transport_id = t.conn

Moved(t) == IF Moves(t) THEN [offset EXCEPT ![t.ch] = t.offset] ELSE offset
NotPending(t) == IF t.at = "publication" THEN {p \in server_pending : p.ch # t.ch \/ p.conn # t.conn}
                 ELSE server_pending

\* The next channel: the application is told that it is subscribed, and from where.
TellsNext(t) ==
    /\ t.left # {} /\ ConnectionCurrent(t.conn)
    /\ \E e \in t.left :
        /\ Register(e.ch, e.offset)
        /\ told' = told \cup {e.ch}
        /\ base' = IF e.recovered THEN base ELSE [base EXCEPT ![e.ch] = e.offset]
        /\ tasks' = (tasks \ {t}) \cup {[t EXCEPT !.at = "subscribed", !.ch = e.ch, !.left = @ \ {e}]}
    /\ UNCHANGED <<server_pending, log>>

\* Then the publications, channel by channel.
IsNext(t, p) ==
    /\ \A q \in t.pubs : q.ch = p.ch => q.offset >= p.offset
    /\ t.at = "publication" /\ p.ch # t.ch => \A q \in t.pubs : q.ch # t.ch

GivesNext(t) ==
    /\ t.left = {} /\ ConnectionCurrent(t.conn)
    /\ \E p \in t.pubs :
        /\ IsNext(t, p)
        /\ offset' = Moved(t)
        /\ server_pending' = {q \in NotPending(t) : q.ch # p.ch}
                             \cup {[ch |-> p.ch, conn |-> t.conn, offset |-> p.offset]}
        /\ log' = [log EXCEPT ![p.ch] = Append(@, p.offset)]
        /\ tasks' = (tasks \ {t}) \cup
             {[t EXCEPT !.at = "publication", !.ch = p.ch, !.offset = p.offset, !.pubs = @ \ {p}]}
    /\ UNCHANGED <<registered, valid, told, base>>

\* Nothing of the registry is dropped.
FaultyNotInReply(reply) == {}

NotInReply(reply) == registered \ reply

\* At last, channels that are not in the reply are dropped, whatever connection there
\* is now; the application is told while it is the one of the reply.
DropsTheRest(t) ==
    /\ t.kind = "reply" /\ t.left = {} /\ t.pubs = {}
    /\ t.at = "connected" => ConnectionCurrent(t.conn)
    /\ LET dropped == NotInReply(t.reply) IN
       /\ registered' = registered \ dropped /\ valid' = valid \ dropped
       /\ offset' = [c \in Channels |-> IF c \in dropped THEN 0 ELSE Moved(t)[c]]
       /\ told' = IF ConnectionCurrent(t.conn) THEN told \ dropped ELSE told
    /\ server_pending' = NotPending(t)
    /\ tasks' = tasks \ {t}
    /\ UNCHANGED <<log, base>>

\* A connection that is over has nothing more to do; neither has a push.
Stops(t) ==
    /\ \/ t.kind = "push"
       \/ ~ConnectionCurrent(t.conn) /\ (t.left # {} \/ t.pubs # {} \/ t.at = "connected")
    /\ offset' = Moved(t) /\ server_pending' = NotPending(t)
    /\ tasks' = tasks \ {t}
    /\ UNCHANGED <<registered, valid, appVars>>

HandlerReturns ==
    /\ \E t \in tasks : TellsNext(t) \/ GivesNext(t) \/ DropsTheRest(t) \/ Stops(t)
    /\ UNCHANGED <<linkVars, subVars, commands, messages, serverVars, events, calls, faults>>

-----------------------------------------------------------------------------
(* Messages.  The message task waits for what applies the connect reply, and for  *)
(* handlers.                                                                      *)

Receives(op) ==
    /\ messages # <<>> /\ Head(messages).op = op
    /\ \A t \in tasks : t.conn # conn
    /\ messages' = Tail(messages)

Pushed(at, c, o) ==
    tasks' = tasks \cup {[conn |-> conn, kind |-> "push", at |-> at, ch |-> c, offset |-> o,
                          reply |-> {}, left |-> {}, pubs |-> {}]}

\* _process_publication() of a server-side subscription; else it is dropped.
PublicationArrives ==
    /\ Receives("publication")
    /\ LET m == Head(messages) IN
       IF m.ch \in registered
       THEN /\ Pushed("publication", m.ch, m.offset)
            /\ server_pending' = {q \in server_pending : q.ch # m.ch}
                                 \cup {[ch |-> m.ch, conn |-> conn, offset |-> m.offset]}
            /\ log' = [log EXCEPT ![m.ch] = Append(@, m.offset)]
       ELSE UNCHANGED <<tasks, server_pending, log>>
    /\ UNCHANGED <<linkVars, registered, offset, valid, subVars, commands, serverVars, told, base,
                   events, calls, faults>>

\* _process_subscribe()
SubscribedByServer ==
    /\ Receives("subscribe")
    /\ LET m == Head(messages) IN
       /\ Register(m.ch, m.offset)
       /\ told' = told \cup {m.ch} /\ base' = [base EXCEPT ![m.ch] = m.offset]
       /\ Pushed("subscribed", m.ch, 0)
    /\ UNCHANGED <<linkVars, server_pending, subVars, commands, serverVars, log, events, calls, faults>>

\* _process_unsubscribe() of a server-side subscription.
UnsubscribedByServer ==
    /\ Receives("unsubscribe")
    /\ LET c == Head(messages).ch IN
       /\ registered' = registered \ {c} /\ valid' = valid \ {c}
       /\ offset' = [offset EXCEPT ![c] = 0]
       /\ told' = told \ {c}
    /\ UNCHANGED <<linkVars, server_pending, tasks, subVars, commands, serverVars, log, base, events,
                   calls, faults>>

\* _move_subscribed(): the reply to a subscribe, unless its attempt is over.
SubscribeReply ==
    /\ Receives("subscribed")
    /\ LET m == Head(messages) IN
       IF state[m.sub] = "subscribing" /\ attempt[m.sub] = m.attempt
       THEN /\ state' = [state EXCEPT ![m.sub] = "subscribed"]
            /\ attempt' = [attempt EXCEPT ![m.sub] = @ + 1]
            /\ SetPushId(m.sub, m.id)
       ELSE UNCHANGED subVars
    /\ UNCHANGED <<linkVars, registryVars, tasks, commands, serverVars, appVars, events, calls, faults>>

\* _process_join(), _process_leave(): nothing but a handler.
JoinArrives ==
    /\ Receives("join")
    /\ UNCHANGED <<linkVars, registryVars, tasks, subVars, commands, serverVars, appVars, events,
                   calls, faults>>

\* _process_unsubscribe() of a client-side one, with a code that makes it subscribe again.
SubscribesAgain ==
    /\ Receives("again")
    /\ LET x == Route(Head(messages)) IN
       IF x = Nobody THEN UNCHANGED <<state, attempt>>
       ELSE /\ state' = [state EXCEPT ![x] = "subscribing"]
            /\ attempt' = [attempt EXCEPT ![x] = @ + 1]
    /\ UNCHANGED <<linkVars, registryVars, tasks, push_id, subs_by_id, commands, serverVars, appVars,
                   events, calls, faults>>

-----------------------------------------------------------------------------
(* Client-side subscriptions *)

\* unsubscribe() and subscribe()
Unsubscribe(x) ==
    /\ state[x] # "unsubscribed"
    /\ state' = [state EXCEPT ![x] = "unsubscribed"]
    /\ SetPushId(x, 0)
    /\ commands' = IF connected THEN Append(commands, [op |-> "unsubscribe", sub |-> x, attempt |-> 0])
                   ELSE commands

Subscribe(x) ==
    /\ state[x] = "unsubscribed"
    /\ state' = [state EXCEPT ![x] = "subscribing"]
    /\ UNCHANGED <<push_id, subs_by_id, commands>>

AppCalls ==
    /\ calls > 0 /\ calls' = calls - 1
    /\ \E x \in world.subs : /\ Subscribe(x) \/ Unsubscribe(x)
                             /\ attempt' = [attempt EXCEPT ![x] = @ + 1]
    /\ UNCHANGED <<linkVars, registryVars, tasks, messages, serverVars, appVars, events, faults>>

InFlight(x) ==
    \/ \E k \in 1..Len(commands) : commands[k].sub = x /\ commands[k].attempt = attempt[x]
    \/ \E k \in 1..Len(messages) : /\ messages[k].op = "subscribed" /\ messages[k].sub = x
                                   /\ messages[k].attempt = attempt[x]

\* _subscribe_attempt()
SendSubscribe ==
    /\ connected
    /\ \E x \in Subs :
        /\ state[x] = "subscribing" /\ ~InFlight(x)
        /\ attempt' = [attempt EXCEPT ![x] = @ + 1]
        /\ commands' = Append(commands, [op |-> "subscribe", sub |-> x, attempt |-> attempt[x] + 1])
    /\ UNCHANGED <<linkVars, registryVars, tasks, state, push_id, subs_by_id, messages, serverVars,
                   appVars, events, calls, faults>>

-----------------------------------------------------------------------------
(* The server (external) *)

\* A command arrives; a subscription may have a numeric id.
ServerReceives ==
    /\ commands # <<>> /\ commands' = Tail(commands)
    /\ LET c == Head(commands) IN
       IF c.op = "unsubscribe"
       THEN /\ serves' = [serves EXCEPT ![c.sub] = 0] /\ ids' = [ids EXCEPT ![c.sub] = 0]
            /\ UNCHANGED <<messages, last_id>>
       ELSE \E id \in Ids \cap {0, last_id + 1} :
            /\ serves' = [serves EXCEPT ![c.sub] = c.attempt] /\ ids' = [ids EXCEPT ![c.sub] = id]
            /\ messages' = Append(messages, [op |-> "subscribed", sub |-> c.sub, attempt |-> c.attempt, id |-> id])
            /\ last_id' = IF id = 0 THEN last_id ELSE id
    /\ UNCHANGED <<linkVars, registryVars, tasks, subVars, held, top, appVars, events, calls, faults>>

\* A publication, and a server-side subscription that is added or ended.
ServerPublishes(c) ==
    /\ top' = [top EXCEPT ![c] = @ + 1]
    /\ messages' = IF c \in held THEN Append(messages, [op |-> "publication", ch |-> c, offset |-> top[c] + 1])
                   ELSE messages
    /\ UNCHANGED <<held, serves, ids, last_id>>

ServerAdds(c) ==
    /\ connected /\ c \notin held
    /\ held' = held \cup {c}
    /\ messages' = Append(messages, [op |-> "subscribe", ch |-> c, offset |-> top[c]])
    /\ UNCHANGED <<top, serves, ids, last_id>>

ServerEnds(c) ==
    /\ c \in held
    /\ held' = held \ {c}
    /\ messages' = Append(messages, [op |-> "unsubscribe", ch |-> c, offset |-> 0])
    /\ UNCHANGED <<top, serves, ids, last_id>>

\* A push for a client-side subscription, or its end: it is to subscribe again.
ServerPushes(x) ==
    /\ serves[x] # 0
    /\ messages' = Append(messages, [op |-> "join", sub |-> x, attempt |-> serves[x], id |-> ids[x]])
    /\ UNCHANGED serverVars

ServerRevokes(x) ==
    /\ serves[x] # 0
    /\ serves' = [serves EXCEPT ![x] = 0] /\ ids' = [ids EXCEPT ![x] = 0]
    /\ messages' = Append(messages, [op |-> "again", sub |-> x, attempt |-> 0, id |-> 0])
    /\ UNCHANGED <<held, top, last_id>>

Server ==
    /\ Event
    /\ \/ \E c \in world.channels : ServerPublishes(c) \/ ServerAdds(c) \/ ServerEnds(c)
       \/ \E x \in world.subs : ServerPushes(x) \/ ServerRevokes(x)
    /\ UNCHANGED <<linkVars, registryVars, tasks, subVars, commands, appVars, calls, faults>>

-----------------------------------------------------------------------------
(* Specification *)

Init ==
    /\ world \in Worlds
    /\ transport_id = 0 /\ conn = 0 /\ connected = FALSE /\ asked = {}
    /\ registered = {} /\ offset = [c \in Channels |-> 0] /\ valid = {} /\ server_pending = {}
    /\ tasks = {}
    /\ state = [x \in Subs |-> IF x \in world.subs THEN "subscribing" ELSE "unsubscribed"] /\ attempt = [x \in Subs |-> 0]
    /\ push_id = [x \in Subs |-> 0] /\ subs_by_id = [i \in Ids |-> Nobody]
    /\ commands = <<>> /\ messages = <<>>
    /\ held = {} /\ top = [c \in Channels |-> 0]
    /\ serves = [x \in Subs |-> 0] /\ ids = [x \in Subs |-> 0] /\ last_id = 0
    /\ told = {} /\ log = [c \in Channels |-> <<>>] /\ base = [c \in Channels |-> 0]
    /\ events = world.events /\ calls = world.calls /\ faults = world.faults

Arrives == \/ PublicationArrives \/ SubscribedByServer \/ UnsubscribedByServer
           \/ SubscribeReply \/ JoinArrives \/ SubscribesAgain

Next ==
    \/ Connect \/ LoseConnection \/ Invalidated \/ ConnectReply \/ HandlerReturns
    \/ Arrives \/ AppCalls \/ SendSubscribe \/ ServerReceives \/ Server

Spec == Init /\ [][Next]_vars

-----------------------------------------------------------------------------
(* Properties *)

\* Nothing is skipped: the application was given every publication between where it
\* was told to start and the position the next connection asks for (_disconnect(),
\* _process_server_publication()).
ServerPositionReached ==
    \A c \in valid : \A o \in (base[c] + 1)..offset[c] : \E k \in 1..Len(log[c]) : log[c][k] = o

\* Nothing is given twice or out of order, also when connections are lost while handlers
\* run ("Server-side publications being handled count as delivered").
ServerInOrderOnce ==
    \A c \in Channels : \A j, k \in 1..Len(log[c]) : j < k => log[c][j] < log[c][k]

\* The registry has no channel the server ended: once a connect reply is applied and
\* every message is processed, what is registered is what the connection has
\* (_process_server_subs(): channels_to_delete).
NothingLeftRegistered ==
    connected /\ messages = <<>> /\ (\A t \in tasks : t.conn # conn) => registered \subseteq held

\* A push of the server for a client-side subscription reaches it, and it alone, while it
\* is subscribed in the session the push is for; else nobody gets it, also when the id had
\* another meaning in an earlier connection (_subscribed_sub_for_push(), _set_push_id()).
RoutesRight ==
    messages # <<>> /\ Head(messages).op = "join" =>
        LET m == Head(messages) IN
        Route(m) = IF state[m.sub] = "subscribed" /\ attempt[m.sub] = m.attempt + 1 THEN m.sub ELSE Nobody

\* _disconnect(): "nothing from it is processed afterwards", also of a connect reply whose
\* handlers return late: a channel that the application was told is subscribed, over the
\* connection there is, is registered, or its publications are dropped.
ToldIsRegistered == told \subseteq registered
=============================================================================
