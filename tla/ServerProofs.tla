------------------------------ MODULE ServerProofs ------------------------------
(***************************************************************************)
(* Theorems about ServerSubscriptions, for every set of channels and       *)
(* subscriptions, every number of ids and every bound.                     *)
(***************************************************************************)
EXTENDS ServerSubscriptions, TLAPS

-----------------------------------------------------------------------------
(* The parts of the invariant: types and shapes *)

LinkTypes ==
    /\ transport_id \in Nat /\ conn \in {0, transport_id} /\ connected \in BOOLEAN
    /\ connected => conn # 0
    /\ conn = 0 => messages = <<>> /\ commands = <<>>
    /\ asked \subseteq Publication
RegistryTypes ==
    /\ registered \subseteq Channels /\ valid \subseteq registered
    /\ offset \in [Channels -> Nat] /\ \A c \in Channels \ valid : offset[c] = 0
TaskTypes == tasks \subseteq Task
SubTypes ==
    /\ state \in [Subs -> {"unsubscribed", "subscribing", "subscribed"}]
    /\ attempt \in [Subs -> Nat] /\ push_id \in [Subs -> Ids]
    /\ subs_by_id \in [Ids -> Subs \cup {Nobody}]
WireTypes ==
    /\ commands \in Seq(Command) /\ messages \in Seq(Message)
    /\ \A i \in 1..Len(messages) : messages[i].op = "publication" => messages[i].offset # 0
ServerTypes ==
    /\ held \subseteq Channels /\ top \in [Channels -> Nat]
    /\ serves \in [Subs -> Nat] /\ ids \in [Subs -> Ids] /\ last_id \in Ids
AppTypes == told \subseteq Channels /\ log \in [Channels -> Seq(Nat)] /\ base \in [Channels -> Nat]
BoundTypes == world \in Worlds /\ events \in Nat /\ calls \in Nat /\ faults \in Nat
Types ==
    /\ LinkTypes /\ RegistryTypes /\ TaskTypes /\ SubTypes /\ WireTypes /\ ServerTypes /\ AppTypes
    /\ BoundTypes

\* The task of the present connection, if there is one.
Live == {t \in tasks : t.conn = transport_id}

\* Before the connect reply there is nothing on the wire and nothing is served.
Closed ==
    ~connected =>
        /\ messages = <<>> /\ commands = <<>> /\ held = {} /\ Live = {}
        /\ \A x \in Subs : serves[x] = 0 /\ ids[x] = 0 /\ state[x] # "subscribed"
        /\ \A i \in Ids : subs_by_id[i] = Nobody

Tasks ==
    /\ \A t \in tasks : t.conn <= transport_id
    /\ \A t, u \in Live : t = u
    /\ asked # {} => ~connected

\* Every publication there is can be in a reply.
Bounded == \A c \in Channels : top[c] + events <= world.events

\* A push has nothing left; publications are given when all channels are told.
Shape(t) ==
    /\ t.kind = "push" => t.left = {} /\ t.pubs = {} /\ t.at # "connected"
    /\ t.at = "publication" => t.left = {} /\ t.ch \in Channels /\ t.offset # 0
    /\ t.kind = "reply" /\ t.at = "publication" => t.ch \in t.reply
    /\ \A e \in t.left : e.ch \in t.reply
    /\ \A e, f \in t.left : e.ch = f.ch => e = f
    /\ \A p \in t.pubs : p.ch \in t.reply /\ p.offset # 0
Shapes == \A t \in tasks : Shape(t)

\* What is pending is the publication that the task of this connection handles.
Giving == {t \in Live : t.at = "publication"}
Pending == server_pending = {[ch |-> t.ch, conn |-> t.conn, offset |-> t.offset] : t \in Giving}

LeftToTell(c) == \E t \in Live : \E e \in t.left : e.ch = c

\* Invalidated channels are told again, or dropped, before their messages are handled.
Validated ==
    connected => \A c \in registered \ valid :
        \E t \in Live : t.kind = "reply" /\ (c \notin t.reply \/ LeftToTell(c))

Base == Types /\ Closed /\ Tasks /\ Bounded /\ Shapes /\ Pending /\ Validated

-----------------------------------------------------------------------------
(* Facts that follow from the types *)

LEMMA WorldFacts ==
    ASSUME BoundTypes
    PROVE  world.channels \subseteq Channels /\ world.subs \subseteq Subs /\ world.events \in Nat
BY ServerAssumption DEF BoundTypes

LEMMA IdFacts == 0 \in Ids /\ Ids \subseteq Nat
BY ServerAssumption DEF Ids

LEMMA TaskFacts ==
    ASSUME NEW t \in Task
    PROVE  /\ t.conn \in Nat \ {0} /\ t.kind \in {"reply", "push"}
           /\ t.at \in {"connected", "subscribed", "publication"}
           /\ t.ch \in Channels \cup {Nobody} /\ t.offset \in Nat /\ t.reply \subseteq Channels
           /\ \A e \in t.left : e \in Entry /\ e.ch \in Channels /\ e.offset \in Nat
                                /\ e.recovered \in BOOLEAN
           /\ \A p \in t.pubs : p \in Publication /\ p.ch \in Channels /\ p.offset \in Nat
<1>1. /\ t.conn \in Nat \ {0} /\ t.kind \in {"reply", "push"}
      /\ t.at \in {"connected", "subscribed", "publication"}
      /\ t.ch \in Channels \cup {Nobody} /\ t.offset \in Nat /\ t.reply \in SUBSET Channels
      /\ t.left \in SUBSET Entry /\ t.pubs \in SUBSET Publication
  BY DEF Task
<1>2. \A e \in Entry : e.ch \in Channels /\ e.offset \in Nat /\ e.recovered \in BOOLEAN
  BY DEF Entry
<1>3. \A p \in Publication : p.ch \in Channels /\ p.offset \in Nat
  BY DEF Publication
<1> QED
  BY <1>1, <1>2, <1>3

ChannelMessages == [op : {"publication", "subscribe", "unsubscribe"}, ch : Channels, offset : Nat]
SubMessages == [op : {"subscribed", "join", "again"}, sub : Subs, attempt : Nat, id : Ids]

LEMMA MessageKinds == Message = ChannelMessages \cup SubMessages
BY DEF Message, ChannelMessages, SubMessages

LEMMA MessageFacts ==
    ASSUME NEW m \in Message
    PROVE  /\ m.op \in {"publication", "subscribe", "unsubscribe"}
              => m.ch \in Channels /\ m.offset \in Nat
           /\ m.op \in {"subscribed", "join", "again"}
              => m.sub \in Subs /\ m.attempt \in Nat /\ m.id \in Ids
           /\ m.op \in {"publication", "subscribe", "unsubscribe", "subscribed", "join", "again"}
<1>1. ASSUME m \in ChannelMessages
      PROVE  /\ m.op \in {"publication", "subscribe", "unsubscribe"}
             /\ m.ch \in Channels /\ m.offset \in Nat
  BY <1>1 DEF ChannelMessages
<1>2. ASSUME m \in SubMessages
      PROVE  /\ m.op \in {"subscribed", "join", "again"}
             /\ m.sub \in Subs /\ m.attempt \in Nat /\ m.id \in Ids
  BY <1>2 DEF SubMessages
<1> QED
  BY <1>1, <1>2, MessageKinds

LEMMA ChannelMessage ==
    ASSUME NEW op \in {"publication", "subscribe", "unsubscribe"}, NEW c \in Channels, NEW o \in Nat
    PROVE  [op |-> op, ch |-> c, offset |-> o] \in Message
<1>1. [op |-> op, ch |-> c, offset |-> o] \in ChannelMessages
  BY DEF ChannelMessages
<1> QED
  BY <1>1, MessageKinds

LEMMA SubMessage ==
    ASSUME NEW op \in {"subscribed", "join", "again"}, NEW x \in Subs, NEW a \in Nat, NEW i \in Ids
    PROVE  [op |-> op, sub |-> x, attempt |-> a, id |-> i] \in Message
<1>1. [op |-> op, sub |-> x, attempt |-> a, id |-> i] \in SubMessages
  BY DEF SubMessages
<1> QED
  BY <1>1, MessageKinds

\* The first message, and what comes after it.
LEMMA TailFacts ==
    ASSUME NEW S, NEW s \in Seq(S), s # <<>>
    PROVE  /\ Head(s) = s[1] /\ s[1] \in S /\ 1 \in 1..Len(s) /\ Tail(s) \in Seq(S)
           /\ Len(Tail(s)) = Len(s) - 1 /\ Len(s) \in Nat /\ Len(Tail(s)) \in Nat
           /\ \A i \in 1..Len(Tail(s)) : i + 1 \in 2..Len(s) /\ i + 1 \in 1..Len(s)
                                         /\ Tail(s)[i] = s[i + 1]
OBVIOUS

LEMMA AppendFacts ==
    ASSUME NEW S, NEW s \in Seq(S), NEW m \in S
    PROVE  /\ Append(s, m) \in Seq(S) /\ Len(s) \in Nat /\ Len(Append(s, m)) = Len(s) + 1
           /\ Append(s, m)[Len(s) + 1] = m
           /\ \A i \in 1..Len(s) : Append(s, m)[i] = s[i]
           /\ \A i \in 1..(Len(s) + 1) : i \in 1..Len(s) \/ i = Len(s) + 1
OBVIOUS

LEMMA OnlyMember == ASSUME NEW y, NEW S, S = {y} PROVE (CHOOSE p \in S : TRUE) = y
OBVIOUS

\* What would be committed is the publication that is handled, if there is one.
LEMMA CommittedFacts ==
    ASSUME Base
    PROVE  /\ \A t \in Giving : t.ch \in registered => Committed(t.ch) = t.offset
           /\ \A c : (\A t \in Giving : t.ch # c) => Committed(c) = offset[c]
<1>1. ASSUME NEW c, \A t \in Giving : t.ch # c PROVE Committed(c) = offset[c]
  <2>1. {p \in server_pending : p.ch = c /\ p.conn = transport_id} = {}
    BY <1>1 DEF Base, Pending
  <2> QED
    BY <2>1 DEF Committed
<1>2. ASSUME NEW t \in Giving, t.ch \in registered PROVE Committed(t.ch) = t.offset
  <2> DEFINE p == [ch |-> t.ch, conn |-> t.conn, offset |-> t.offset]
             mine == {q \in server_pending : q.ch = t.ch /\ q.conn = transport_id}
  <2>1. Giving = {t}
    BY DEF Giving, Base, Tasks
  <2>2. server_pending = {p}
    BY <2>1 DEF Base, Pending
  <2>3. t.conn = transport_id
    BY DEF Giving, Live
  <2>4. p.ch = t.ch /\ p.conn = transport_id /\ p.offset = t.offset
    BY <2>3
  <2> HIDE DEF p
  <2>5. mine = {p}
    BY <2>2, <2>4
  <2>6. (CHOOSE q \in mine : TRUE) = p
    BY <2>5, OnlyMember
  <2>7. Committed(t.ch) = (CHOOSE q \in mine : TRUE).offset
    BY <1>2, <2>5 DEF Committed
  <2> QED
    BY <2>4, <2>6, <2>7
<1> QED
  BY <1>1, <1>2

\* Nothing is given from a channel that is not valid.
LEMMA GivingValid ==
    ASSUME Base, NEW t \in Giving, t.ch \in registered PROVE t.ch \in valid
<1>1. t \in Live /\ t.at = "publication" /\ t \in tasks /\ t \in Task
  BY DEF Giving, Live, Base, Types, TaskTypes
<1>2. connected
  BY <1>1 DEF Base, Closed
<1>3. t.left = {} /\ (t.kind = "reply" => t.ch \in t.reply)
  BY <1>1 DEF Base, Shapes, Shape
<1>4. \A u \in Live : u = t
  BY <1>1 DEF Base, Tasks
<1>5. ~LeftToTell(t.ch)
  BY <1>3, <1>4 DEF LeftToTell
<1> QED
  BY <1>2, <1>3, <1>4, <1>5 DEF Base, Validated

LEMMA PendingTypes ==
    ASSUME Base
    PROVE  /\ server_pending \subseteq [ch : Channels, conn : Nat \ {0}, offset : Nat \ {0}]
           /\ \A p, q \in server_pending : p.ch = q.ch => p = q
<1>1. ASSUME NEW t \in Giving
      PROVE  [ch |-> t.ch, conn |-> t.conn, offset |-> t.offset]
             \in [ch : Channels, conn : Nat \ {0}, offset : Nat \ {0}]
  <2>1. t \in tasks /\ t \in Task /\ t.at = "publication"
    BY DEF Giving, Live, Base, Types, TaskTypes
  <2>2. t.ch \in Channels /\ t.offset # 0
    BY <2>1 DEF Base, Shapes, Shape
  <2> QED
    BY <2>1, <2>2, TaskFacts
<1>2. \A t, u \in Giving : t = u
  BY DEF Giving, Base, Tasks
<1> QED
  BY <1>1, <1>2 DEF Base, Pending

LEMMA BaseGivesTypeOK == Base => TypeOK
BY PendingTypes DEF Base, Types, LinkTypes, RegistryTypes, TaskTypes, SubTypes, WireTypes, ServerTypes,
   AppTypes, BoundTypes, TypeOK

-----------------------------------------------------------------------------
(* Base is inductive: the connection *)

LEMMA BaseConnect == ASSUME Base, Connect PROVE Base'
<1>1. /\ conn = 0 /\ transport_id' = transport_id + 1 /\ conn' = transport_id + 1
      /\ asked' = {[ch |-> c, offset |-> offset[c]] : c \in valid}
      /\ UNCHANGED <<connected, world, registered, offset, valid, server_pending, tasks,
                     state, attempt, push_id, subs_by_id, commands, messages,
                     held, top, serves, ids, last_id, told, log, base, events, calls, faults>>
  BY DEF Connect, registryVars, subVars, serverVars, appVars
<1>2. ~connected /\ transport_id \in Nat /\ conn' # 0
  BY <1>1 DEF Base, Types, LinkTypes
<1>3. Live = {} /\ Live' = {}
  <2>1. \A t \in tasks : t.conn <= transport_id /\ t.conn \in Nat
    BY TaskFacts DEF Base, Types, TaskTypes, Tasks
  <2>2. \A t \in tasks : t.conn # transport_id + 1
    BY <1>2, <2>1
  <2> QED
    BY <1>1, <1>2, <2>2 DEF Base, Closed, Live
<1>4. Types'
  <2>1. asked' \subseteq Publication
    <3>1. \A c \in valid : c \in Channels /\ offset[c] \in Nat
      BY DEF Base, Types, RegistryTypes
    <3> QED
      BY <1>1, <3>1 DEF Publication
  <2>2. LinkTypes'
    <3>1. connected' \in BOOLEAN
      BY <1>1 DEF Base, Types, LinkTypes
    <3> QED
      BY <1>1, <1>2, <2>1, <3>1 DEF LinkTypes
  <2>3. RegistryTypes' /\ TaskTypes' /\ SubTypes' /\ WireTypes' /\ ServerTypes' /\ AppTypes'
        /\ BoundTypes'
    BY <1>1 DEF Base, Types, RegistryTypes, TaskTypes, SubTypes, WireTypes, ServerTypes, AppTypes,
       BoundTypes
  <2> QED
    BY <2>2, <2>3 DEF Types
<1>5. Closed'
  BY <1>1, <1>2, <1>3 DEF Base, Closed
<1>6. Tasks'
  <2>1. \A t \in tasks : t.conn <= transport_id + 1
    BY <1>2, TaskFacts DEF Base, Types, TaskTypes, Tasks
  <2> QED
    BY <1>1, <1>2, <1>3, <2>1 DEF Tasks
<1>7. Bounded' /\ Shapes' /\ Validated'
  BY <1>1, <1>2 DEF Base, Bounded, Shapes, Shape, Validated
<1>8. Pending'
  BY <1>1, <1>3 DEF Base, Pending, Giving
<1> QED
  BY <1>4, <1>5, <1>6, <1>7, <1>8 DEF Base

\* A connection that is over, and what is left of it.
LEMMA CloseFacts ==
    ASSUME Base, CloseConnection, tasks' = tasks
    PROVE  /\ transport_id' = transport_id + 1 /\ conn' = 0 /\ ~connected' /\ asked' = {}
           /\ commands' = <<>> /\ messages' = <<>> /\ held' = {} /\ server_pending' = {}
           /\ Live' = {} /\ transport_id \in Nat
           /\ \A t \in tasks : t.conn <= transport_id + 1
           /\ Closed'
<1>1. /\ transport_id' = transport_id + 1 /\ conn' = 0 /\ ~connected' /\ asked' = {}
      /\ commands' = <<>> /\ messages' = <<>> /\ held' = {} /\ server_pending' = {}
  BY DEF CloseConnection
<1>2. transport_id \in Nat /\ \A t \in tasks : t.conn <= transport_id /\ t.conn \in Nat
  BY TaskFacts DEF Base, Types, TaskTypes, Tasks, LinkTypes
<1>3. \A t \in tasks : t.conn # transport_id + 1 /\ t.conn <= transport_id + 1
  BY <1>2
<1>4. Live' = {}
  BY <1>1, <1>3 DEF Live
<1>5. \A x \in Subs : serves'[x] = 0 /\ ids'[x] = 0
  BY DEF CloseConnection
<1>6. \A x \in Subs : state'[x] # "subscribed"
  BY DEF CloseConnection
<1>7. \A i \in Ids : subs_by_id'[i] = Nobody
  BY DEF CloseConnection, Base, Closed
<1> QED
  BY <1>1, <1>2, <1>3, <1>4, <1>5, <1>6, <1>7 DEF Closed

LEMMA BaseClose ==
    ASSUME Base, CloseConnection, RegistryTypes', push_id' \in [Subs -> Ids],
           UNCHANGED <<world, tasks, top, log, base, events, calls>>, faults' \in Nat
    PROVE  Base'
<1>1. LinkTypes'
  <2>1. connected' = FALSE
    BY DEF CloseConnection
  <2>2. transport_id' \in Nat
    BY CloseFacts
  <2> QED
    BY <2>1, <2>2, CloseFacts DEF LinkTypes
<1>2. SubTypes'
  <2>1. state' \in [Subs -> {"unsubscribed", "subscribing", "subscribed"}]
    BY DEF CloseConnection, Base, Types, SubTypes
  <2>2. attempt' \in [Subs -> Nat]
    BY DEF CloseConnection, Base, Types, SubTypes
  <2>3. subs_by_id' \in [Ids -> Subs \cup {Nobody}]
    BY DEF CloseConnection, Base, Types, SubTypes
  <2> QED
    BY <2>1, <2>2, <2>3 DEF SubTypes
<1>3. WireTypes'
  <2>1. <<>> \in Seq(Command) /\ <<>> \in Seq(Message) /\ Len(<<>>) = 0
    OBVIOUS
  <2> QED
    BY <2>1, CloseFacts DEF WireTypes
<1>4. ServerTypes'
  BY IdFacts DEF CloseConnection, Base, Types, ServerTypes
<1>5. TaskTypes' /\ AppTypes' /\ BoundTypes'
  BY DEF CloseConnection, Base, Types, TaskTypes, AppTypes, BoundTypes
<1>6. Tasks' /\ Bounded' /\ Shapes' /\ Validated' /\ Pending'
  BY CloseFacts DEF Base, Tasks, Bounded, Shapes, Shape, Validated, Pending, Giving
<1> QED
  BY <1>1, <1>2, <1>3, <1>4, <1>5, <1>6, CloseFacts DEF Base, Types

LEMMA CommittedTypes ==
    ASSUME Base
    PROVE  /\ \A c \in Channels : Committed(c) \in Nat
           /\ \A c \in Channels \ valid : Committed(c) = 0
<1>1. ASSUME NEW c \in Channels PROVE Committed(c) \in Nat /\ (c \notin valid => Committed(c) = 0)
  <2>1. CASE \A t \in Giving : t.ch # c
    BY <2>1, CommittedFacts DEF Base, Types, RegistryTypes
  <2>2. CASE \E t \in Giving : t.ch = c
    <3>1. PICK t \in Giving : t.ch = c
      BY <2>2
    <3>2. t \in Task
      BY DEF Giving, Live, Base, Types, TaskTypes
    <3>3. CASE c \in registered
      BY <3>1, <3>2, <3>3, CommittedFacts, GivingValid, TaskFacts
    <3>4. CASE c \notin registered
      BY <3>4 DEF Committed, Base, Types, RegistryTypes
    <3> QED
      BY <3>3, <3>4
  <2> QED
    BY <2>1, <2>2
<1> QED
  BY <1>1

LEMMA BaseLose == ASSUME Base, LoseConnection \/ Invalidated PROVE Base'
<1>1. /\ CloseConnection /\ UNCHANGED <<world, tasks, top, log, base, events, calls>>
      /\ faults' \in Nat
  BY DEF LoseConnection, Invalidated, Fault, Base, Types, BoundTypes
<1>2. push_id' \in [Subs -> Ids]
  BY IdFacts DEF LoseConnection, Invalidated, Base, Types, SubTypes
<1>3. RegistryTypes'
  <2>1. CASE LoseConnection
    <3>1. /\ offset' = [c \in Channels |-> Committed(c)] /\ UNCHANGED <<registered, valid>>
      BY <2>1 DEF LoseConnection
    <3> QED
      BY <3>1, CommittedTypes DEF RegistryTypes, Base, Types
  <2>2. CASE Invalidated
    BY <2>2 DEF Invalidated, RegistryTypes, Base, Types
  <2> QED
    BY <2>1, <2>2
<1> QED
  BY <1>1, <1>2, <1>3, BaseClose

-----------------------------------------------------------------------------
(* Base is inductive: connect replies *)

LEMMA PositionFacts ==
    ASSUME NEW c \in Channels, Types
    PROVE  /\ Position(c) \in Nat /\ Recovered(c) \in BOOLEAN
           /\ Recovered(c) => \E a \in asked : a.ch = c /\ a.offset = Position(c)
           /\ ~Recovered(c) => Position(c) = top[c]
<1>1. top[c] \in Nat
  BY DEF Types, ServerTypes
<1>2. ASSUME Recovered(c)
      PROVE  Position(c) \in Nat /\ \E a \in asked : a.ch = c /\ a.offset = Position(c)
  <2> DEFINE a == CHOOSE a \in asked : a.ch = c
  <2>1. a \in asked /\ a.ch = c
    BY <1>2 DEF Recovered
  <2>2. a.offset \in Nat
    BY <2>1 DEF Types, LinkTypes, Publication
  <2>3. Position(c) = a.offset
    BY <1>2 DEF Position
  <2> HIDE DEF a
  <2> QED
    BY <2>1, <2>2, <2>3
<1>3. ASSUME ~Recovered(c) PROVE Position(c) = top[c]
  BY <1>3 DEF Position
<1>4. Recovered(c) \in BOOLEAN
  BY DEF Recovered
<1>5. Position(c) \in Nat
  BY <1>1, <1>2, <1>3
<1> QED
  BY <1>2, <1>3, <1>4, <1>5

\* What the task of a connect reply has to do.
Replying(t, reply) ==
    /\ t.conn = conn /\ t.kind = "reply" /\ t.at = "connected" /\ t.ch = Nobody /\ t.offset = 0
    /\ t.reply = reply
    /\ t.left = {[ch |-> c, offset |-> Position(c), recovered |-> Recovered(c)] : c \in reply}
    /\ t.pubs = {p \in [ch : reply, offset : 1..world.events] :
                    p.offset \in (Position(p.ch) + 1)..top[p.ch]}

LEMMA ReplyTask ==
    ASSUME Base, ConnectReply
    PROVE  \E reply \in SUBSET world.channels : \E t \in Task :
              /\ held' = reply /\ tasks' = tasks \cup {t} /\ Replying(t, reply)
              /\ reply \subseteq Channels
<1> USE DEF Base
<1>1. PICK reply \in SUBSET world.channels :
        /\ held' = reply
        /\ tasks' = tasks \cup {[conn |-> conn, kind |-> "reply", at |-> "connected",
               ch |-> Nobody, offset |-> 0, reply |-> reply,
               left |-> {[ch |-> c, offset |-> Position(c), recovered |-> Recovered(c)] : c \in reply},
               pubs |-> {p \in [ch : reply, offset : 1..world.events] :
                            p.offset \in (Position(p.ch) + 1)..top[p.ch]}]}
  BY DEF ConnectReply
<1>2. /\ reply \subseteq Channels /\ \A c \in reply : Position(c) \in Nat /\ Recovered(c) \in BOOLEAN
      /\ world.events \in Nat /\ conn \in Nat \ {0}
  BY WorldFacts, PositionFacts DEF Types, ConnectReply, LinkTypes
<1> DEFINE left == {[ch |-> c, offset |-> Position(c), recovered |-> Recovered(c)] : c \in reply}
           pubs == {p \in [ch : reply, offset : 1..world.events] :
                       p.offset \in (Position(p.ch) + 1)..top[p.ch]}
           t == [conn |-> conn, kind |-> "reply", at |-> "connected", ch |-> Nobody, offset |-> 0,
                 reply |-> reply, left |-> left, pubs |-> pubs]
<1>3. held' = reply /\ tasks' = tasks \cup {t}
  BY <1>1
<1>4. left \subseteq Entry
  BY <1>2 DEF Entry
<1>5. pubs \subseteq Publication
  BY <1>2 DEF Publication
<1>6. Replying(t, reply)
  BY DEF Replying
<1>7. t \in Task
  <2> HIDE DEF left, pubs
  <2> QED
    BY <1>2, <1>4, <1>5 DEF Task
<1> HIDE DEF t
<1> QED
  BY <1>2, <1>3, <1>6, <1>7

LEMMA ReplyShape ==
    ASSUME NEW t \in Task, NEW reply \in SUBSET Channels, Replying(t, reply) PROVE Shape(t)
<1>1. /\ t.kind = "reply" /\ t.at = "connected" /\ t.reply = reply
  BY DEF Replying
<1>2. \A e \in t.left : \E c \in reply : e = [ch |-> c, offset |-> Position(c), recovered |-> Recovered(c)]
  BY DEF Replying
<1>3. \A e \in t.left : /\ e.ch \in reply
                        /\ e = [ch |-> e.ch, offset |-> Position(e.ch), recovered |-> Recovered(e.ch)]
  BY <1>2
<1>4. \A p \in t.pubs : p \in [ch : reply, offset : 1..world.events]
  BY DEF Replying
<1>5. \A p \in t.pubs : p.ch \in reply /\ p.offset # 0
  BY <1>4
<1> QED
  BY <1>1, <1>3, <1>5 DEF Shape

LEMMA BaseConnectReply == ASSUME Base, ConnectReply PROVE Base'
<1>1. /\ conn # 0 /\ ~connected /\ connected' = TRUE /\ asked' = {}
      /\ UNCHANGED <<transport_id, conn, world, registered, offset, valid, server_pending,
                     state, attempt, push_id, subs_by_id, commands, messages, top,
                     serves, ids, last_id, told, log, base, events, calls, faults>>
  BY DEF ConnectReply, registryVars, subVars, appVars
<1>2. PICK reply \in SUBSET world.channels : \E t \in Task :
          /\ held' = reply /\ tasks' = tasks \cup {t} /\ Replying(t, reply)
          /\ reply \subseteq Channels
  BY ReplyTask
<1>3. PICK t \in Task : /\ held' = reply /\ tasks' = tasks \cup {t} /\ Replying(t, reply)
                        /\ reply \subseteq Channels
  BY <1>2
<1>4. t.conn = transport_id /\ t.at = "connected" /\ t.kind = "reply" /\ t.reply = reply
      /\ transport_id \in Nat
  BY <1>1, <1>3 DEF Replying, Base, Types, LinkTypes
<1>5. Live = {} /\ Live' = {t}
  BY <1>1, <1>3, <1>4 DEF Base, Closed, Live
<1>6. Types'
  <2>1. LinkTypes'
    BY <1>1 DEF Base, Types, LinkTypes
  <2>2. TaskTypes'
    BY <1>3 DEF Base, Types, TaskTypes
  <2>3. ServerTypes'
    BY <1>1, <1>3 DEF Base, Types, ServerTypes
  <2>4. RegistryTypes' /\ SubTypes' /\ WireTypes' /\ AppTypes' /\ BoundTypes'
    BY <1>1 DEF Base, Types, RegistryTypes, SubTypes, WireTypes, AppTypes, BoundTypes
  <2> QED
    BY <2>1, <2>2, <2>3, <2>4 DEF Types
<1>7. Closed'
  BY <1>1 DEF Closed
<1>8. Tasks' /\ Bounded'
  BY <1>1, <1>3, <1>4, <1>5 DEF Base, Tasks, Bounded
<1>9. Shapes'
  <2>1. Shape(t)
    BY <1>3, ReplyShape
  <2> QED
    BY <1>3, <2>1 DEF Base, Shapes, Shape
<1>10. Pending'
  <2>1. Giving = {} /\ Giving' = {}
    BY <1>4, <1>5 DEF Giving
  <2> QED
    BY <1>1, <2>1 DEF Base, Pending
<1>11. Validated'
  <2>1. \A c \in reply : LeftToTell(c)'
    <3>1. ASSUME NEW c \in reply PROVE \E e \in t.left : e.ch = c
      <4> DEFINE e == [ch |-> c, offset |-> Position(c), recovered |-> Recovered(c)]
      <4>1. e.ch = c
        OBVIOUS
      <4>2. e \in t.left
        BY <1>3 DEF Replying
      <4> HIDE DEF e
      <4> QED
        BY <4>1, <4>2
    <3> QED
      BY <1>5, <3>1 DEF LeftToTell
  <2> QED
    BY <1>1, <1>4, <1>5, <2>1 DEF Validated
<1> QED
  BY <1>6, <1>7, <1>8, <1>9, <1>10, <1>11 DEF Base

-----------------------------------------------------------------------------
(* Base is inductive: handlers that return *)

LEMMA LiveFacts ==
    ASSUME Base, NEW t \in tasks
    PROVE  /\ ConnectionCurrent(t.conn) <=> t \in Live
           /\ t \in Live => connected /\ conn = transport_id /\ Live = {t} /\ transport_id # 0
           /\ t.at = "publication" => (Moves(t) <=> t \in Live /\ t.ch \in registered)
           /\ t \in Live => NotPending(t) = {}
           /\ t \notin Live => NotPending(t) = server_pending
<1>1. t.conn \in Nat \ {0} /\ t \in Task
  BY TaskFacts DEF Base, Types, TaskTypes
<1>2. t \in Live => connected /\ conn = transport_id /\ Live = {t} /\ transport_id # 0
  <2>1. t \in Live => connected
    BY DEF Base, Closed
  <2>2. connected => conn = transport_id /\ transport_id # 0
    BY DEF Base, Types, LinkTypes
  <2>3. t \in Live => Live = {t}
    BY DEF Base, Tasks
  <2> QED
    BY <2>1, <2>2, <2>3
<1>3. ConnectionCurrent(t.conn) <=> t \in Live
  <2>1. ConnectionCurrent(t.conn) => t.conn = transport_id
    BY DEF ConnectionCurrent, Base, Types, LinkTypes
  <2> QED
    BY <1>2, <2>1 DEF Live, ConnectionCurrent
<1>4. t.at = "publication" => (Moves(t) <=> t \in Live /\ t.ch \in registered)
  BY DEF Moves, Live
<1>5. \A p \in server_pending : \E u \in Giving : p = [ch |-> u.ch, conn |-> u.conn, offset |-> u.offset]
  BY DEF Base, Pending
<1>6. \A p \in server_pending : p.conn = transport_id
  BY <1>5 DEF Giving, Live
<1>7. ASSUME t \in Live PROVE NotPending(t) = {}
  <2>1. CASE t.at = "publication"
    <3>1. \A p \in server_pending : p.ch = t.ch /\ p.conn = t.conn
      BY <1>2, <1>5, <1>7 DEF Giving
    <3> QED
      BY <2>1, <3>1 DEF NotPending
  <2>2. CASE t.at # "publication"
    <3>1. Giving = {}
      BY <1>2, <1>7, <2>2 DEF Giving
    <3>2. server_pending = {}
      BY <1>5, <3>1
    <3> QED
      BY <2>2, <3>2 DEF NotPending
  <2> QED
    BY <2>1, <2>2
<1>8. ASSUME t \notin Live PROVE NotPending(t) = server_pending
  BY <1>6, <1>8 DEF NotPending, Live
<1> QED
  BY <1>2, <1>3, <1>4, <1>7, <1>8

LEMMA MovedTypes ==
    ASSUME Base, NEW t \in tasks
    PROVE  /\ Moved(t) \in [Channels -> Nat] /\ \A c \in Channels \ valid : Moved(t)[c] = 0
           /\ t \notin Live => Moved(t) = offset
           /\ t \in Live /\ t.at # "publication" => Moved(t) = offset
<1>1. offset \in [Channels -> Nat] /\ \A c \in Channels \ valid : offset[c] = 0
  BY DEF Base, Types, RegistryTypes
<1>2. CASE Moves(t)
  <2>1. t \in Live /\ t.at = "publication" /\ t.ch \in registered
    BY <1>2, LiveFacts DEF Moves
  <2>2. t.ch \in valid
    BY <2>1, GivingValid DEF Giving
  <2>3. t.offset \in Nat /\ t.ch \in Channels
    BY <2>2, TaskFacts DEF Base, Types, TaskTypes, RegistryTypes
  <2>4. Moved(t) = [offset EXCEPT ![t.ch] = t.offset]
    BY <1>2 DEF Moved
  <2> QED
    BY <1>1, <2>1, <2>2, <2>3, <2>4
<1>3. CASE ~Moves(t)
  <2>1. Moved(t) = offset
    BY <1>3 DEF Moved
  <2> QED
    BY <1>1, <2>1
<1> QED
  BY <1>2, <1>3


\* What is left of a task when the next channel is told, or the next publication given.
Telling(t, e) == [t EXCEPT !.at = "subscribed", !.ch = e.ch, !.left = @ \ {e}]
Given(t, p) == [t EXCEPT !.at = "publication", !.ch = p.ch, !.offset = p.offset, !.pubs = @ \ {p}]

LEMMA TellingFacts ==
    ASSUME NEW t \in Task, NEW e \in t.left
    PROVE  LET u == Telling(t, e) IN
           /\ u \in Task /\ u.conn = t.conn /\ u.kind = t.kind /\ u.at = "subscribed" /\ u.ch = e.ch
           /\ u.offset = t.offset /\ u.reply = t.reply /\ u.left = t.left \ {e} /\ u.pubs = t.pubs
<1>1. e.ch \in Channels
  BY TaskFacts
<1> QED
  BY <1>1 DEF Task, Telling

LEMMA GivenFacts ==
    ASSUME NEW t \in Task, NEW p \in t.pubs
    PROVE  LET u == Given(t, p) IN
           /\ u \in Task /\ u.conn = t.conn /\ u.kind = t.kind /\ u.at = "publication" /\ u.ch = p.ch
           /\ u.offset = p.offset /\ u.reply = t.reply /\ u.left = t.left /\ u.pubs = t.pubs \ {p}
<1>1. p.ch \in Channels /\ p.offset \in Nat
  BY TaskFacts
<1> QED
  BY <1>1 DEF Task, Given

\* A handler leaves another task of its connection, or none.
LEMMA LiveAfter ==
    ASSUME Base, NEW t \in tasks, NEW U \in SUBSET Task, \A u \in U : u.conn = t.conn,
           tasks' = (tasks \ {t}) \cup U, transport_id' = transport_id
    PROVE  /\ t \in Live => Live' = U
           /\ t \notin Live => Live' = Live
<1>1. CASE t \in Live
  <2>1. Live = {t} /\ t.conn = transport_id
    BY <1>1, LiveFacts DEF Live
  <2> QED
    BY <1>1, <2>1 DEF Live
<1>2. CASE t \notin Live
  BY <1>2 DEF Live
<1> QED
  BY <1>1, <1>2

LEMMA BaseHandler ==
    ASSUME Base, NEW t \in tasks, NEW U \in SUBSET Task,
           \A u, v \in U : u = v, \A u \in U : u.conn = t.conn /\ Shape(u),
           tasks' = (tasks \ {t}) \cup U,
           UNCHANGED <<linkVars, subVars, commands, messages, serverVars, events, calls, faults>>,
           RegistryTypes', AppTypes', Pending', Validated'
    PROVE  Base'
<1>1. UNCHANGED <<transport_id, conn, connected, asked, world, state, attempt, push_id, subs_by_id,
                  commands, messages, held, top, serves, ids, last_id, events, calls, faults>>
  BY DEF linkVars, subVars, serverVars
<1>2. Types'
  <2>1. LinkTypes' /\ SubTypes' /\ WireTypes' /\ ServerTypes' /\ BoundTypes'
    BY <1>1 DEF Base, Types, LinkTypes, SubTypes, WireTypes, ServerTypes, BoundTypes
  <2>2. TaskTypes'
    BY DEF Base, Types, TaskTypes
  <2> QED
    BY <2>1, <2>2 DEF Types
<1>3. (t \in Live => Live' = U) /\ (t \notin Live => Live' = Live)
  BY <1>1, LiveAfter
<1>4. Closed'
  <2>1. ~connected => Live = {} /\ t \notin Live
    BY DEF Base, Closed
  <2> QED
    BY <1>1, <1>3, <2>1 DEF Base, Closed
<1>5. Tasks'
  <2>1. \A u, v \in Live' : u = v
    BY <1>3 DEF Base, Tasks
  <2> QED
    BY <1>1, <2>1 DEF Base, Tasks
<1>6. Bounded'
  BY <1>1 DEF Base, Bounded
<1>7. Shapes'
  BY DEF Base, Shapes, Shape
<1> QED
  BY <1>2, <1>4, <1>5, <1>6, <1>7 DEF Base

LEMMA BaseTells ==
    ASSUME Base, NEW t \in tasks, TellsNext(t),
           UNCHANGED <<linkVars, subVars, commands, messages, serverVars, events, calls, faults>>
    PROVE  Base'
<1>1. PICK e \in t.left :
        /\ Register(e.ch, e.offset)
        /\ told' = told \cup {e.ch}
        /\ base' = IF e.recovered THEN base ELSE [base EXCEPT ![e.ch] = e.offset]
        /\ tasks' = (tasks \ {t}) \cup {Telling(t, e)}
  BY DEF TellsNext, Telling
<1>2. t \in Task /\ e.ch \in Channels /\ e.offset \in Nat
  BY TaskFacts DEF Base, Types, TaskTypes
<1>3. t \in Live /\ Live = {t}
  BY LiveFacts DEF TellsNext
<1> DEFINE u == Telling(t, e)
<1>4. /\ u \in Task /\ u.conn = t.conn /\ u.kind = t.kind /\ u.at = "subscribed" /\ u.ch = e.ch
      /\ u.offset = t.offset /\ u.reply = t.reply /\ u.left = t.left \ {e} /\ u.pubs = t.pubs
  BY <1>2, TellingFacts
<1>5. tasks' = (tasks \ {t}) \cup {u}
  BY <1>1
<1> HIDE DEF u
<1>6. Shape(u)
  BY <1>4 DEF Base, Shapes, Shape
<1>7. RegistryTypes'
  BY <1>1, <1>2 DEF Register, RegistryTypes, Base, Types
<1>8. AppTypes'
  <2>1. log' = log
    BY DEF TellsNext
  <2>2. base' \in [Channels -> Nat]
    BY <1>1, <1>2 DEF Base, Types, AppTypes
  <2> QED
    BY <1>1, <1>2, <2>1, <2>2 DEF Base, Types, AppTypes
<1>9. Live' = {u}
  BY <1>3, <1>4, <1>5, LiveAfter DEF linkVars
<1>10. Pending'
  <2>1. Giving = {} /\ Giving' = {}
    <3>1. t.at # "publication"
      BY <1>1 DEF Base, Shapes, Shape
    <3> QED
      BY <1>3, <1>4, <1>9, <3>1 DEF Giving
  <2>2. server_pending' = server_pending
    BY DEF TellsNext
  <2> QED
    BY <2>1, <2>2 DEF Base, Pending
<1>11. Validated'
  <2>1. ASSUME connected', NEW c \in registered' \ valid'
        PROVE  u.kind = "reply" /\ (c \notin u.reply \/ LeftToTell(c)')
    <3>1. connected /\ c \in registered \ valid /\ c # e.ch
      BY <1>1, <2>1 DEF Register, linkVars
    <3>2. t.kind = "reply" /\ (c \notin t.reply \/ \E f \in t.left : f.ch = c)
      BY <1>3, <3>1 DEF Base, Validated, LeftToTell
    <3> QED
      BY <1>4, <1>9, <3>1, <3>2 DEF LeftToTell
  <2> QED
    BY <1>9, <2>1 DEF Validated
<1> DEFINE U == {u}
<1>20. /\ U \in SUBSET Task /\ (\A v, w \in U : v = w) /\ \A v \in U : v.conn = t.conn /\ Shape(v)
       /\ tasks' = (tasks \ {t}) \cup U
  BY <1>4, <1>5, <1>6
<1> HIDE DEF U
<1> QED
  BY <1>20, <1>7, <1>8, <1>10, <1>11, BaseHandler

LEMMA BaseGives ==
    ASSUME Base, NEW t \in tasks, GivesNext(t),
           UNCHANGED <<linkVars, subVars, commands, messages, serverVars, events, calls, faults>>
    PROVE  Base'
<1>1. PICK p \in t.pubs :
        /\ IsNext(t, p)
        /\ offset' = Moved(t)
        /\ server_pending' = {q \in NotPending(t) : q.ch # p.ch}
                             \cup {[ch |-> p.ch, conn |-> t.conn, offset |-> p.offset]}
        /\ log' = [log EXCEPT ![p.ch] = Append(@, p.offset)]
        /\ tasks' = (tasks \ {t}) \cup {Given(t, p)}
  BY DEF GivesNext, Given
<1>2. t \in Task /\ p.ch \in Channels /\ p.offset \in Nat
  BY TaskFacts DEF Base, Types, TaskTypes
<1>3. t \in Live /\ Live = {t} /\ NotPending(t) = {}
  BY LiveFacts DEF GivesNext
<1>4. t.left = {} /\ UNCHANGED <<registered, valid, told, base>>
  BY DEF GivesNext
<1>5. t.kind = "reply" /\ p.ch \in t.reply /\ p.offset # 0
  BY <1>1, <1>2, TaskFacts DEF Base, Shapes, Shape
<1> DEFINE u == Given(t, p)
<1>6. /\ u \in Task /\ u.conn = t.conn /\ u.kind = t.kind /\ u.at = "publication" /\ u.ch = p.ch
      /\ u.offset = p.offset /\ u.reply = t.reply /\ u.left = t.left /\ u.pubs = t.pubs \ {p}
  BY <1>2, GivenFacts
<1>7. tasks' = (tasks \ {t}) \cup {u}
  BY <1>1
<1> HIDE DEF u
<1>8. Shape(u)
  BY <1>2, <1>4, <1>5, <1>6 DEF Base, Shapes, Shape
<1>9. RegistryTypes'
  BY <1>1, <1>4, MovedTypes DEF RegistryTypes, Base, Types
<1>10. AppTypes'
  BY <1>1, <1>2, <1>4 DEF Base, Types, AppTypes
<1>11. Live' = {u}
  BY <1>3, <1>6, <1>7, LiveAfter DEF linkVars
<1>12. Pending'
  <2>1. Giving' = {u}
    BY <1>6, <1>11 DEF Giving
  <2>2. server_pending' = {[ch |-> u.ch, conn |-> u.conn, offset |-> u.offset]}
    BY <1>1, <1>3, <1>6
  <2> QED
    BY <2>1, <2>2 DEF Pending
<1>13. Validated'
  <2>1. ASSUME connected', NEW c \in registered' \ valid' PROVE c \notin t.reply
    <3>1. connected /\ c \in registered \ valid
      BY <1>4, <2>1 DEF linkVars
    <3> QED
      BY <1>3, <1>4, <3>1 DEF Base, Validated, LeftToTell
  <2> QED
    BY <1>5, <1>6, <1>11, <2>1 DEF Validated
<1> DEFINE U == {u}
<1>20. /\ U \in SUBSET Task /\ (\A v, w \in U : v = w) /\ \A v \in U : v.conn = t.conn /\ Shape(v)
       /\ tasks' = (tasks \ {t}) \cup U
  BY <1>6, <1>7, <1>8
<1> HIDE DEF U
<1> QED
  BY <1>20, <1>9, <1>10, <1>12, <1>13, BaseHandler

\* The last handler of a task.
LEMMA LastHandler ==
    ASSUME Base, NEW t \in tasks, tasks' = tasks \ {t}, transport_id' = transport_id,
           server_pending' = NotPending(t)
    PROVE  /\ t \in Live => Live' = {}
           /\ t \notin Live => Live' = Live
           /\ Pending'
<1> DEFINE U == {}
<1>1. U \in SUBSET Task /\ (\A u \in U : u.conn = t.conn) /\ tasks' = (tasks \ {t}) \cup U /\ U = {}
  OBVIOUS
<1> HIDE DEF U
<1>2. (t \in Live => Live' = {}) /\ (t \notin Live => Live' = Live)
  BY <1>1, LiveAfter
<1>3. (t \in Live => Giving' = {}) /\ (t \notin Live => Giving' = Giving)
  BY <1>2 DEF Giving
<1>4. Pending'
  BY <1>3, LiveFacts DEF Base, Pending
<1> QED
  BY <1>2, <1>4

LEMMA BaseDrops ==
    ASSUME Base, NEW t \in tasks, DropsTheRest(t),
           UNCHANGED <<linkVars, subVars, commands, messages, serverVars, events, calls, faults>>
    PROVE  Base'
<1> DEFINE dropped == NotInReply(t.reply)
<1>1. /\ t.kind = "reply" /\ t.left = {}
      /\ registered' = registered \ dropped /\ valid' = valid \ dropped
      /\ offset' = [c \in Channels |-> IF c \in dropped THEN 0 ELSE Moved(t)[c]]
      /\ told' = (IF ConnectionCurrent(t.conn) THEN told \ dropped ELSE told)
      /\ server_pending' = NotPending(t) /\ tasks' = tasks \ {t}
      /\ log' = log /\ base' = base
  BY DEF DropsTheRest
<1>2. /\ t \in Live => Live' = {}
      /\ t \notin Live => Live' = Live
      /\ Pending'
  BY <1>1, LastHandler DEF linkVars
<1>3. RegistryTypes'
  <2>1. \A c \in Channels : offset'[c] \in Nat /\ (c \notin valid' => offset'[c] = 0)
    <3> HIDE DEF dropped
    <3> QED
      BY <1>1, MovedTypes
  <2>2. registered' \subseteq Channels /\ valid' \subseteq registered'
    BY <1>1 DEF Base, Types, RegistryTypes
  <2>3. offset' \in [Channels -> Nat]
    BY <1>1, <2>1
  <2> QED
    BY <2>1, <2>2, <2>3 DEF RegistryTypes
<1>4. AppTypes'
  <2>1. told' \subseteq Channels
    BY <1>1 DEF Base, Types, AppTypes
  <2> QED
    BY <1>1, <2>1 DEF Base, Types, AppTypes
<1>5. Validated'
  <2>1. SUFFICES ASSUME connected', NEW c \in registered' \ valid'
                 PROVE \E u \in Live' : u.kind = "reply" /\ (c \notin u.reply \/ LeftToTell(c)')
    BY DEF Validated
  <2>2. connected /\ c \in registered \ valid /\ c \in t.reply
    BY <1>1, <2>1 DEF linkVars, NotInReply
  <2>3. PICK u \in Live : u.kind = "reply" /\ (c \notin u.reply \/ LeftToTell(c))
    BY <2>2 DEF Base, Validated
  <2>4. t \notin Live
    <3>1. SUFFICES ASSUME t \in Live PROVE FALSE
      OBVIOUS
    <3>2. Live = {t}
      BY <3>1, LiveFacts
    <3> QED
      BY <1>1, <2>2, <2>3, <3>2 DEF LeftToTell
  <2> QED
    BY <1>2, <2>3, <2>4 DEF LeftToTell
<1> DEFINE U == {}
<1>20. /\ U \in SUBSET Task /\ (\A v, w \in U : v = w) /\ \A v \in U : v.conn = t.conn /\ Shape(v)
       /\ tasks' = (tasks \ {t}) \cup U
  BY <1>1
<1> HIDE DEF U
<1> QED
  BY <1>20, <1>2, <1>3, <1>4, <1>5, BaseHandler

LEMMA BaseStops ==
    ASSUME Base, NEW t \in tasks, Stops(t),
           UNCHANGED <<linkVars, subVars, commands, messages, serverVars, events, calls, faults>>
    PROVE  Base'
<1>1. /\ offset' = Moved(t) /\ server_pending' = NotPending(t) /\ tasks' = tasks \ {t}
      /\ UNCHANGED <<registered, valid, told, log, base>>
      /\ t \in Live => t.kind = "push"
  BY LiveFacts DEF Stops, appVars
<1>2. /\ t \in Live => Live' = {}
      /\ t \notin Live => Live' = Live
      /\ Pending'
  BY <1>1, LastHandler DEF linkVars
<1>3. RegistryTypes' /\ AppTypes'
  BY <1>1, MovedTypes DEF RegistryTypes, AppTypes, Base, Types
<1>4. Validated'
  <2>1. SUFFICES ASSUME connected', NEW c \in registered' \ valid'
                 PROVE \E u \in Live' : u.kind = "reply" /\ (c \notin u.reply \/ LeftToTell(c)')
    BY DEF Validated
  <2>2. PICK u \in Live : u.kind = "reply" /\ (c \notin u.reply \/ LeftToTell(c))
    BY <1>1, <2>1 DEF Base, Validated, linkVars
  <2>3. t \notin Live
    BY <1>1, <2>2, LiveFacts
  <2> QED
    BY <1>2, <2>2, <2>3 DEF LeftToTell
<1> DEFINE U == {}
<1>20. /\ U \in SUBSET Task /\ (\A v, w \in U : v = w) /\ \A v \in U : v.conn = t.conn /\ Shape(v)
       /\ tasks' = (tasks \ {t}) \cup U
  BY <1>1
<1> HIDE DEF U
<1> QED
  BY <1>20, <1>2, <1>3, <1>4, BaseHandler

LEMMA BaseReturns == ASSUME Base, HandlerReturns PROVE Base'
<1>1. PICK t \in tasks : TellsNext(t) \/ GivesNext(t) \/ DropsTheRest(t) \/ Stops(t)
  BY DEF HandlerReturns
<1>2. UNCHANGED <<linkVars, subVars, commands, messages, serverVars, events, calls, faults>>
  BY DEF HandlerReturns
<1> QED
  BY <1>1, <1>2, BaseTells, BaseGives, BaseDrops, BaseStops

-----------------------------------------------------------------------------
(* Base is inductive: messages *)

\* When a message is handled, no handler of the connection runs.
LEMMA ReceiveFacts ==
    ASSUME Base, NEW op, Receives(op)
    PROVE  /\ connected /\ conn = transport_id /\ transport_id \in Nat \ {0}
           /\ Live = {} /\ Giving = {} /\ server_pending = {} /\ registered \subseteq valid
           /\ messages[1] = Head(messages) /\ Head(messages) \in Message /\ Head(messages).op = op
           /\ messages \in Seq(Message) /\ messages # <<>> /\ messages' = Tail(messages)
<1>1. /\ messages # <<>> /\ Head(messages).op = op /\ messages' = Tail(messages)
      /\ \A t \in tasks : t.conn # conn
  BY DEF Receives
<1>2. connected
  BY <1>1 DEF Base, Closed
<1>3. conn = transport_id /\ transport_id \in Nat \ {0}
  BY <1>2 DEF Base, Types, LinkTypes
<1>4. Live = {}
  BY <1>1, <1>3 DEF Live
<1>5. Giving = {}
  BY <1>4 DEF Giving
<1>6. server_pending = {}
  BY <1>5 DEF Base, Pending
<1>7. registered \subseteq valid
  BY <1>2, <1>4 DEF Base, Validated
<1>8. messages \in Seq(Message)
  BY DEF Base, Types, WireTypes
<1>9. messages[1] = Head(messages) /\ Head(messages) \in Message
  BY <1>1, <1>8, TailFacts
<1> QED
  BY <1>1, <1>2, <1>3, <1>4, <1>5, <1>6, <1>7, <1>8, <1>9

LEMMA LiveArrival ==
    ASSUME Base, NEW op, Receives(op), transport_id' = transport_id,
           NEW U \in SUBSET Task, \A u \in U : u.conn = conn, tasks' = tasks \cup U
    PROVE  Live' = U
BY ReceiveFacts DEF Live

LEMMA BaseArrival ==
    ASSUME Base, NEW op, Receives(op), UNCHANGED <<linkVars, commands, serverVars, events, calls, faults>>,
           NEW U \in SUBSET Task, \A u, v \in U : u = v, \A u \in U : u.conn = conn /\ Shape(u),
           tasks' = tasks \cup U,
           RegistryTypes', SubTypes', AppTypes', Pending', registered' \subseteq valid'
    PROVE  Base'
<1>1. UNCHANGED <<transport_id, conn, connected, asked, world, commands,
                  held, top, serves, ids, last_id, events, calls, faults>>
  BY DEF linkVars, serverVars
<1>2. connected /\ conn = transport_id /\ transport_id \in Nat \ {0} /\ Live' = U
  BY <1>1, ReceiveFacts, LiveArrival
<1>3. LinkTypes'
  BY <1>1, <1>2 DEF Base, Types, LinkTypes
<1>4. WireTypes'
  <2>1. messages \in Seq(Message) /\ messages # <<>> /\ messages' = Tail(messages)
    BY ReceiveFacts
  <2>2. \A i \in 1..Len(messages) : messages[i].op = "publication" => messages[i].offset # 0
    BY DEF Base, Types, WireTypes
  <2>3. messages' \in Seq(Message)
    BY <2>1, TailFacts
  <2>4. ASSUME NEW i \in 1..Len(messages') PROVE i + 1 \in 1..Len(messages) /\ messages'[i] = messages[i + 1]
    BY <2>1, <2>4, TailFacts
  <2>5. \A i \in 1..Len(messages') : messages'[i].op = "publication" => messages'[i].offset # 0
    BY <2>2, <2>4
  <2>6. commands' \in Seq(Command)
    BY <1>1 DEF Base, Types, WireTypes
  <2> QED
    BY <2>3, <2>5, <2>6 DEF WireTypes
<1>5. TaskTypes' /\ ServerTypes' /\ BoundTypes'
  BY <1>1 DEF Base, Types, TaskTypes, ServerTypes, BoundTypes
<1>6. Closed'
  BY <1>1, <1>2 DEF Closed
<1>7. Tasks'
  <2>1. \A t \in tasks' : t.conn <= transport_id
    BY <1>2 DEF Base, Tasks
  <2>2. \A u, v \in Live' : u = v
    BY <1>2
  <2> QED
    BY <1>1, <2>1, <2>2 DEF Base, Tasks
<1>8. Bounded'
  BY <1>1 DEF Base, Bounded
<1>9. Shapes'
  BY DEF Base, Shapes, Shape
<1>10. Validated'
  BY DEF Validated
<1> QED
  BY <1>3, <1>4, <1>5, <1>6, <1>7, <1>8, <1>9, <1>10 DEF Base, Types

\* Nothing is handed to the application.
LEMMA BaseQuiet ==
    ASSUME Base, NEW op, Receives(op), UNCHANGED <<linkVars, commands, serverVars, events, calls, faults>>,
           UNCHANGED <<tasks, server_pending>>,
           RegistryTypes', SubTypes', AppTypes', registered' \subseteq valid'
    PROVE  Base' /\ Live' = {}
<1> DEFINE U == {}
<1>1. /\ U \in SUBSET Task /\ (\A u, v \in U : u = v) /\ \A u \in U : u.conn = conn /\ Shape(u)
      /\ tasks' = tasks \cup U /\ U = {}
  OBVIOUS
<1> HIDE DEF U
<1>2. Live' = U
  BY <1>1, LiveArrival DEF linkVars
<1>3. Pending'
  BY <1>1, <1>2, ReceiveFacts DEF Pending, Giving
<1> QED
  BY <1>1, <1>2, <1>3, BaseArrival

\* The handler of a push.
PushTask(at, c, o) == [conn |-> conn, kind |-> "push", at |-> at, ch |-> c, offset |-> o,
                       reply |-> {}, left |-> {}, pubs |-> {}]

LEMMA PushFacts ==
    ASSUME conn \in Nat \ {0}, NEW at \in {"subscribed", "publication"}, NEW c \in Channels, NEW o \in Nat,
           at = "publication" => o # 0
    PROVE  LET t == PushTask(at, c, o) IN
           /\ t \in Task /\ t.conn = conn /\ t.kind = "push" /\ t.at = at /\ t.ch = c /\ t.offset = o
           /\ t.reply = {} /\ t.left = {} /\ t.pubs = {} /\ Shape(t)
<1> DEFINE t == PushTask(at, c, o)
<1>1. /\ t.conn = conn /\ t.kind = "push" /\ t.at = at /\ t.ch = c /\ t.offset = o
      /\ t.reply = {} /\ t.left = {} /\ t.pubs = {}
  BY DEF PushTask
<1>2. t \in Task
  BY DEF PushTask, Task
<1> HIDE DEF t
<1>3. Shape(t)
  BY <1>1 DEF Shape
<1> QED
  BY <1>1, <1>2, <1>3 DEF t

LEMMA PublicationFacts ==
    ASSUME Base, PublicationArrives
    PROVE  /\ Head(messages).ch \in Channels /\ Head(messages).offset \in Nat \ {0}
           /\ messages[1] = Head(messages) /\ Head(messages).op = "publication"
<1>1. Receives("publication")
  BY DEF PublicationArrives
<1>2. /\ messages[1] = Head(messages) /\ Head(messages) \in Message /\ Head(messages).op = "publication"
      /\ messages \in Seq(Message) /\ messages # <<>>
  BY <1>1, ReceiveFacts
<1>3. 1 \in 1..Len(messages)
  BY <1>2, TailFacts
<1>4. Head(messages).offset # 0
  BY <1>2, <1>3 DEF Base, Types, WireTypes
<1> QED
  BY <1>2, <1>4, MessageFacts

LEMMA BasePublication ==
    ASSUME Base, PublicationArrives
    PROVE  /\ Base'
           /\ Head(messages).ch \notin registered => Live' = {}
           /\ Head(messages).ch \in registered
              => LET m == Head(messages) IN Live' = {PushTask("publication", m.ch, m.offset)}
<1> DEFINE m == Head(messages)
<1>1. Receives("publication") /\ m.ch \in Channels /\ m.offset \in Nat \ {0}
  BY PublicationFacts DEF PublicationArrives
<1>2. UNCHANGED <<linkVars, registered, offset, valid, subVars, commands, serverVars, told, base,
                  events, calls, faults>>
  BY DEF PublicationArrives
<1>3. RegistryTypes' /\ SubTypes' /\ registered' \subseteq valid'
  BY <1>1, <1>2, ReceiveFacts DEF subVars, RegistryTypes, SubTypes, Base, Types
<1>4. CASE m.ch \in registered
  <2> DEFINE u == PushTask("publication", m.ch, m.offset)
  <2>1. tasks' = tasks \cup {u}
    BY <1>4 DEF PublicationArrives, Pushed, PushTask
  <2>2. /\ server_pending' = {q \in server_pending : q.ch # m.ch}
                             \cup {[ch |-> m.ch, conn |-> conn, offset |-> m.offset]}
        /\ log' = [log EXCEPT ![m.ch] = Append(@, m.offset)]
    BY <1>4 DEF PublicationArrives
  <2>3. conn \in Nat \ {0} /\ server_pending = {}
    BY <1>1, ReceiveFacts
  <2>4. /\ u \in Task /\ u.conn = conn /\ u.at = "publication" /\ u.ch = m.ch /\ u.offset = m.offset /\ Shape(u)
    BY <1>1, <2>3, PushFacts
  <2> HIDE DEF u, m
  <2> DEFINE U == {u}
  <2>5. /\ U \in SUBSET Task /\ (\A v, w \in U : v = w) /\ \A v \in U : v.conn = conn /\ Shape(v)
        /\ tasks' = tasks \cup U /\ U = {u}
    BY <2>1, <2>4
  <2> HIDE DEF U
  <2>6. Live' = U
    BY <1>1, <1>2, <2>5, LiveArrival DEF linkVars
  <2>7. Giving' = {u}
    BY <2>4, <2>5, <2>6 DEF Giving
  <2>8. Pending'
    BY <2>2, <2>3, <2>4, <2>7 DEF Pending
  <2>9. AppTypes'
    BY <1>1, <1>2, <2>2 DEF AppTypes, Base, Types
  <2>10. Base'
    BY <1>1, <1>2, <1>3, <2>5, <2>8, <2>9, BaseArrival
  <2> QED
    BY <1>4, <2>5, <2>6, <2>10 DEF u, m
<1>5. CASE m.ch \notin registered
  <2>1. UNCHANGED <<tasks, server_pending, log>>
    BY <1>5 DEF PublicationArrives
  <2>2. AppTypes'
    BY <1>2, <2>1 DEF AppTypes, Base, Types
  <2> QED
    BY <1>1, <1>2, <1>3, <1>5, <2>1, <2>2, BaseQuiet
<1> QED
  BY <1>4, <1>5

LEMMA BaseSubscribed ==
    ASSUME Base, SubscribedByServer
    PROVE  Base' /\ Live' = {PushTask("subscribed", Head(messages).ch, 0)}
<1> DEFINE m == Head(messages)
<1>1. Receives("subscribe")
  BY DEF SubscribedByServer
<1>2. m.ch \in Channels /\ m.offset \in Nat
  BY <1>1, ReceiveFacts, MessageFacts
<1>3. /\ Register(m.ch, m.offset)
      /\ told' = told \cup {m.ch} /\ base' = [base EXCEPT ![m.ch] = m.offset]
      /\ tasks' = tasks \cup {PushTask("subscribed", m.ch, 0)}
      /\ UNCHANGED <<linkVars, server_pending, subVars, commands, serverVars, log, events, calls, faults>>
  BY DEF SubscribedByServer, Pushed, PushTask
<1>4. conn \in Nat \ {0} /\ server_pending = {} /\ registered \subseteq valid
  BY <1>1, ReceiveFacts
<1> DEFINE u == PushTask("subscribed", m.ch, 0)
<1>5. /\ u \in Task /\ u.conn = conn /\ u.at = "subscribed" /\ Shape(u)
  BY <1>2, <1>4, PushFacts
<1> HIDE DEF u, m
<1> DEFINE U == {u}
<1>6. /\ U \in SUBSET Task /\ (\A v, w \in U : v = w) /\ \A v \in U : v.conn = conn /\ Shape(v)
      /\ tasks' = tasks \cup U /\ U = {u}
  BY <1>3, <1>5 DEF u
<1> HIDE DEF U
<1>7. Live' = U
  BY <1>1, <1>3, <1>6, LiveArrival DEF linkVars
<1>8. Giving' = {}
  BY <1>5, <1>6, <1>7 DEF Giving
<1>9. Pending'
  BY <1>3, <1>4, <1>8 DEF Pending
<1>10. RegistryTypes' /\ registered' \subseteq valid'
  BY <1>2, <1>3, <1>4 DEF Register, RegistryTypes, Base, Types
<1>11. SubTypes' /\ AppTypes'
  BY <1>2, <1>3 DEF subVars, SubTypes, AppTypes, Base, Types
<1>12. Base'
  BY <1>1, <1>3, <1>6, <1>9, <1>10, <1>11, BaseArrival
<1> QED
  BY <1>6, <1>7, <1>12 DEF u, m

LEMMA BaseUnsubscribed == ASSUME Base, UnsubscribedByServer PROVE Base' /\ Live' = {}
<1> DEFINE c == Head(messages).ch
<1>1. Receives("unsubscribe")
  BY DEF UnsubscribedByServer
<1>2. /\ registered' = registered \ {c} /\ valid' = valid \ {c}
      /\ offset' = [offset EXCEPT ![c] = 0] /\ told' = told \ {c}
      /\ UNCHANGED <<linkVars, server_pending, tasks, subVars, commands, serverVars, log, base, events,
                     calls, faults>>
  BY DEF UnsubscribedByServer
<1>3. registered \subseteq valid /\ c \in Channels
  BY <1>1, ReceiveFacts, MessageFacts
<1> HIDE DEF c
<1>4. RegistryTypes' /\ registered' \subseteq valid'
  BY <1>2, <1>3 DEF RegistryTypes, Base, Types
<1>5. SubTypes' /\ AppTypes'
  BY <1>2 DEF subVars, SubTypes, AppTypes, Base, Types
<1> QED
  BY <1>1, <1>2, <1>4, <1>5, BaseQuiet

\* Only client-side subscriptions change.
LEMMA SetPushIdTypes ==
    ASSUME SubTypes, NEW x \in Subs, NEW id \in Ids, SetPushId(x, id)
    PROVE  /\ push_id' \in [Subs -> Ids] /\ subs_by_id' \in [Ids -> Subs \cup {Nobody}]
<1>1. \A i \in Ids : subs_by_id[i] \in Subs \cup {Nobody}
  BY DEF SubTypes
<1> QED
  BY <1>1 DEF SubTypes, SetPushId

LEMMA RouteTypes ==
    ASSUME SubTypes, NEW m, m.sub \in Subs, m.id \in Ids
    PROVE  SubForPush(m) \in Subs \cup {Nobody} /\ Route(m) \in Subs \cup {Nobody}
<1>1. SubForPush(m) \in Subs \cup {Nobody}
  BY DEF SubForPush, SubTypes
<1> QED
  BY <1>1 DEF Route

LEMMA ClientArrivalTypes ==
    ASSUME Base, SubscribeReply \/ JoinArrives \/ SubscribesAgain
    PROVE  /\ SubTypes'
           /\ \E op \in {"subscribed", "join", "again"} : Receives(op)
           /\ UNCHANGED <<linkVars, registryVars, tasks, commands, serverVars, appVars, events, calls, faults>>
<1>1. CASE SubscribeReply
  <2> DEFINE m == Head(messages)
  <2>1. /\ Receives("subscribed")
        /\ UNCHANGED <<linkVars, registryVars, tasks, commands, serverVars, appVars, events, calls, faults>>
    BY <1>1 DEF SubscribeReply
  <2>2. m.sub \in Subs /\ m.id \in Ids
    BY <2>1, ReceiveFacts, MessageFacts
  <2>3. SubTypes
    BY DEF Base, Types
  <2>4. CASE state[m.sub] = "subscribing" /\ attempt[m.sub] = m.attempt
    <3>1. /\ state' = [state EXCEPT ![m.sub] = "subscribed"]
          /\ attempt' = [attempt EXCEPT ![m.sub] = @ + 1]
          /\ SetPushId(m.sub, m.id)
      BY <1>1, <2>4 DEF SubscribeReply
    <3> HIDE DEF m
    <3>2. state' \in [Subs -> {"unsubscribed", "subscribing", "subscribed"}] /\ attempt' \in [Subs -> Nat]
      BY <2>2, <2>3, <3>1 DEF SubTypes
    <3> QED
      BY <2>1, <2>2, <2>3, <3>1, <3>2, SetPushIdTypes DEF SubTypes
  <2>5. CASE ~(state[m.sub] = "subscribing" /\ attempt[m.sub] = m.attempt)
    BY <1>1, <2>1, <2>3, <2>5 DEF SubscribeReply, subVars, SubTypes
  <2> QED
    BY <2>4, <2>5
<1>2. CASE JoinArrives
  <2>1. SubTypes'
    BY <1>2 DEF JoinArrives, subVars, Base, Types, SubTypes
  <2> QED
    BY <1>2, <2>1 DEF JoinArrives
<1>3. CASE SubscribesAgain
  <2> DEFINE x == Route(Head(messages))
  <2>1. SubTypes /\ UNCHANGED <<push_id, subs_by_id>>
    BY <1>3 DEF Base, Types, SubscribesAgain
  <2>2. /\ Receives("again")
        /\ UNCHANGED <<linkVars, registryVars, tasks, commands, serverVars, appVars, events, calls, faults>>
    BY <1>3 DEF SubscribesAgain
  <2>3. CASE x = Nobody
    BY <1>3, <2>1, <2>2, <2>3 DEF SubscribesAgain, SubTypes
  <2>4. CASE x # Nobody
    <3>0. Head(messages).sub \in Subs /\ Head(messages).id \in Ids
      BY <2>2, ReceiveFacts, MessageFacts
    <3>5. x \in Subs
      BY <2>1, <2>4, <3>0, RouteTypes
    <3>1. /\ state' = [state EXCEPT ![x] = "subscribing"]
          /\ attempt' = [attempt EXCEPT ![x] = @ + 1]
      BY <1>3, <2>4 DEF SubscribesAgain
    <3> HIDE DEF x
    <3>2. state' \in [Subs -> {"unsubscribed", "subscribing", "subscribed"}]
      BY <2>1, <3>1 DEF SubTypes
    <3>3. attempt' \in [Subs -> Nat]
      BY <2>1, <3>1, <3>5 DEF SubTypes
    <3> QED
      BY <2>1, <2>2, <3>2, <3>3 DEF SubTypes
  <2> QED
    BY <2>3, <2>4
<1> QED
  BY <1>1, <1>2, <1>3

LEMMA BaseClientArrival ==
    ASSUME Base, SubscribeReply \/ JoinArrives \/ SubscribesAgain
    PROVE  Base' /\ Live' = {}
<1>1. PICK op \in {"subscribed", "join", "again"} : Receives(op)
  BY ClientArrivalTypes
<1>2. /\ SubTypes'
      /\ UNCHANGED <<linkVars, registryVars, tasks, commands, serverVars, appVars, events, calls, faults>>
  BY ClientArrivalTypes
<1>3. RegistryTypes' /\ AppTypes' /\ registered' \subseteq valid'
  BY <1>1, <1>2, ReceiveFacts DEF registryVars, appVars, RegistryTypes, AppTypes, Base, Types
<1> QED
  BY <1>1, <1>2, <1>3, BaseQuiet DEF registryVars

-----------------------------------------------------------------------------
(* Base is inductive: client-side subscriptions, the server *)

\* Neither the registry nor a handler moves.
LEMMA BaseElsewhere ==
    ASSUME Base, UNCHANGED <<linkVars, registryVars, tasks, appVars>>,
           SubTypes', WireTypes', ServerTypes', BoundTypes', Bounded', Closed',
           conn = 0 => messages' = <<>> /\ commands' = <<>>
    PROVE  Base' /\ Live' = Live
<1>1. UNCHANGED <<transport_id, conn, connected, asked, world, registered, offset, valid, server_pending,
                  tasks, told, log, base>>
  BY DEF linkVars, registryVars, appVars
<1>2. LinkTypes'
  BY <1>1 DEF Base, Types, LinkTypes
<1>3. RegistryTypes' /\ TaskTypes' /\ AppTypes'
  BY <1>1 DEF Base, Types, RegistryTypes, TaskTypes, AppTypes
<1>4. Live' = Live
  BY <1>1 DEF Live
<1>5. Tasks' /\ Shapes' /\ Pending' /\ Validated'
  BY <1>1, <1>4 DEF Base, Tasks, Shapes, Shape, Pending, Giving, Validated, LeftToTell
<1> QED
  BY <1>2, <1>3, <1>4, <1>5 DEF Base, Types

\* A call of the application, for subscription x.
CallFor(x) ==
    /\ Subscribe(x) \/ Unsubscribe(x)
    /\ attempt' = [attempt EXCEPT ![x] = @ + 1]

LEMMA CallFacts ==
    ASSUME Base, NEW x \in Subs, CallFor(x)
    PROVE  /\ SubTypes' /\ commands' \in Seq(Command)
           /\ ~connected => commands' = commands
           /\ ~connected => \A y \in Subs : state'[y] # "subscribed"
           /\ ~connected => \A i \in Ids : subs_by_id'[i] = Nobody
<1>1. SubTypes /\ commands \in Seq(Command)
  BY DEF Base, Types, WireTypes
<1>2. attempt' \in [Subs -> Nat]
  BY <1>1 DEF SubTypes, CallFor
<1>3. CASE Subscribe(x)
  <2>1. /\ state' = [state EXCEPT ![x] = "subscribing"]
        /\ UNCHANGED <<push_id, subs_by_id, commands>>
    BY <1>3 DEF Subscribe
  <2>2. SubTypes'
    BY <1>1, <1>2, <2>1 DEF SubTypes
  <2>3. ~connected => \A y \in Subs : state'[y] # "subscribed"
    BY <1>1, <2>1 DEF Base, Closed, SubTypes
  <2> QED
    BY <1>1, <2>1, <2>2, <2>3 DEF Base, Closed
<1>4. CASE Unsubscribe(x)
  <2> DEFINE k == [op |-> "unsubscribe", sub |-> x, attempt |-> 0]
  <2>1. /\ state' = [state EXCEPT ![x] = "unsubscribed"]
        /\ SetPushId(x, 0)
        /\ connected => commands' = Append(commands, k)
        /\ ~connected => commands' = commands
    BY <1>4 DEF Unsubscribe
  <2>2. push_id' \in [Subs -> Ids] /\ subs_by_id' \in [Ids -> Subs \cup {Nobody}]
    BY <1>1, <2>1, IdFacts, SetPushIdTypes
  <2>3. state' \in [Subs -> {"unsubscribed", "subscribing", "subscribed"}]
    BY <1>1, <2>1 DEF SubTypes
  <2>4. k \in Command
    BY DEF Command
  <2> HIDE DEF k
  <2>5. commands' \in Seq(Command)
    BY <1>1, <2>1, <2>4, AppendFacts
  <2>6. ~connected => \A y \in Subs : state'[y] # "subscribed"
    BY <1>1, <2>1 DEF Base, Closed, SubTypes
  <2>7. ASSUME ~connected, NEW i \in Ids PROVE subs_by_id'[i] = Nobody
    <3>1. subs_by_id[i] = Nobody
      BY <2>7 DEF Base, Closed
    <3> QED
      BY <2>1, <3>1 DEF SetPushId
  <2> QED
    BY <1>2, <2>1, <2>2, <2>3, <2>5, <2>6, <2>7 DEF SubTypes
<1> QED
  BY <1>3, <1>4 DEF CallFor

LEMMA BaseAppCalls == ASSUME Base, AppCalls PROVE Base' /\ Live' = Live
<1>1. /\ calls > 0 /\ calls' = calls - 1
      /\ UNCHANGED <<linkVars, registryVars, tasks, messages, serverVars, appVars, events, faults>>
  BY DEF AppCalls
<1>2. PICK x \in Subs : CallFor(x)
  BY WorldFacts DEF AppCalls, CallFor, Base, Types
<1>3. SubTypes' /\ commands' \in Seq(Command)
  BY <1>2, CallFacts
<1>4. WireTypes' /\ ServerTypes'
  BY <1>1, <1>3 DEF Base, Types, WireTypes, ServerTypes, serverVars
<1>5. BoundTypes' /\ Bounded'
  BY <1>1 DEF Base, Types, BoundTypes, Bounded, linkVars, serverVars
<1>6. ~connected => commands' = <<>> /\ messages' = <<>>
  BY <1>1, <1>2, CallFacts DEF Base, Closed
<1>7. Closed'
  <2>1. ~connected => \A y \in Subs : state'[y] # "subscribed"
    BY <1>2, CallFacts
  <2>2. ~connected => \A i \in Ids : subs_by_id'[i] = Nobody
    BY <1>2, CallFacts
  <2>3. UNCHANGED <<connected, transport_id, tasks, held, serves, ids>>
    BY <1>1 DEF linkVars, serverVars
  <2>4. Live' = Live
    BY <2>3 DEF Live
  <2> QED
    BY <1>6, <2>1, <2>2, <2>3, <2>4 DEF Base, Closed
<1>8. conn = 0 => ~connected
  BY DEF Base, Types, LinkTypes
<1> QED
  BY <1>1, <1>3, <1>4, <1>5, <1>6, <1>7, <1>8, BaseElsewhere

LEMMA BaseSend == ASSUME Base, SendSubscribe PROVE Base' /\ Live' = Live
<1>1. /\ connected
      /\ UNCHANGED <<linkVars, registryVars, tasks, state, push_id, subs_by_id, messages, serverVars,
                     appVars, events, calls, faults>>
  BY DEF SendSubscribe
<1>2. PICK x \in Subs : /\ attempt' = [attempt EXCEPT ![x] = @ + 1]
                        /\ commands' = Append(commands, [op |-> "subscribe", sub |-> x, attempt |-> attempt[x] + 1])
  BY DEF SendSubscribe
<1>3. attempt \in [Subs -> Nat] /\ commands \in Seq(Command)
  BY DEF Base, Types, SubTypes, WireTypes
<1>4. SubTypes'
  BY <1>1, <1>2 DEF Base, Types, SubTypes
<1>5. WireTypes'
  <2> DEFINE k == [op |-> "subscribe", sub |-> x, attempt |-> attempt[x] + 1]
  <2>1. k \in Command
    BY <1>3 DEF Command
  <2>2. commands' = Append(commands, k)
    BY <1>2
  <2> HIDE DEF k
  <2>3. commands' \in Seq(Command)
    BY <1>3, <2>1, <2>2, AppendFacts
  <2> QED
    BY <1>1, <2>3 DEF Base, Types, WireTypes
<1>6. ServerTypes' /\ BoundTypes' /\ Bounded'
  BY <1>1 DEF Base, Types, ServerTypes, BoundTypes, Bounded, linkVars, serverVars
<1>7. Closed'
  BY <1>1 DEF Closed, linkVars
<1>8. conn # 0
  BY <1>1 DEF Base, Types, LinkTypes
<1> QED
  BY <1>1, <1>4, <1>5, <1>6, <1>7, <1>8, BaseElsewhere

\* What the server says when a subscribe command arrives.
Answer(k, id) == [op |-> "subscribed", sub |-> k.sub, attempt |-> k.attempt, id |-> id]

LEMMA AnswerFacts ==
    ASSUME NEW k \in Command, NEW id \in Ids
    PROVE  /\ Answer(k, id) \in Message /\ Answer(k, id).op = "subscribed"
           /\ Answer(k, id).sub = k.sub /\ Answer(k, id).attempt = k.attempt /\ Answer(k, id).id = id
           /\ k.sub \in Subs /\ k.attempt \in Nat /\ k.op \in {"subscribe", "unsubscribe"}
<1>1. k.sub \in Subs /\ k.attempt \in Nat /\ k.op \in {"subscribe", "unsubscribe"}
  BY DEF Command
<1>2. Answer(k, id) \in Message
  BY <1>1, SubMessage DEF Answer
<1> QED
  BY <1>1, <1>2 DEF Answer

LEMMA ReceivedFacts ==
    ASSUME Base, ServerReceives
    PROVE  /\ connected /\ conn # 0 /\ commands # <<>> /\ Head(commands) \in Command
           /\ commands' = Tail(commands) /\ commands' \in Seq(Command)
           /\ UNCHANGED <<linkVars, registryVars, tasks, subVars, held, top, appVars, events, calls, faults>>
<1>1. commands # <<>> /\ commands' = Tail(commands) /\ commands \in Seq(Command)
  BY DEF ServerReceives, Base, Types, WireTypes
<1>2. connected
  BY <1>1 DEF Base, Closed
<1>3. conn # 0
  BY <1>2 DEF Base, Types, LinkTypes
<1>4. Head(commands) \in Command /\ commands' \in Seq(Command)
  BY <1>1, TailFacts
<1>5. UNCHANGED <<linkVars, registryVars, tasks, subVars, held, top, appVars, events, calls, faults>>
  BY DEF ServerReceives
<1> QED
  BY <1>1, <1>2, <1>3, <1>4, <1>5

LEMMA AnotherMessage ==
    ASSUME WireTypes, NEW m \in Message, m.op = "publication" => m.offset # 0, messages' = Append(messages, m),
           commands' \in Seq(Command)
    PROVE  WireTypes'
<1>1. messages \in Seq(Message)
  BY DEF WireTypes
<1>2. messages' \in Seq(Message) /\ Len(messages') = Len(messages) + 1
  BY <1>1, AppendFacts
<1>3. ASSUME NEW i \in 1..Len(messages'), messages'[i].op = "publication" PROVE messages'[i].offset # 0
  <2>1. i \in 1..Len(messages) \/ i = Len(messages) + 1
    BY <1>1, <1>2, AppendFacts
  <2>2. CASE i \in 1..Len(messages)
    BY <1>1, <1>3, <2>2, AppendFacts DEF WireTypes
  <2>3. CASE i = Len(messages) + 1
    BY <1>1, <1>3, <2>3, AppendFacts
  <2> QED
    BY <2>1, <2>2, <2>3
<1> QED
  BY <1>2, <1>3 DEF WireTypes

LEMMA BaseReceives == ASSUME Base, ServerReceives PROVE Base' /\ Live' = Live
<1> DEFINE k == Head(commands)
<1>1. /\ connected /\ conn # 0 /\ k \in Command /\ commands' \in Seq(Command)
      /\ UNCHANGED <<linkVars, registryVars, tasks, subVars, held, top, appVars, events, calls, faults>>
  BY ReceivedFacts
<1>2. WireTypes' /\ ServerTypes'
  <2>1. WireTypes /\ ServerTypes
    BY DEF Base, Types
  <2>2. CASE k.op = "unsubscribe"
    <3>1. /\ serves' = [serves EXCEPT ![k.sub] = 0] /\ ids' = [ids EXCEPT ![k.sub] = 0]
          /\ UNCHANGED <<messages, last_id>>
      BY <2>2 DEF ServerReceives
    <3> HIDE DEF k
    <3>2. ServerTypes'
      BY <1>1, <2>1, <3>1, IdFacts DEF ServerTypes
    <3>3. WireTypes'
      BY <1>1, <2>1, <3>1 DEF WireTypes
    <3> QED
      BY <3>2, <3>3
  <2>3. CASE k.op # "unsubscribe"
    <3>1. PICK id \in Ids \cap {0, last_id + 1} :
            /\ serves' = [serves EXCEPT ![k.sub] = k.attempt] /\ ids' = [ids EXCEPT ![k.sub] = id]
            /\ messages' = Append(messages, Answer(k, id))
            /\ last_id' = IF id = 0 THEN last_id ELSE id
      BY <2>3 DEF ServerReceives, Answer
    <3> HIDE DEF k
    <3>2. ServerTypes'
      BY <1>1, <2>1, <3>1, AnswerFacts DEF ServerTypes
    <3>3. Answer(k, id) \in Message /\ Answer(k, id).op = "subscribed"
      BY <1>1, AnswerFacts
    <3>4. WireTypes'
      BY <1>1, <2>1, <3>1, <3>3, AnotherMessage
    <3> QED
      BY <3>2, <3>4
  <2> QED
    BY <2>2, <2>3
<1>3. SubTypes' /\ BoundTypes' /\ Bounded' /\ Closed'
  BY <1>1 DEF Base, Types, SubTypes, BoundTypes, Bounded, Closed, linkVars, subVars
<1> QED
  BY <1>1, <1>2, <1>3, BaseElsewhere

\* The events of the server: the message there is more, if any, and the rest.
PublicationOf(c) == [op |-> "publication", ch |-> c, offset |-> top[c] + 1]
StartOf(c) == [op |-> "subscribe", ch |-> c, offset |-> top[c]]
EndOf(c) == [op |-> "unsubscribe", ch |-> c, offset |-> 0]
JoinOf(x) == [op |-> "join", sub |-> x, attempt |-> serves[x], id |-> ids[x]]
AgainOf(x) == [op |-> "again", sub |-> x, attempt |-> 0, id |-> 0]

LEMMA ServerMessages ==
    ASSUME ServerTypes
    PROVE  /\ \A c \in Channels : PublicationOf(c) \in Message /\ StartOf(c) \in Message /\ EndOf(c) \in Message
           /\ \A x \in Subs : JoinOf(x) \in Message /\ AgainOf(x) \in Message
           /\ \A c \in Channels : /\ PublicationOf(c).op = "publication" /\ PublicationOf(c).ch = c
                                  /\ PublicationOf(c).offset = top[c] + 1 /\ top[c] \in Nat
                                  /\ StartOf(c).op = "subscribe" /\ StartOf(c).ch = c
                                  /\ StartOf(c).offset = top[c]
                                  /\ EndOf(c).op = "unsubscribe" /\ EndOf(c).ch = c
           /\ \A x \in Subs : /\ JoinOf(x).op = "join" /\ JoinOf(x).sub = x /\ JoinOf(x).attempt = serves[x]
                              /\ JoinOf(x).id = ids[x] /\ AgainOf(x).op = "again" /\ AgainOf(x).sub = x
                              /\ AgainOf(x).id = 0
<1>1. \A c \in Channels : top[c] \in Nat /\ top[c] + 1 \in Nat
  BY DEF ServerTypes
<1>2. \A x \in Subs : serves[x] \in Nat /\ ids[x] \in Ids
  BY DEF ServerTypes
<1>3. \A c \in Channels : PublicationOf(c) \in Message /\ StartOf(c) \in Message /\ EndOf(c) \in Message
  BY <1>1, ChannelMessage DEF PublicationOf, StartOf, EndOf
<1>4. \A x \in Subs : JoinOf(x) \in Message /\ AgainOf(x) \in Message
  BY <1>2, IdFacts, SubMessage DEF JoinOf, AgainOf
<1>5. \A c \in Channels : /\ PublicationOf(c).op = "publication" /\ PublicationOf(c).ch = c
                          /\ PublicationOf(c).offset = top[c] + 1
                          /\ StartOf(c).op = "subscribe" /\ StartOf(c).ch = c
                          /\ StartOf(c).offset = top[c]
                          /\ EndOf(c).op = "unsubscribe" /\ EndOf(c).ch = c
  BY DEF PublicationOf, StartOf, EndOf
<1>6. \A x \in Subs : /\ JoinOf(x).op = "join" /\ JoinOf(x).sub = x /\ JoinOf(x).attempt = serves[x]
                      /\ JoinOf(x).id = ids[x] /\ AgainOf(x).op = "again" /\ AgainOf(x).sub = x
                      /\ AgainOf(x).id = 0
  BY DEF JoinOf, AgainOf
<1> QED
  BY <1>1, <1>3, <1>4, <1>5, <1>6

\* Each event, with its message.
Publishes(c) ==
    /\ top' = [top EXCEPT ![c] = @ + 1]
    /\ c \in held => messages' = Append(messages, PublicationOf(c))
    /\ c \notin held => messages' = messages
    /\ UNCHANGED <<held, serves, ids, last_id>>
Adds(c) ==
    /\ connected /\ c \notin held /\ held' = held \cup {c}
    /\ messages' = Append(messages, StartOf(c)) /\ UNCHANGED <<top, serves, ids, last_id>>
Ends(c) ==
    /\ c \in held /\ held' = held \ {c}
    /\ messages' = Append(messages, EndOf(c)) /\ UNCHANGED <<top, serves, ids, last_id>>
Pushes(x) ==
    /\ serves[x] # 0 /\ messages' = Append(messages, JoinOf(x))
    /\ UNCHANGED <<held, top, serves, ids, last_id>>
Revokes(x) ==
    /\ serves[x] # 0 /\ serves' = [serves EXCEPT ![x] = 0] /\ ids' = [ids EXCEPT ![x] = 0]
    /\ messages' = Append(messages, AgainOf(x)) /\ UNCHANGED <<held, top, last_id>>

LEMMA ServerCases ==
    ASSUME Base, Server
    PROVE  /\ events > 0 /\ events' = events - 1
           /\ UNCHANGED <<linkVars, registryVars, tasks, subVars, commands, appVars, calls, faults>>
           /\ \/ \E c \in Channels : Publishes(c) \/ Adds(c) \/ Ends(c)
              \/ \E x \in Subs : Pushes(x) \/ Revokes(x)
<1>1. world.channels \subseteq Channels /\ world.subs \subseteq Subs
  BY WorldFacts DEF Base, Types
<1>2. ASSUME NEW c PROVE /\ ServerPublishes(c) => Publishes(c)
                         /\ ServerAdds(c) => Adds(c)
                         /\ ServerEnds(c) => Ends(c)
  BY DEF ServerPublishes, ServerAdds, ServerEnds, Publishes, Adds, Ends, PublicationOf, StartOf, EndOf
<1>3. ASSUME NEW x PROVE /\ ServerPushes(x) => Pushes(x)
                         /\ ServerRevokes(x) => Revokes(x)
  BY DEF ServerPushes, ServerRevokes, Pushes, Revokes, JoinOf, AgainOf, serverVars
<1>4. \/ \E c \in world.channels : ServerPublishes(c) \/ ServerAdds(c) \/ ServerEnds(c)
      \/ \E x \in world.subs : ServerPushes(x) \/ ServerRevokes(x)
  BY DEF Server
<1>5. /\ events > 0 /\ events' = events - 1
      /\ UNCHANGED <<linkVars, registryVars, tasks, subVars, commands, appVars, calls, faults>>
  BY DEF Server, Event
<1> QED
  BY <1>1, <1>2, <1>3, <1>4, <1>5

\* Nothing happens at the server that does not send a message before the connect reply.
LEMMA BaseServer == ASSUME Base, Server PROVE Base' /\ Live' = Live
<1>1. /\ events > 0 /\ events' = events - 1
      /\ UNCHANGED <<linkVars, registryVars, tasks, subVars, commands, appVars, calls, faults>>
      /\ \/ \E c \in Channels : Publishes(c) \/ Adds(c) \/ Ends(c)
         \/ \E x \in Subs : Pushes(x) \/ Revokes(x)
  BY ServerCases
<1>2. WireTypes /\ ServerTypes /\ commands' \in Seq(Command)
  BY <1>1 DEF Base, Types, WireTypes
<1>3. SubTypes' /\ BoundTypes'
  BY <1>1 DEF Base, Types, SubTypes, BoundTypes, subVars, linkVars
<1>4. ~connected => messages = <<>> /\ commands' = <<>>
  BY <1>1 DEF Base, Closed
<1>5. Live' = Live /\ connected' = connected /\ world' = world /\ UNCHANGED <<state, subs_by_id>>
  BY <1>1 DEF Live, linkVars, subVars
<1>6. /\ WireTypes' /\ ServerTypes' /\ Bounded'
      /\ ~connected => messages' = messages /\ UNCHANGED <<held, serves, ids>>
  <2>1. ASSUME NEW c \in Channels, Publishes(c)
        PROVE  /\ WireTypes' /\ ServerTypes' /\ Bounded'
               /\ ~connected => messages' = messages /\ UNCHANGED <<held, serves, ids>>
    <3>1. /\ top' = [top EXCEPT ![c] = @ + 1] /\ UNCHANGED <<held, serves, ids, last_id>>
      BY <2>1 DEF Publishes
    <3>2. ServerTypes'
      BY <1>2, <3>1 DEF ServerTypes
    <3>3. Bounded'
      <4>1. \A d \in Channels : top[d] \in Nat /\ top'[d] <= top[d] + 1
        BY <1>2, <3>1 DEF ServerTypes
      <4>2. world.events \in Nat /\ events \in Nat
        BY WorldFacts DEF Base, Types, BoundTypes
      <4>3. \A d \in Channels : top'[d] \in Nat
        BY <3>2 DEF ServerTypes
      <4>4. \A d \in Channels : top[d] + events <= world.events
        BY DEF Base, Bounded
      <4> QED
        BY <1>1, <1>5, <4>1, <4>2, <4>3, <4>4 DEF Bounded
    <3>4. WireTypes'
      <4>1. CASE c \in held
        <5>1. PublicationOf(c) \in Message /\ PublicationOf(c).offset # 0
          BY <1>2, ServerMessages
        <5> QED
          BY <1>2, <2>1, <4>1, <5>1, AnotherMessage DEF Publishes
      <4>2. CASE c \notin held
        BY <1>2, <2>1, <4>2 DEF Publishes, WireTypes
      <4> QED
        BY <4>1, <4>2
    <3>5. ~connected => c \notin held
      BY DEF Base, Closed
    <3> QED
      BY <2>1, <3>1, <3>2, <3>3, <3>4, <3>5 DEF Publishes
  <2>2. ASSUME NEW c \in Channels, Adds(c) \/ Ends(c)
        PROVE  /\ WireTypes' /\ ServerTypes' /\ Bounded' /\ connected
    <3>1. connected
      BY <2>2 DEF Adds, Ends, Base, Closed
    <3>2. /\ held' \subseteq Channels /\ UNCHANGED <<top, serves, ids, last_id>>
      BY <1>2, <2>2 DEF Adds, Ends, ServerTypes
    <3>3. ServerTypes'
      BY <1>2, <3>2 DEF ServerTypes
    <3>4. Bounded'
      <4>1. events \in Nat /\ \A d \in Channels : top[d] \in Nat
        BY <1>2 DEF Base, Types, BoundTypes, ServerTypes
      <4>2. world.events \in Nat
        BY WorldFacts DEF Base, Types
      <4> QED
        BY <1>1, <1>5, <3>2, <4>1, <4>2 DEF Base, Bounded
    <3>5. \E m \in {StartOf(c), EndOf(c)} : messages' = Append(messages, m)
      BY <2>2 DEF Adds, Ends
    <3>6. PICK m \in {StartOf(c), EndOf(c)} : messages' = Append(messages, m)
      BY <3>5
    <3>7. m \in Message /\ m.op # "publication"
      BY <1>2, ServerMessages
    <3>8. WireTypes'
      BY <1>2, <3>6, <3>7, AnotherMessage
    <3> QED
      BY <3>1, <3>3, <3>4, <3>8
  <2>3. ASSUME NEW x \in Subs, Pushes(x) \/ Revokes(x)
        PROVE  /\ WireTypes' /\ ServerTypes' /\ Bounded' /\ connected
    <3>1. connected
      BY <2>3 DEF Pushes, Revokes, Base, Closed
    <3>2. /\ UNCHANGED <<held, top, last_id>>
          /\ serves' \in [Subs -> Nat] /\ ids' \in [Subs -> Ids]
      BY <1>2, <2>3, IdFacts DEF Pushes, Revokes, ServerTypes
    <3>3. ServerTypes'
      BY <1>2, <3>2 DEF ServerTypes
    <3>4. Bounded'
      <4>1. events \in Nat /\ \A d \in Channels : top[d] \in Nat
        BY <1>2 DEF Base, Types, BoundTypes, ServerTypes
      <4>2. world.events \in Nat
        BY WorldFacts DEF Base, Types
      <4> QED
        BY <1>1, <1>5, <3>2, <4>1, <4>2 DEF Base, Bounded
    <3>6. PICK m \in {JoinOf(x), AgainOf(x)} : messages' = Append(messages, m)
      BY <2>3 DEF Pushes, Revokes
    <3>7. m \in Message /\ m.op # "publication"
      BY <1>2, ServerMessages
    <3>8. WireTypes'
      BY <1>2, <3>6, <3>7, AnotherMessage
    <3> QED
      BY <3>1, <3>3, <3>4, <3>8
  <2> QED
    BY <1>1, <2>1, <2>2, <2>3
<1>7. Closed'
  BY <1>4, <1>5, <1>6 DEF Base, Closed
<1>8. conn = 0 => ~connected
  BY DEF Base, Types, LinkTypes
<1> QED
  BY <1>1, <1>3, <1>4, <1>6, <1>7, <1>8, BaseElsewhere

-----------------------------------------------------------------------------
(* Types always hold *)

LEMMA BaseInit == Init => Base
<1> SUFFICES ASSUME Init PROVE Base
  OBVIOUS
<1>1. world \in Worlds /\ world.events \in Nat /\ world.calls \in Nat /\ world.faults \in Nat
  BY ServerAssumption DEF Init
<1>2. <<>> \in Seq(Command) /\ <<>> \in Seq(Message) /\ Len(<<>>) = 0 /\ <<>> \in Seq(Nat)
  OBVIOUS
<1>3. LinkTypes
  BY <1>2 DEF Init, LinkTypes
<1>4. RegistryTypes /\ TaskTypes
  BY DEF Init, RegistryTypes, TaskTypes
<1>5. SubTypes
  BY IdFacts DEF Init, SubTypes
<1>6. WireTypes
  BY <1>2 DEF Init, WireTypes
<1>7. ServerTypes
  BY IdFacts DEF Init, ServerTypes
<1>8. AppTypes
  BY <1>2 DEF Init, AppTypes
<1>9. BoundTypes
  BY <1>1 DEF Init, BoundTypes
<1>10. Live = {}
  BY DEF Init, Live
<1>11. Closed
  BY <1>10 DEF Init, Closed
<1>12. Tasks /\ Shapes
  BY <1>10 DEF Init, Tasks, Shapes
<1>13. Bounded
  BY <1>1 DEF Init, Bounded
<1>14. Pending
  BY <1>10 DEF Init, Pending, Giving
<1>15. Validated
  BY DEF Init, Validated
<1> QED
  BY <1>3, <1>4, <1>5, <1>6, <1>7, <1>8, <1>9, <1>11, <1>12, <1>13, <1>14, <1>15 DEF Base, Types

LEMMA BaseStuttering == ASSUME Base, UNCHANGED vars PROVE Base'
<1>1. UNCHANGED <<linkVars, registryVars, tasks, appVars, serverVars, subVars, commands, messages,
                  events, calls, faults>>
  BY DEF vars
<1>2. SubTypes' /\ WireTypes' /\ ServerTypes' /\ BoundTypes' /\ Bounded'
  BY <1>1 DEF Base, Types, SubTypes, WireTypes, ServerTypes, BoundTypes, Bounded, linkVars, subVars, serverVars
<1>3. Closed'
  BY <1>1 DEF Base, Closed, Live, linkVars, subVars, serverVars
<1>4. conn = 0 => messages' = <<>> /\ commands' = <<>>
  BY <1>1 DEF Base, Types, LinkTypes
<1> QED
  BY <1>1, <1>2, <1>3, <1>4, BaseElsewhere

LEMMA BaseStep == ASSUME Base, Next PROVE Base'
<1>1. CASE Connect
  BY <1>1, BaseConnect
<1>2. CASE LoseConnection \/ Invalidated
  BY <1>2, BaseLose
<1>3. CASE ConnectReply
  BY <1>3, BaseConnectReply
<1>4. CASE HandlerReturns
  BY <1>4, BaseReturns
<1>5. CASE Arrives
  BY <1>5, BasePublication, BaseSubscribed, BaseUnsubscribed, BaseClientArrival DEF Arrives
<1>6. CASE AppCalls
  BY <1>6, BaseAppCalls
<1>7. CASE SendSubscribe
  BY <1>7, BaseSend
<1>8. CASE ServerReceives
  BY <1>8, BaseReceives
<1>9. CASE Server
  BY <1>9, BaseServer
<1> QED
  BY <1>1, <1>2, <1>3, <1>4, <1>5, <1>6, <1>7, <1>8, <1>9 DEF Next

\* Types, in every state: at most one publication of a channel is being given, over the
\* connection there is; only what is registered has a position; without a connection
\* nothing is on the wire (_server_pending, _server_subs, _disconnect()).
THEOREM ServerTypeOK == Spec => []TypeOK
<1>1. Base /\ [Next]_vars => Base'
  BY BaseStep, BaseStuttering
<1> QED
  BY <1>1, BaseInit, BaseGivesTypeOK, PTL DEF Spec

-----------------------------------------------------------------------------
(* The parts of the invariant: one channel, from the stream to the application *)

IsPub(m, c) == m.op = "publication" /\ m.ch = c
IsStart(m, c) == m.op = "subscribe" /\ m.ch = c
IsTurn(m, c) == m.op \in {"subscribe", "unsubscribe"} /\ m.ch = c
Of(m, c) == IsPub(m, c) \/ IsTurn(m, c)

\* What the application was given is not after o, or before it, and lacks nothing up to o.
Behind(l, o) == \A k \in 1..Len(l) : l[k] <= o
Before(l, o) == \A k \in 1..Len(l) : l[k] < o
Increasing(l) == \A j, k \in 1..Len(l) : j < k => l[j] < l[k]
Reached(l, b, o) == \A x \in (b + 1)..o : \E k \in 1..Len(l) : l[k] = x

\* In messages after the n-th: the channel keeps its subscription up to the i-th; the
\* publication of offset x is there.
Steady(ms, n, i, c) == \A k \in (n + 1)..i : ~IsTurn(ms[k], c)
Has(ms, n, i, c, x) == \E k \in (n + 1)..i : IsPub(ms[k], c) /\ ms[k].offset = x

\* After offset b nothing is missing: first the publications of a connect reply, S, then
\* messages after the n-th, up to the end of the stream if the server still sends them.
Flow(ms, n, c, b, S, end, sent) ==
    /\ \A x \in S : b < x /\ \A y \in (b + 1)..x : y \in S
    /\ \A i \in (n + 1)..Len(ms) : IsPub(ms[i], c) => b < ms[i].offset
    /\ \A i \in (n + 1)..Len(ms) : IsPub(ms[i], c) /\ Steady(ms, n, i, c) =>
           \A y \in (b + 1)..ms[i].offset : y \in S \/ Has(ms, n, i, c, y)
    /\ c \in sent /\ Steady(ms, n, Len(ms), c) =>
           \A y \in (b + 1)..end : y \in S \/ Has(ms, n, Len(ms), c, y)

Asked(c) == {a \in asked : a.ch = c}
Left(c) == {e \in UNION {t.left : t \in Live} : e.ch = c}
Early(c) == {p.offset : p \in {q \in UNION {t.pubs : t \in Live} : q.ch = c}}
Follows(c, o) == Flow(messages, 0, c, o, Early(c), top[c], held)
Stated(c, o) == Behind(log[c], o) /\ o <= top[c]

\* The offsets the client goes by.
AskedPlaces(c) == \A a \in Asked(c) : Stated(c, a.offset) /\ Reached(log[c], base[c], a.offset)
ValidPlace(c) ==
    c \in valid =>
        /\ Stated(c, Committed(c)) /\ Reached(log[c], base[c], Committed(c)) /\ Reached(log[c], base[c], offset[c])
        /\ Left(c) = {} => Follows(c, Committed(c))
LeftPlaces(c) ==
    \A e \in Left(c) : /\ Stated(c, e.offset) /\ Follows(c, e.offset)
                       /\ e.recovered => Reached(log[c], base[c], e.offset)

\* What is on its way is in order.
EarlyOrder(c) == \A x \in Early(c) : x <= top[c] /\ Before(log[c], x)
PubOrder(c, i) ==
    IsPub(messages[i], c) =>
        /\ messages[i].offset <= top[c] /\ Before(log[c], messages[i].offset)
        /\ \A x \in Early(c) : x < messages[i].offset
        /\ \A j \in 1..(i - 1) : IsPub(messages[j], c) => messages[j].offset < messages[i].offset
StartOrder(c, i) ==
    IsStart(messages[i], c) =>
        /\ messages[i].offset <= top[c] /\ Behind(log[c], messages[i].offset)
        /\ \A x \in Early(c) : x <= messages[i].offset
        /\ \A j \in 1..(i - 1) : IsPub(messages[j], c) => messages[j].offset <= messages[i].offset
        /\ Flow(messages, i, c, messages[i].offset, {}, top[c], held)
OnTheWire(c) == \A i \in 1..Len(messages) : PubOrder(c, i) /\ StartOrder(c, i)

Channel(c) ==
    /\ Increasing(log[c]) /\ Behind(log[c], top[c]) /\ AskedPlaces(c) /\ ValidPlace(c) /\ LeftPlaces(c)
    /\ EarlyOrder(c) /\ OnTheWire(c)
AllChannels == \A c \in Channels : Channel(c)

-----------------------------------------------------------------------------
(* Sequences of messages *)

LEMMA FlowTypes ==
    ASSUME NEW ms \in Seq(Message)
    PROVE  /\ Len(ms) \in Nat
           /\ \A i \in 1..Len(ms) : \A c : IsPub(ms[i], c) \/ IsTurn(ms[i], c) => ms[i].offset \in Nat
<1>1. ASSUME NEW i \in 1..Len(ms), NEW c, IsPub(ms[i], c) \/ IsTurn(ms[i], c) PROVE ms[i].offset \in Nat
  <2>1. ms[i] \in Message
    OBVIOUS
  <2> QED
    BY <1>1, <2>1, MessageFacts DEF IsPub, IsTurn
<1> QED
  BY <1>1

\* The first message is gone.
LEMMA SteadyTail ==
    ASSUME NEW ms \in Seq(Message), ms # <<>>, NEW n \in Nat, NEW i \in 0..Len(Tail(ms)), NEW c,
           Steady(Tail(ms), n, i, c)
    PROVE  Steady(ms, n + 1, i + 1, c)
<1> SUFFICES ASSUME NEW k \in (n + 2)..(i + 1) PROVE ~IsTurn(ms[k], c)
  BY DEF Steady
<1>1. Len(Tail(ms)) \in Nat
  BY TailFacts
<1>2. k - 1 \in (n + 1)..i /\ k - 1 \in 1..Len(Tail(ms)) /\ (k - 1) + 1 = k
  BY <1>1
<1>3. Tail(ms)[k - 1] = ms[k]
  BY <1>2, TailFacts
<1> QED
  BY <1>2, <1>3 DEF Steady

LEMMA HasTail ==
    ASSUME NEW ms \in Seq(Message), ms # <<>>, NEW n \in Nat, NEW i \in 0..Len(Tail(ms)), NEW c, NEW x,
           Has(ms, n + 1, i + 1, c, x)
    PROVE  Has(Tail(ms), n, i, c, x)
<1>1. PICK k \in (n + 2)..(i + 1) : IsPub(ms[k], c) /\ ms[k].offset = x
  BY DEF Has
<1>2. Len(Tail(ms)) \in Nat
  BY TailFacts
<1>3. k - 1 \in (n + 1)..i /\ k - 1 \in 1..Len(Tail(ms)) /\ (k - 1) + 1 = k
  BY <1>2
<1>4. Tail(ms)[k - 1] = ms[k]
  BY <1>3, TailFacts
<1> QED
  BY <1>1, <1>3, <1>4 DEF Has

LEMMA FlowTail ==
    ASSUME NEW ms \in Seq(Message), ms # <<>>, NEW n \in Nat, NEW c, NEW b \in Nat, NEW S \in SUBSET Nat,
           NEW end \in Nat, NEW sent, Flow(ms, n + 1, c, b, S, end, sent)
    PROVE  Flow(Tail(ms), n, c, b, S, end, sent)
<1> DEFINE tl == Tail(ms)
<1>1. Len(tl) \in Nat /\ Len(ms) = Len(tl) + 1
  BY TailFacts
<1>2. ASSUME NEW i \in (n + 1)..Len(tl) PROVE tl[i] = ms[i + 1] /\ i + 1 \in (n + 2)..Len(ms) /\ i \in 0..Len(tl)
  <2>1. i \in 1..Len(tl)
    BY <1>1
  <2>2. tl[i] = ms[i + 1]
    BY <2>1, TailFacts
  <2> QED
    BY <1>1, <2>1, <2>2
<1>3. ASSUME NEW i \in (n + 1)..Len(tl), IsPub(tl[i], c) PROVE b < tl[i].offset
  BY <1>2, <1>3 DEF Flow
<1>4. ASSUME NEW i \in (n + 1)..Len(tl), IsPub(tl[i], c), Steady(tl, n, i, c), NEW y \in (b + 1)..tl[i].offset
      PROVE  y \in S \/ Has(tl, n, i, c, y)
  <2>1. IsPub(ms[i + 1], c) /\ Steady(ms, n + 1, i + 1, c) /\ y \in (b + 1)..ms[i + 1].offset
    BY <1>2, <1>4, SteadyTail
  <2>2. y \in S \/ Has(ms, n + 1, i + 1, c, y)
    BY <1>2, <2>1 DEF Flow
  <2> QED
    BY <1>2, <2>2, HasTail
<1>5. ASSUME c \in sent, Steady(tl, n, Len(tl), c), NEW y \in (b + 1)..end
      PROVE  y \in S \/ Has(tl, n, Len(tl), c, y)
  <2>1. Len(tl) \in 0..Len(tl)
    BY <1>1
  <2>2. Steady(ms, n + 1, Len(ms), c)
    BY <1>1, <1>5, <2>1, SteadyTail
  <2>3. y \in S \/ Has(ms, n + 1, Len(ms), c, y)
    BY <1>5, <2>2 DEF Flow
  <2> QED
    BY <1>1, <2>1, <2>3, HasTail
<1>6. \A x \in S : b < x /\ \A y \in (b + 1)..x : y \in S
  BY DEF Flow
<1> HIDE DEF tl
<1>7. Flow(tl, n, c, b, S, end, sent)
  BY <1>3, <1>4, <1>5, <1>6 DEF Flow
<1> QED
  BY <1>7 DEF tl

\* The first message does not end the subscription, and brings nothing after the new offset.
LEMMA FlowFirst ==
    ASSUME NEW ms \in Seq(Message), ms # <<>>, NEW c, NEW b \in Nat, NEW a \in Nat, NEW S \in SUBSET Nat,
           NEW end \in Nat, NEW sent, Flow(ms, 0, c, b, S, end, sent),
           ~IsTurn(ms[1], c), b <= a, IsPub(ms[1], c) => ms[1].offset <= a,
           \A i \in 2..Len(ms) : IsPub(ms[i], c) => a < ms[i].offset, \A x \in S : a < x
    PROVE  Flow(ms, 1, c, a, S, end, sent)
<1>1. Len(ms) \in Nat \ {0}
  BY TailFacts
<1>2. ASSUME NEW i \in 1..Len(ms), Steady(ms, 1, i, c) PROVE Steady(ms, 0, i, c)
  <2> SUFFICES ASSUME NEW k \in 1..i PROVE ~IsTurn(ms[k], c)
    BY DEF Steady
  <2>1. k = 1 \/ k \in 2..i
    OBVIOUS
  <2> QED
    BY <1>2, <2>1 DEF Steady
<1>3. ASSUME NEW i \in 1..Len(ms), NEW y \in Nat, a < y, Has(ms, 0, i, c, y) PROVE Has(ms, 1, i, c, y)
  <2>1. PICK k \in 1..i : IsPub(ms[k], c) /\ ms[k].offset = y
    BY <1>3 DEF Has
  <2>2. k # 1
    BY <1>3, <2>1
  <2>3. k \in 2..i
    BY <2>2
  <2> QED
    BY <2>1, <2>3 DEF Has
<1>4. ASSUME NEW i \in 2..Len(ms), IsPub(ms[i], c), Steady(ms, 1, i, c), NEW y \in (a + 1)..ms[i].offset
      PROVE  y \in S \/ Has(ms, 1, i, c, y)
  <2>1. i \in 1..Len(ms) /\ ms[i].offset \in Nat
    BY <1>1, <1>4, FlowTypes
  <2>2. y \in (b + 1)..ms[i].offset /\ y \in Nat /\ a < y
    BY <2>1
  <2>3. Steady(ms, 0, i, c)
    BY <1>2, <1>4, <2>1
  <2>4. y \in S \/ Has(ms, 0, i, c, y)
    BY <1>4, <2>1, <2>2, <2>3 DEF Flow
  <2> QED
    BY <1>3, <2>1, <2>2, <2>4
<1>5. ASSUME c \in sent, Steady(ms, 1, Len(ms), c), NEW y \in (a + 1)..end
      PROVE  y \in S \/ Has(ms, 1, Len(ms), c, y)
  <2>1. Len(ms) \in 1..Len(ms)
    BY <1>1
  <2>2. y \in (b + 1)..end /\ y \in Nat /\ a < y
    OBVIOUS
  <2>3. Steady(ms, 0, Len(ms), c)
    BY <1>2, <1>5, <2>1
  <2>4. y \in S \/ Has(ms, 0, Len(ms), c, y)
    BY <1>5, <2>2, <2>3 DEF Flow
  <2> QED
    BY <1>3, <2>1, <2>2, <2>4
<1>6. ASSUME NEW x \in S PROVE a < x /\ \A y \in (a + 1)..x : y \in S
  <2>1. x \in Nat /\ \A y \in (b + 1)..x : y \in S
    BY DEF Flow
  <2> QED
    BY <2>1
<1> QED
  BY <1>4, <1>5, <1>6 DEF Flow

\* The first of the publications that a connect reply brought is taken.
LEMMA FlowTake ==
    ASSUME NEW ms \in Seq(Message), NEW c, NEW b \in Nat, NEW S \in SUBSET Nat, NEW p \in S,
           NEW end \in Nat, NEW sent, Flow(ms, 0, c, b, S, end, sent),
           \A x \in S : p <= x, \A i \in 1..Len(ms) : IsPub(ms[i], c) => p < ms[i].offset
    PROVE  Flow(ms, 0, c, p, S \ {p}, end, sent)
<1>1. p \in Nat /\ b < p /\ Len(ms) \in Nat
  BY FlowTypes DEF Flow
<1>2. ASSUME NEW x \in S \ {p} PROVE p < x /\ \A y \in (p + 1)..x : y \in S \ {p}
  <2>1. x \in Nat /\ (\A y \in (b + 1)..x : y \in S) /\ p <= x /\ x # p
    BY DEF Flow
  <2>2. ASSUME NEW y \in (p + 1)..x PROVE y \in S \ {p}
    <3>1. y \in (b + 1)..x /\ y # p
      BY <1>1, <2>1
    <3> QED
      BY <2>1, <3>1
  <2> QED
    BY <1>1, <2>1, <2>2
<1>3. ASSUME NEW i \in 1..Len(ms), IsPub(ms[i], c), Steady(ms, 0, i, c), NEW y \in (p + 1)..ms[i].offset
      PROVE  y \in S \ {p} \/ Has(ms, 0, i, c, y)
  <2>1. ms[i].offset \in Nat
    BY <1>3, FlowTypes
  <2>2. y \in (b + 1)..ms[i].offset /\ y # p
    BY <1>1, <2>1
  <2> QED
    BY <1>3, <2>2 DEF Flow
<1>4. ASSUME c \in sent, Steady(ms, 0, Len(ms), c), NEW y \in (p + 1)..end
      PROVE  y \in S \ {p} \/ Has(ms, 0, Len(ms), c, y)
  <2>2. y \in (b + 1)..end /\ y # p
    BY <1>1
  <2> QED
    BY <1>4, <2>2 DEF Flow
<1> QED
  BY <1>2, <1>3, <1>4 DEF Flow

\* One message more.
LEMMA SteadyAppend ==
    ASSUME NEW ms \in Seq(Message), NEW m \in Message, NEW n \in Nat, NEW i \in 0..Len(ms), NEW c
    PROVE  Steady(Append(ms, m), n, i, c) <=> Steady(ms, n, i, c)
<1>1. \A k \in (n + 1)..i : k \in 1..Len(ms)
  BY FlowTypes
<1>2. \A k \in (n + 1)..i : Append(ms, m)[k] = ms[k]
  BY <1>1, AppendFacts
<1> QED
  BY <1>2 DEF Steady

LEMMA HasAppend ==
    ASSUME NEW ms \in Seq(Message), NEW m \in Message, NEW n \in Nat, NEW i \in 0..Len(ms), NEW c, NEW x,
           Has(ms, n, i, c, x)
    PROVE  Has(Append(ms, m), n, i, c, x) /\ Has(Append(ms, m), n, i + 1, c, x)
<1>1. PICK k \in (n + 1)..i : IsPub(ms[k], c) /\ ms[k].offset = x
  BY DEF Has
<1>2. k \in 1..Len(ms) /\ k \in (n + 1)..(i + 1)
  BY FlowTypes
<1>3. Append(ms, m)[k] = ms[k]
  BY <1>2, AppendFacts
<1> QED
  BY <1>1, <1>2, <1>3 DEF Has

\* What is there still flows when a message is added: what remains is what the last
\* message and the end of the stream are about.
LEMMA FlowAppend ==
    ASSUME NEW ms \in Seq(Message), NEW m \in Message, NEW n \in Nat, n <= Len(ms), NEW c, NEW b \in Nat,
           NEW S \in SUBSET Nat, NEW end \in Nat, NEW sent, Flow(ms, n, c, b, S, end, sent),
           NEW more \in Nat, NEW then,
           IsPub(m, c) => /\ b < m.offset
                          /\ Steady(ms, n, Len(ms), c) => \A y \in (b + 1)..m.offset :
                                 y \in S \/ Has(Append(ms, m), n, Len(ms) + 1, c, y),
           c \in then /\ ~IsTurn(m, c) /\ Steady(ms, n, Len(ms), c) =>
               \A y \in (b + 1)..more : y \in S \/ Has(Append(ms, m), n, Len(ms) + 1, c, y)
    PROVE  Flow(Append(ms, m), n, c, b, S, more, then)
<1> DEFINE new == Append(ms, m)
           l == Len(ms)
<1>1. l \in Nat /\ Len(new) = l + 1 /\ new[l + 1] = m /\ l \in 0..l
  BY AppendFacts
<1>2. ASSUME NEW i \in (n + 1)..l PROVE new[i] = ms[i] /\ i \in 0..l /\ i \in (n + 1)..Len(ms)
  <2>1. i \in 1..l
    BY <1>1
  <2>2. new[i] = ms[i]
    BY <2>1, AppendFacts
  <2> QED
    BY <2>1, <2>2
<1>3. \A i \in (n + 1)..Len(new) : i \in (n + 1)..l \/ i = l + 1
  BY <1>1
<1>4. ASSUME Steady(new, n, l + 1, c) PROVE ~IsTurn(m, c) /\ Steady(ms, n, l, c)
  <2>1. l + 1 \in (n + 1)..(l + 1)
    BY <1>1
  <2>2. ~IsTurn(m, c)
    BY <1>1, <1>4, <2>1 DEF Steady
  <2>3. Steady(new, n, l, c)
    BY <1>1, <1>4 DEF Steady
  <2> QED
    BY <1>1, <2>2, <2>3, SteadyAppend
<1>5. ASSUME NEW i \in (n + 1)..Len(new), IsPub(new[i], c) PROVE b < new[i].offset
  <2>1. CASE i \in (n + 1)..l
    BY <1>2, <1>5, <2>1 DEF Flow
  <2>2. CASE i = l + 1
    BY <1>1, <1>5, <2>2
  <2> QED
    BY <1>3, <2>1, <2>2
<1>6. ASSUME NEW i \in (n + 1)..Len(new), IsPub(new[i], c), Steady(new, n, i, c), NEW y \in (b + 1)..new[i].offset
      PROVE  y \in S \/ Has(new, n, i, c, y)
  <2>1. CASE i \in (n + 1)..l
    <3>1. IsPub(ms[i], c) /\ Steady(ms, n, i, c) /\ y \in (b + 1)..ms[i].offset
      BY <1>2, <1>6, <2>1, SteadyAppend
    <3>2. y \in S \/ Has(ms, n, i, c, y)
      BY <1>2, <2>1, <3>1 DEF Flow
    <3> QED
      BY <1>2, <2>1, <3>2, HasAppend
  <2>2. CASE i = l + 1
    BY <1>1, <1>4, <1>6, <2>2
  <2> QED
    BY <1>3, <2>1, <2>2
<1>7. ASSUME c \in then, Steady(new, n, Len(new), c), NEW y \in (b + 1)..more
      PROVE  y \in S \/ Has(new, n, Len(new), c, y)
  BY <1>1, <1>4, <1>7
<1>8. \A x \in S : b < x /\ \A y \in (b + 1)..x : y \in S
  BY DEF Flow
<1> HIDE DEF new
<1>9. Flow(new, n, c, b, S, more, then)
  BY <1>5, <1>6, <1>7, <1>8 DEF Flow
<1> QED
  BY <1>9 DEF new

LEMMA FlowAppendOther ==
    ASSUME NEW ms \in Seq(Message), NEW m \in Message, NEW n \in Nat, n <= Len(ms), NEW c, NEW b \in Nat,
           NEW S \in SUBSET Nat, NEW end \in Nat, NEW sent, Flow(ms, n, c, b, S, end, sent), ~Of(m, c)
    PROVE  Flow(Append(ms, m), n, c, b, S, end, sent)
<1>1. Len(ms) \in 0..Len(ms)
  BY FlowTypes
<1>2. ASSUME c \in sent, Steady(ms, n, Len(ms), c), NEW y \in (b + 1)..end
      PROVE  y \in S \/ Has(Append(ms, m), n, Len(ms) + 1, c, y)
  <2>1. y \in S \/ Has(ms, n, Len(ms), c, y)
    BY <1>2 DEF Flow
  <2> QED
    BY <1>1, <2>1, HasAppend
<1>3. ~IsPub(m, c)
  BY DEF Of
<1> QED
  BY <1>2, <1>3, FlowAppend

LEMMA FlowAppendTurn ==
    ASSUME NEW ms \in Seq(Message), NEW m \in Message, NEW n \in Nat, n <= Len(ms), NEW c, NEW b \in Nat,
           NEW S \in SUBSET Nat, NEW end \in Nat, NEW sent, Flow(ms, n, c, b, S, end, sent), IsTurn(m, c),
           NEW then
    PROVE  Flow(Append(ms, m), n, c, b, S, end, then)
<1>1. ~IsPub(m, c)
  BY DEF IsTurn, IsPub
<1> QED
  BY <1>1, FlowAppend

LEMMA FlowAppendPub ==
    ASSUME NEW ms \in Seq(Message), NEW m \in Message, NEW n \in Nat, n <= Len(ms), NEW c, NEW b \in Nat,
           NEW S \in SUBSET Nat, NEW end \in Nat, NEW sent, Flow(ms, n, c, b, S, end, sent),
           IsPub(m, c), m.offset = end + 1, b <= end, c \in sent
    PROVE  Flow(Append(ms, m), n, c, b, S, end + 1, sent)
<1>1. Len(ms) \in 0..Len(ms) /\ Len(ms) \in Nat
  BY FlowTypes
<1>2. ASSUME Steady(ms, n, Len(ms), c), NEW y \in (b + 1)..(end + 1)
      PROVE  y \in S \/ Has(Append(ms, m), n, Len(ms) + 1, c, y)
  <2>1. CASE y \in (b + 1)..end
    <3>1. y \in S \/ Has(ms, n, Len(ms), c, y)
      BY <1>2, <2>1 DEF Flow
    <3> QED
      BY <1>1, <3>1, HasAppend
  <2>2. CASE y = end + 1
    <3>1. Append(ms, m)[Len(ms) + 1] = m /\ Len(ms) + 1 \in (n + 1)..(Len(ms) + 1)
      BY <1>1, AppendFacts
    <3> QED
      BY <2>2, <3>1 DEF Has
  <2> QED
    BY <2>1, <2>2
<1>3. b < m.offset /\ end + 1 \in Nat
  OBVIOUS
<1>4. Steady(ms, n, Len(ms), c) => \A y \in (b + 1)..m.offset :
          y \in S \/ Has(Append(ms, m), n, Len(ms) + 1, c, y)
  BY <1>2
<1> QED
  BY <1>2, <1>3, <1>4, FlowAppend

\* The server does not send the channel: the end of its stream does not matter.
LEMMA FlowSent ==
    ASSUME NEW ms, NEW n, NEW c, NEW b, NEW S, NEW end, NEW sent, Flow(ms, n, c, b, S, end, sent),
           NEW more, NEW then, c \in then => c \in sent /\ more = end
    PROVE  Flow(ms, n, c, b, S, more, then)
BY DEF Flow

\* Nothing is on its way, and nothing is missing.
LEMMA FlowEmpty ==
    ASSUME NEW ms \in Seq(Message), NEW n \in Nat, n >= Len(ms), NEW c, NEW b \in Nat, NEW end \in Nat, NEW sent,
           c \in sent => end <= b
    PROVE  Flow(ms, n, c, b, {}, end, sent)
<1>1. Len(ms) \in Nat
  BY FlowTypes
<1>2. ~ \E i \in (n + 1)..Len(ms) : TRUE
  BY <1>1
<1>3. c \in sent => ~ \E y \in (b + 1)..end : TRUE
  OBVIOUS
<1> QED
  BY <1>2, <1>3 DEF Flow

\* A connect reply brings what is missing.
LEMMA FlowReply ==
    ASSUME NEW c, NEW b \in Nat, NEW end \in Nat, NEW sent
    PROVE  Flow(<<>>, 0, c, b, (b + 1)..end, end, sent)
<1>1. Len(<<>>) = 0
  OBVIOUS
<1>2. ~ \E i \in (0 + 1)..Len(<<>>) : TRUE
  BY <1>1
<1>3. ASSUME NEW x \in (b + 1)..end PROVE b < x /\ \A y \in (b + 1)..x : y \in (b + 1)..end
  OBVIOUS
<1> QED
  BY <1>2, <1>3 DEF Flow

-----------------------------------------------------------------------------
(* What a step does not touch *)

LEMMA EarlyTypes ==
    ASSUME Base, NEW c \in Channels
    PROVE  /\ Early(c) \in SUBSET Nat /\ top[c] \in Nat /\ messages \in Seq(Message)
           /\ \A e \in Left(c) : e \in Entry /\ e.ch = c /\ e.offset \in Nat /\ e.recovered \in BOOLEAN
                                 /\ \E t \in Live : e \in t.left
           /\ \A x \in Early(c) : \E t \in Live : \E p \in t.pubs : p.ch = c /\ p.offset = x
           /\ \A t \in Live : \A p \in t.pubs : p.ch = c => p.offset \in Early(c)
           /\ \A t \in Live : \A e \in t.left : e.ch = c => e \in Left(c)
           /\ LeftToTell(c) <=> Left(c) # {}
<1>1. \A t \in Live : t \in Task
  BY DEF Live, Base, Types, TaskTypes
<1>2. Early(c) \in SUBSET Nat
  BY <1>1, TaskFacts DEF Early
<1>3. \A e \in Left(c) : e.ch = c /\ \E t \in Live : e \in t.left
  BY DEF Left
<1>4. \A e \in Left(c) : e \in Entry /\ e.offset \in Nat /\ e.recovered \in BOOLEAN
  BY <1>1, <1>3, TaskFacts
<1>5. \A x \in Early(c) : \E t \in Live : \E p \in t.pubs : p.ch = c /\ p.offset = x
  BY DEF Early
<1>6. \A t \in Live : \A p \in t.pubs : p.ch = c => p.offset \in Early(c)
  BY DEF Early
<1>7. \A t \in Live : \A e \in t.left : e.ch = c => e \in Left(c)
  BY DEF Left
<1>8. LeftToTell(c) <=> Left(c) # {}
  BY <1>3, <1>7 DEF LeftToTell
<1>9. top[c] \in Nat /\ messages \in Seq(Message)
  BY DEF Base, Types, ServerTypes, WireTypes
<1> QED
  BY <1>2, <1>3, <1>4, <1>5, <1>6, <1>7, <1>8, <1>9

LEMMA LogTypes ==
    ASSUME Base, NEW c \in Channels
    PROVE  /\ log[c] \in Seq(Nat) /\ Len(log[c]) \in Nat /\ base[c] \in Nat
           /\ \A k \in 1..Len(log[c]) : log[c][k] \in Nat
<1>1. log[c] \in Seq(Nat) /\ base[c] \in Nat
  BY DEF Base, Types, AppTypes
<1> QED
  BY <1>1

\* Messages are the same, but for one of something else.
Otherwise(c) ==
    \/ messages' = messages
    \/ messages # <<>> /\ messages' = Tail(messages) /\ ~Of(messages[1], c)
    \/ \E m \in Message : ~Of(m, c) /\ messages' = Append(messages, m)

LEMMA FlowOtherwise ==
    ASSUME messages \in Seq(Message), NEW c, Otherwise(c), NEW b \in Nat, NEW S \in SUBSET Nat,
           NEW end \in Nat, NEW sent, Flow(messages, 0, c, b, S, end, sent)
    PROVE  Flow(messages', 0, c, b, S, end, sent)
<1>1. CASE messages' = messages
  BY <1>1
<1>2. CASE messages # <<>> /\ messages' = Tail(messages) /\ ~Of(messages[1], c)
  <2>1. ~IsTurn(messages[1], c) /\ ~IsPub(messages[1], c)
    BY <1>2 DEF Of
  <2>2. \A i \in 2..Len(messages) : IsPub(messages[i], c) => b < messages[i].offset
    BY FlowTypes DEF Flow
  <2>3. \A x \in S : b < x
    BY DEF Flow
  <2>7. b <= b
    OBVIOUS
  <2>4. Flow(messages, 1, c, b, S, end, sent)
    BY <1>2, <2>1, <2>2, <2>3, <2>7, FlowFirst
  <2>5. Flow(messages, 0 + 1, c, b, S, end, sent)
    BY <2>4
  <2>6. Flow(Tail(messages), 0, c, b, S, end, sent)
    BY <1>2, <2>5, FlowTail
  <2> QED
    BY <1>2, <2>6
<1>3. ASSUME NEW m \in Message, ~Of(m, c), messages' = Append(messages, m)
      PROVE  Flow(messages', 0, c, b, S, end, sent)
  <2>1. 0 <= Len(messages)
    BY FlowTypes
  <2> QED
    BY <1>3, <2>1, FlowAppendOther
<1> QED
  BY <1>1, <1>2, <1>3 DEF Otherwise

\* The messages after the first are in order.
LEMMA WireTail ==
    ASSUME Base, NEW c \in Channels, OnTheWire(c), messages # <<>>, messages' = Tail(messages),
           Early(c)' \subseteq Early(c), top'[c] = top[c], c \in held' => c \in held,
           \A i \in 2..Len(messages) : /\ IsPub(messages[i], c) => Before(log'[c], messages[i].offset)
                                       /\ IsStart(messages[i], c) => Behind(log'[c], messages[i].offset)
    PROVE  OnTheWire(c)'
<1>1. messages \in Seq(Message) /\ top[c] \in Nat
  BY EarlyTypes
<1>2. Len(messages') \in Nat
  BY <1>1, TailFacts
<1>3. \A i \in 1..Len(messages') : i + 1 \in 2..Len(messages) /\ i + 1 \in 1..Len(messages)
                                   /\ messages'[i] = messages[i + 1]
  BY <1>1, TailFacts
<1>4. ASSUME NEW i \in 1..Len(messages'), IsPub(messages'[i], c)
      PROVE  /\ messages'[i].offset <= top'[c] /\ Before(log'[c], messages'[i].offset)
             /\ \A x \in Early(c)' : x < messages'[i].offset
             /\ \A j \in 1..(i - 1) : IsPub(messages'[j], c) => messages'[j].offset < messages'[i].offset
  <2>1. messages'[i] = messages[i + 1] /\ i + 1 \in 2..Len(messages) /\ i + 1 \in 1..Len(messages)
    BY <1>3
  <2>2. PubOrder(c, i + 1) /\ IsPub(messages[i + 1], c)
    BY <1>4, <2>1 DEF OnTheWire
  <2>3. messages[i + 1].offset <= top[c] /\ \A x \in Early(c) : x < messages[i + 1].offset
    BY <2>2 DEF PubOrder
  <2>4. Before(log'[c], messages[i + 1].offset)
    BY <2>1, <2>2
  <2>5. ASSUME NEW j \in 1..(i - 1), IsPub(messages'[j], c) PROVE messages'[j].offset < messages'[i].offset
    <3>1. j \in 1..Len(messages') /\ j + 1 \in 1..((i + 1) - 1)
      BY <1>2
    <3>2. messages'[j] = messages[j + 1]
      BY <1>3, <3>1
    <3> QED
      BY <2>1, <2>2, <2>5, <3>1, <3>2 DEF PubOrder
  <2> QED
    BY <2>1, <2>3, <2>4, <2>5
<1>5. ASSUME NEW i \in 1..Len(messages'), IsStart(messages'[i], c)
      PROVE  /\ messages'[i].offset <= top'[c] /\ Behind(log'[c], messages'[i].offset)
             /\ \A x \in Early(c)' : x <= messages'[i].offset
             /\ \A j \in 1..(i - 1) : IsPub(messages'[j], c) => messages'[j].offset <= messages'[i].offset
             /\ Flow(messages', i, c, messages'[i].offset, {}, top'[c], held')
  <2>1. messages'[i] = messages[i + 1] /\ i + 1 \in 2..Len(messages) /\ i + 1 \in 1..Len(messages)
    BY <1>3
  <2>2. StartOrder(c, i + 1) /\ IsStart(messages[i + 1], c)
    BY <1>5, <2>1 DEF OnTheWire
  <2>3. /\ messages[i + 1].offset <= top[c] /\ \A x \in Early(c) : x <= messages[i + 1].offset
        /\ Flow(messages, i + 1, c, messages[i + 1].offset, {}, top[c], held)
    BY <2>2 DEF StartOrder
  <2>4. Behind(log'[c], messages[i + 1].offset)
    BY <2>1, <2>2
  <2>5. ASSUME NEW j \in 1..(i - 1), IsPub(messages'[j], c) PROVE messages'[j].offset <= messages'[i].offset
    <3>1. j \in 1..Len(messages') /\ j + 1 \in 1..((i + 1) - 1)
      BY <1>2
    <3>2. messages'[j] = messages[j + 1]
      BY <1>3, <3>1
    <3> QED
      BY <2>1, <2>2, <2>5, <3>1, <3>2 DEF StartOrder
  <2>6. messages[i + 1].offset \in Nat
    BY <1>1, <2>1, <2>2, FlowTypes DEF IsStart, IsTurn
  <2>7. Flow(messages', i, c, messages'[i].offset, {}, top[c], held)
    BY <1>1, <2>1, <2>3, <2>6, FlowTail
  <2>8. Flow(messages', i, c, messages'[i].offset, {}, top'[c], held')
    BY <2>7, FlowSent
  <2> QED
    BY <2>1, <2>3, <2>4, <2>5, <2>8
<1> QED
  BY <1>4, <1>5 DEF OnTheWire, PubOrder, StartOrder

\* The messages stay, and what the application has or is to be given changes.
LEMMA WireKeep ==
    ASSUME Base, NEW c \in Channels, OnTheWire(c), messages' = messages,
           Early(c)' \subseteq Early(c), top'[c] \in Nat, top[c] <= top'[c],
           c \in held' => c \in held /\ top'[c] = top[c],
           \A i \in 1..Len(messages) : /\ IsPub(messages[i], c) => Before(log'[c], messages[i].offset)
                                       /\ IsStart(messages[i], c) => Behind(log'[c], messages[i].offset)
    PROVE  OnTheWire(c)'
<1>0. messages \in Seq(Message) /\ top[c] \in Nat
  BY EarlyTypes
<1>1. ASSUME NEW i \in 1..Len(messages), IsPub(messages[i], c)
      PROVE  /\ messages[i].offset <= top'[c] /\ Before(log'[c], messages[i].offset)
             /\ \A x \in Early(c)' : x < messages[i].offset
             /\ \A j \in 1..(i - 1) : IsPub(messages[j], c) => messages[j].offset < messages[i].offset
  <2>1. PubOrder(c, i)
    BY DEF OnTheWire
  <2>2. messages[i].offset \in Nat /\ messages[i].offset <= top[c]
    BY <1>0, <1>1, <2>1, FlowTypes DEF PubOrder
  <2> QED
    BY <1>0, <1>1, <2>1, <2>2 DEF PubOrder
<1>2. ASSUME NEW i \in 1..Len(messages), IsStart(messages[i], c)
      PROVE  /\ messages[i].offset <= top'[c] /\ Behind(log'[c], messages[i].offset)
             /\ \A x \in Early(c)' : x <= messages[i].offset
             /\ \A j \in 1..(i - 1) : IsPub(messages[j], c) => messages[j].offset <= messages[i].offset
             /\ Flow(messages, i, c, messages[i].offset, {}, top'[c], held')
  <2>1. StartOrder(c, i)
    BY DEF OnTheWire
  <2>2. Flow(messages, i, c, messages[i].offset, {}, top[c], held)
    BY <1>2, <2>1 DEF StartOrder
  <2>3. Flow(messages, i, c, messages[i].offset, {}, top'[c], held')
    BY <2>2, FlowSent
  <2>4. messages[i].offset \in Nat /\ messages[i].offset <= top[c]
    BY <1>0, <1>2, <2>1, FlowTypes DEF StartOrder, IsStart, IsTurn
  <2> QED
    BY <1>0, <1>2, <2>1, <2>3, <2>4 DEF StartOrder
<1> QED
  BY <1>1, <1>2 DEF OnTheWire, PubOrder, StartOrder

\* There is one message more, and it is in order.
LEMMA WireAppend ==
    ASSUME Base, NEW c \in Channels, OnTheWire(c), NEW m \in Message, messages' = Append(messages, m),
           Early(c)' = Early(c), log'[c] = log[c], top[c] <= top'[c], top'[c] \in Nat,
           NEW n, n = Len(messages) + 1, PubOrder(c, n)', StartOrder(c, n)',
           \A i \in 1..Len(messages) : IsStart(messages[i], c) =>
               Flow(messages', i, c, messages[i].offset, {}, top'[c], held')
    PROVE  OnTheWire(c)'
<1>1. messages \in Seq(Message) /\ top[c] \in Nat
  BY EarlyTypes
<1>2. /\ Len(messages) \in Nat /\ Len(messages') = Len(messages) + 1
      /\ \A i \in 1..Len(messages) : messages'[i] = messages[i]
  BY <1>1, AppendFacts
<1>3. ASSUME NEW i \in 1..Len(messages), IsPub(messages'[i], c)
      PROVE  /\ messages'[i].offset <= top'[c] /\ Before(log'[c], messages'[i].offset)
             /\ \A x \in Early(c)' : x < messages'[i].offset
             /\ \A j \in 1..(i - 1) : IsPub(messages'[j], c) => messages'[j].offset < messages'[i].offset
  <2>1. PubOrder(c, i) /\ IsPub(messages[i], c) /\ messages'[i] = messages[i]
    BY <1>2, <1>3 DEF OnTheWire
  <2>2. messages[i].offset \in Nat
    BY <1>1, <2>1, FlowTypes
  <2>3. \A j \in 1..(i - 1) : messages'[j] = messages[j]
    BY <1>2
  <2>4. Before(log'[c], messages[i].offset)
    BY <2>1 DEF PubOrder, Before
  <2> QED
    BY <1>1, <2>1, <2>2, <2>3, <2>4 DEF PubOrder
<1>4. ASSUME NEW i \in 1..Len(messages), IsStart(messages'[i], c)
      PROVE  /\ messages'[i].offset <= top'[c] /\ Behind(log'[c], messages'[i].offset)
             /\ \A x \in Early(c)' : x <= messages'[i].offset
             /\ \A j \in 1..(i - 1) : IsPub(messages'[j], c) => messages'[j].offset <= messages'[i].offset
             /\ Flow(messages', i, c, messages'[i].offset, {}, top'[c], held')
  <2>1. StartOrder(c, i) /\ IsStart(messages[i], c) /\ messages'[i] = messages[i]
    BY <1>2, <1>4 DEF OnTheWire
  <2>2. messages[i].offset \in Nat
    BY <1>1, <2>1, FlowTypes DEF IsStart, IsTurn
  <2>3. \A j \in 1..(i - 1) : messages'[j] = messages[j]
    BY <1>2
  <2>4. Behind(log'[c], messages[i].offset)
    BY <2>1 DEF StartOrder, Behind
  <2>5. Flow(messages', i, c, messages'[i].offset, {}, top'[c], held')
    BY <2>1
  <2> QED
    BY <1>1, <2>1, <2>2, <2>3, <2>4, <2>5 DEF StartOrder
<1>5. ASSUME NEW i \in 1..Len(messages') PROVE PubOrder(c, i)' /\ StartOrder(c, i)'
  <2>1. i \in 1..Len(messages) \/ i = Len(messages) + 1
    BY <1>2
  <2>2. CASE i \in 1..Len(messages)
    BY <1>3, <1>4, <2>2 DEF PubOrder, StartOrder
  <2>3. CASE i = Len(messages) + 1
    BY <2>3
  <2> QED
    BY <2>1, <2>2, <2>3
<1> QED
  BY <1>5 DEF OnTheWire

LEMMA WireOtherwise ==
    ASSUME Base, NEW c \in Channels, OnTheWire(c), Otherwise(c),
           Early(c)' = Early(c), log'[c] = log[c], top'[c] = top[c], c \in held' => c \in held
    PROVE  OnTheWire(c)'
<1>1. messages \in Seq(Message) /\ top[c] \in Nat /\ Len(messages) \in Nat
  BY EarlyTypes, FlowTypes
<1>2. ASSUME NEW i \in 1..Len(messages)
      PROVE  /\ IsPub(messages[i], c) => Before(log'[c], messages[i].offset)
             /\ IsStart(messages[i], c) => Behind(log'[c], messages[i].offset)
  BY DEF OnTheWire, PubOrder, StartOrder, Before, Behind
<1>3. CASE messages' = messages
  BY <1>1, <1>2, <1>3, WireKeep
<1>4. CASE messages # <<>> /\ messages' = Tail(messages)
  <2>1. \A i \in 2..Len(messages) : i \in 1..Len(messages)
    BY <1>1
  <2> QED
    BY <1>2, <1>4, <2>1, WireTail
<1>5. ASSUME NEW m \in Message, ~Of(m, c), messages' = Append(messages, m) PROVE OnTheWire(c)'
  <2>1. messages'[Len(messages) + 1] = m
    BY <1>1, <1>5, AppendFacts
  <2>2. ~IsPub(m, c) /\ ~IsStart(m, c)
    BY <1>5 DEF Of, IsStart, IsTurn
  <2>5. PICK n : n = Len(messages) + 1
    OBVIOUS
  <2>3. PubOrder(c, n)' /\ StartOrder(c, n)'
    BY <2>1, <2>2, <2>5 DEF PubOrder, StartOrder
  <2>4. ASSUME NEW i \in 1..Len(messages), IsStart(messages[i], c)
        PROVE  Flow(messages', i, c, messages[i].offset, {}, top'[c], held')
    <3>1. messages[i].offset \in Nat
      BY <1>1, <2>4, FlowTypes DEF IsStart, IsTurn
    <3>2. Flow(messages, i, c, messages[i].offset, {}, top[c], held)
      BY <2>4 DEF OnTheWire, StartOrder
    <3>3. Flow(messages', i, c, messages[i].offset, {}, top[c], held)
      BY <1>1, <1>5, <3>1, <3>2, FlowAppendOther
    <3> QED
      BY <3>3, FlowSent
  <2> QED
    BY <1>1, <1>5, <2>3, <2>4, <2>5, WireAppend
<1> QED
  BY <1>3, <1>4, <1>5 DEF Otherwise

\* What the client goes by and what the application has are as before, and so is what
\* follows from there.
LEMMA Carried ==
    ASSUME Base, NEW c \in Channels, Channel(c),
           log'[c] = log[c], base'[c] = base[c], top'[c] \in Nat, top[c] <= top'[c],
           AskedPlaces(c)', Left(c)' = Left(c), Early(c)' = Early(c),
           c \in valid' => /\ c \in valid /\ Committed(c)' = Committed(c)
                           /\ offset'[c] \in {offset[c], Committed(c)},
           \A b \in Nat : b <= top[c] /\ Follows(c, b) =>
               Flow(messages', 0, c, b, Early(c), top'[c], held'),
           OnTheWire(c)'
    PROVE  Channel(c)'
<1>1. top[c] \in Nat /\ Early(c) \in SUBSET Nat
  BY EarlyTypes
<1>2. ASSUME NEW o \in Nat, Stated(c, o) PROVE Behind(log'[c], o) /\ o <= top'[c] /\ o <= top[c]
  BY <1>1, <1>2 DEF Stated
<1>3. ASSUME NEW o, Reached(log[c], base[c], o) PROVE Reached(log'[c], base'[c], o)
  BY <1>3
<1>4. ASSUME NEW o \in Nat, Stated(c, o), Follows(c, o) PROVE Flow(messages', 0, c, o, Early(c)', top'[c], held')
  BY <1>2, <1>4
<1>5. Increasing(log[c])'
  BY DEF Channel
<1>6. Behind(log[c], top[c])'
  <2>1. \A k \in 1..Len(log[c]) : log[c][k] \in Nat /\ log[c][k] <= top[c]
    BY LogTypes DEF Channel, Behind
  <2>2. \A k \in 1..Len(log[c]) : log[c][k] <= top'[c]
    BY <1>1, <2>1
  <2> QED
    BY <2>2 DEF Behind
<1>8. ValidPlace(c)'
  <2>1. SUFFICES ASSUME c \in valid'
                 PROVE  /\ Behind(log'[c], Committed(c)') /\ Committed(c)' <= top'[c]
                        /\ Reached(log'[c], base'[c], Committed(c)') /\ Reached(log'[c], base'[c], offset'[c])
                        /\ Left(c)' = {} => Flow(messages', 0, c, Committed(c)', Early(c)', top'[c], held')
    BY DEF ValidPlace, Stated, Follows
  <2>2. c \in valid /\ Committed(c)' = Committed(c) /\ offset'[c] \in {offset[c], Committed(c)}
    BY <2>1
  <2>3. /\ Stated(c, Committed(c)) /\ Reached(log[c], base[c], Committed(c))
        /\ Reached(log[c], base[c], offset[c])
        /\ Left(c) = {} => Follows(c, Committed(c))
    BY <2>2 DEF Channel, ValidPlace
  <2>4. Committed(c) \in Nat
    BY CommittedTypes
  <2> QED
    BY <1>2, <1>3, <1>4, <2>2, <2>3, <2>4
<1>9. LeftPlaces(c)'
  <2>1. SUFFICES ASSUME NEW e \in Left(c)'
                 PROVE  /\ Behind(log'[c], e.offset) /\ e.offset <= top'[c]
                        /\ e.recovered => Reached(log'[c], base'[c], e.offset)
                        /\ Flow(messages', 0, c, e.offset, Early(c)', top'[c], held')
    BY DEF LeftPlaces, Stated, Follows
  <2>2. e \in Left(c) /\ e.offset \in Nat
    BY EarlyTypes
  <2>3. Stated(c, e.offset) /\ Follows(c, e.offset) /\ (e.recovered => Reached(log[c], base[c], e.offset))
    BY <2>2 DEF Channel, LeftPlaces
  <2> QED
    BY <1>2, <1>3, <1>4, <2>2, <2>3
<1>10. EarlyOrder(c)'
  <2>1. \A x \in Early(c) : x \in Nat /\ x <= top[c] /\ Before(log[c], x)
    BY <1>1 DEF Channel, EarlyOrder
  <2>2. \A x \in Early(c) : x <= top'[c] /\ Before(log'[c], x)
    BY <1>1, <2>1
  <2> QED
    BY <2>2 DEF EarlyOrder
<1> QED
  BY <1>5, <1>6, <1>8, <1>9, <1>10 DEF Channel

\* A step that is about something else leaves the channel as it is.
LEMMA UntouchedBut ==
    ASSUME Base, NEW c \in Channels, Channel(c), Otherwise(c),
           log'[c] = log[c], base'[c] = base[c], top'[c] = top[c], c \in held' => c \in held,
           AskedPlaces(c)', Left(c)' = Left(c), Early(c)' = Early(c),
           c \in valid' => /\ c \in valid /\ Committed(c)' = Committed(c)
                           /\ offset'[c] \in {offset[c], Committed(c)}
    PROVE  Channel(c)'
<1>1. messages \in Seq(Message) /\ top[c] \in Nat /\ Early(c) \in SUBSET Nat
  BY EarlyTypes
<1>2. ASSUME NEW b \in Nat, Follows(c, b) PROVE Flow(messages', 0, c, b, Early(c), top'[c], held')
  <2>1. Flow(messages', 0, c, b, Early(c), top[c], held)
    BY <1>1, <1>2, FlowOtherwise DEF Follows
  <2> QED
    BY <2>1, FlowSent
<1>3. OnTheWire(c)'
  BY WireOtherwise DEF Channel
<1> QED
  BY <1>1, <1>2, <1>3, Carried

LEMMA Untouched ==
    ASSUME Base, NEW c \in Channels, Channel(c), Otherwise(c),
           log'[c] = log[c], base'[c] = base[c], top'[c] = top[c], c \in held' => c \in held,
           asked' \subseteq asked, Left(c)' = Left(c), Early(c)' = Early(c),
           c \in valid' => /\ c \in valid /\ Committed(c)' = Committed(c)
                           /\ offset'[c] \in {offset[c], Committed(c)}
    PROVE  Channel(c)'
<1>1. AskedPlaces(c)'
  BY DEF Channel, AskedPlaces, Asked, Stated
<1> QED
  BY <1>1, UntouchedBut

-----------------------------------------------------------------------------
(* Channel is inductive: the connection *)

\* What would be committed after a step.
LEMMA CommittedNone ==
    ASSUME NEW c, \A p \in server_pending' : p.ch # c PROVE Committed(c)' = offset'[c]
<1>1. {p \in server_pending' : p.ch = c /\ p.conn = transport_id'} = {}
  OBVIOUS
<1> QED
  BY <1>1 DEF Committed

LEMMA CommittedOne ==
    ASSUME NEW c, c \in registered', NEW q, q.ch = c, q.conn = transport_id', server_pending' = {q}
    PROVE  Committed(c)' = q.offset
<1> DEFINE mine == {p \in server_pending' : p.ch = c /\ p.conn = transport_id'}
<1>1. mine = {q}
  OBVIOUS
<1>2. (CHOOSE p \in mine : TRUE) = q
  BY <1>1, OnlyMember
<1>3. Committed(c)' = (CHOOSE p \in mine : TRUE).offset
  BY <1>1 DEF Committed
<1> QED
  BY <1>2, <1>3

LEMMA CommittedSame ==
    ASSUME NEW c, server_pending' = server_pending, transport_id' = transport_id, offset'[c] = offset[c],
           c \in registered' <=> c \in registered
    PROVE  Committed(c)' = Committed(c)
BY DEF Committed

LEMMA NobodyLive ==
    ASSUME NEW c
    PROVE  /\ Live = {} => Left(c) = {} /\ Early(c) = {}
           /\ Live' = {} => Left(c)' = {} /\ Early(c)' = {}
BY DEF Left, Early

LEMMA OneLive ==
    ASSUME NEW c, NEW t
    PROVE  /\ Live = {t} => /\ Left(c) = {e \in t.left : e.ch = c}
                            /\ Early(c) = {p.offset : p \in {q \in t.pubs : q.ch = c}}
           /\ Live' = {t} => /\ Left(c)' = {e \in t.left : e.ch = c}
                             /\ Early(c)' = {p.offset : p \in {q \in t.pubs : q.ch = c}}
<1>1. UNION {u.left : u \in {t}} = t.left /\ UNION {u.pubs : u \in {t}} = t.pubs
  OBVIOUS
<1> QED
  BY <1>1 DEF Left, Early

LEMMA NothingGiven == ASSUME Base, Giving = {} PROVE server_pending = {} /\ \A c : Committed(c) = offset[c]
BY CommittedFacts DEF Base, Pending

LEMMA ChannelConnect ==
    ASSUME Base, Base', Connect, NEW c \in Channels, Channel(c)
    PROVE  Channel(c)'
<1>1. /\ asked' = {[ch |-> d, offset |-> offset[d]] : d \in valid}
      /\ UNCHANGED <<registered, offset, valid, server_pending, tasks, messages, held, top, log, base>>
      /\ conn = 0
  BY DEF Connect, registryVars, serverVars, appVars
<1>2. ~connected /\ ~connected'
  BY <1>1 DEF Connect, Base, Types, LinkTypes
<1>3. Live = {} /\ Live' = {}
  BY <1>2 DEF Base, Closed
<1>4. Giving = {}
  BY <1>3 DEF Giving
<1>5. server_pending' = {} /\ Committed(c) = offset[c]
  BY <1>1, <1>4, NothingGiven
<1>6. Committed(c)' = offset'[c]
  BY <1>5, CommittedNone
<1>7. AskedPlaces(c)'
  <2>1. \A a \in Asked(c)' : c \in valid /\ a.offset = offset[c]
    BY <1>1 DEF Asked
  <2>2. c \in valid => Stated(c, offset[c]) /\ Reached(log[c], base[c], offset[c])
    BY <1>5 DEF Channel, ValidPlace
  <2> QED
    BY <1>1, <2>1, <2>2 DEF AskedPlaces, Stated
<1> QED
  BY <1>1, <1>3, <1>5, <1>6, <1>7, NobodyLive, UntouchedBut DEF Otherwise

LEMMA ChannelClose ==
    ASSUME Base, Base', LoseConnection \/ Invalidated, NEW c \in Channels, Channel(c)
    PROVE  Channel(c)'
<1>1. /\ CloseConnection /\ UNCHANGED <<tasks, top, log, base>>
      /\ c \in valid' => c \in valid /\ offset'[c] = Committed(c)
  BY DEF LoseConnection, Invalidated
<1>2. asked' = {} /\ messages' = <<>> /\ held' = {} /\ server_pending' = {} /\ Live' = {}
  BY <1>1, CloseFacts
<1>3. Committed(c)' = offset'[c]
  BY <1>2, CommittedNone
<1>4. Left(c)' = {} /\ Early(c)' = {}
  BY <1>2, NobodyLive
<1>5. Increasing(log[c])' /\ Behind(log[c], top[c])' /\ AskedPlaces(c)' /\ LeftPlaces(c)' /\ EarlyOrder(c)'
  BY <1>1, <1>2, <1>4 DEF Channel, AskedPlaces, Asked, LeftPlaces, EarlyOrder
<1>6. OnTheWire(c)'
  <2>1. ~ \E i \in 1..Len(<<>>) : TRUE
    OBVIOUS
  <2> QED
    BY <1>2, <2>1 DEF OnTheWire
<1>7. ValidPlace(c)'
  <2>1. SUFFICES ASSUME c \in valid'
                 PROVE  /\ Behind(log'[c], Committed(c)') /\ Committed(c)' <= top'[c]
                        /\ Reached(log'[c], base'[c], Committed(c)') /\ Reached(log'[c], base'[c], offset'[c])
                        /\ Flow(messages', 0, c, Committed(c)', Early(c)', top'[c], held')
    BY DEF ValidPlace, Stated, Follows
  <2>2. c \in valid /\ Committed(c)' = Committed(c) /\ offset'[c] = Committed(c) /\ Committed(c) \in Nat
    BY <1>1, <1>3, <2>1, CommittedTypes
  <2>3. Stated(c, Committed(c)) /\ Reached(log[c], base[c], Committed(c))
    BY <2>2 DEF Channel, ValidPlace
  <2>4. <<>> \in Seq(Message) /\ Len(<<>>) = 0 /\ top[c] \in Nat
    BY EarlyTypes
  <2>5. c \notin {} /\ 0 \in Nat /\ 0 >= 0
    OBVIOUS
  <2>6. Flow(<<>>, 0, c, Committed(c), {}, top[c], {})
    BY <2>2, <2>4, <2>5, FlowEmpty
  <2> QED
    BY <1>1, <1>2, <1>4, <2>2, <2>3, <2>6 DEF Stated
<1> QED
  BY <1>5, <1>6, <1>7 DEF Channel

\* A connect reply: what is left to tell, and what it brings.
LEMMA ReplyPlaces ==
    ASSUME Base, ConnectReply, NEW reply \in SUBSET Channels, NEW t, Replying(t, reply), Live' = {t},
           NEW c \in Channels
    PROVE  /\ c \notin reply => Left(c)' = {} /\ Early(c)' = {}
           /\ c \in reply => /\ \A e \in Left(c)' : e.offset = Position(c) /\ e.recovered = Recovered(c)
                             /\ Left(c)' # {} /\ Early(c)' = (Position(c) + 1)..top[c]
<1>1. /\ Left(c)' = {e \in t.left : e.ch = c}
      /\ Early(c)' = {p.offset : p \in {q \in t.pubs : q.ch = c}}
  BY OneLive
<1>2. t.left = {[ch |-> d, offset |-> Position(d), recovered |-> Recovered(d)] : d \in reply}
  BY DEF Replying
<1>3. \A p : p \in t.pubs <=> /\ p \in [ch : reply, offset : 1..world.events]
                              /\ p.offset \in (Position(p.ch) + 1)..top[p.ch]
  BY DEF Replying
<1>4. ASSUME c \notin reply PROVE Left(c)' = {} /\ Early(c)' = {}
  <2>1. \A e \in t.left : e.ch # c
    BY <1>2, <1>4
  <2>2. \A p \in t.pubs : p.ch # c
    BY <1>3, <1>4
  <2> QED
    BY <1>1, <2>1, <2>2
<1>5. ASSUME c \in reply, NEW e \in Left(c)' PROVE e.offset = Position(c) /\ e.recovered = Recovered(c)
  <2>1. PICK d \in reply : e = [ch |-> d, offset |-> Position(d), recovered |-> Recovered(d)]
    BY <1>1, <1>2, <1>5
  <2>2. e.ch = d /\ e.ch = c
    BY <1>1, <1>5, <2>1
  <2> QED
    BY <2>1, <2>2
<1>6. ASSUME c \in reply PROVE Left(c)' # {}
  <2> DEFINE e == [ch |-> c, offset |-> Position(c), recovered |-> Recovered(c)]
  <2>1. e \in t.left /\ e.ch = c
    BY <1>2, <1>6
  <2> HIDE DEF e
  <2> QED
    BY <1>1, <2>1
<1>7. ASSUME c \in reply PROVE Early(c)' = (Position(c) + 1)..top[c]
  <2>1. Position(c) \in Nat /\ top[c] \in Nat /\ world.events \in Nat /\ top[c] <= world.events
    <3>1. Position(c) \in Nat /\ top[c] \in Nat /\ world.events \in Nat
      BY PositionFacts, WorldFacts DEF Base, Types, ServerTypes
    <3>2. top[c] + events <= world.events /\ events \in Nat
      BY DEF Base, Bounded, Types, BoundTypes
    <3> QED
      BY <3>1, <3>2
  <2>2. ASSUME NEW x \in Early(c)' PROVE x \in (Position(c) + 1)..top[c]
    <3>1. PICK p \in t.pubs : p.ch = c /\ p.offset = x
      BY <1>1, <2>2
    <3> QED
      BY <1>3, <3>1
  <2>3. ASSUME NEW x \in (Position(c) + 1)..top[c] PROVE x \in Early(c)'
    <3> DEFINE p == [ch |-> c, offset |-> x]
    <3>1. x \in 1..world.events
      BY <2>1
    <3>2. p \in [ch : reply, offset : 1..world.events] /\ p.ch = c /\ p.offset = x
      BY <1>7, <3>1
    <3> HIDE DEF p
    <3>3. p \in t.pubs
      BY <1>3, <3>2
    <3> QED
      BY <1>1, <3>2, <3>3
  <2> QED
    BY <2>2, <2>3
<1> QED
  BY <1>4, <1>5, <1>6, <1>7

LEMMA PositionPlace ==
    ASSUME Base, NEW c \in Channels, Channel(c)
    PROVE  /\ Position(c) \in Nat /\ Stated(c, Position(c))
           /\ Recovered(c) => Reached(log[c], base[c], Position(c))
<1>1. Position(c) \in Nat /\ top[c] \in Nat
  BY PositionFacts, EarlyTypes DEF Base
<1>2. CASE Recovered(c)
  <2>1. PICK a \in asked : a.ch = c /\ a.offset = Position(c)
    BY <1>2, PositionFacts DEF Base
  <2>2. a \in Asked(c)
    BY <2>1 DEF Asked
  <2> QED
    BY <1>1, <2>1, <2>2 DEF Channel, AskedPlaces
<1>3. CASE ~Recovered(c)
  <2>1. Position(c) = top[c]
    BY <1>3, PositionFacts DEF Base
  <2>2. Stated(c, Position(c))
    BY <1>1, <2>1 DEF Stated, Channel
  <2> QED
    BY <1>1, <1>3, <2>2
<1> QED
  BY <1>2, <1>3

LEMMA ChannelReply ==
    ASSUME Base, Base', ConnectReply, NEW c \in Channels, Channel(c)
    PROVE  Channel(c)'
<1>1. /\ ~connected /\ asked' = {}
      /\ UNCHANGED <<transport_id, registered, offset, valid, server_pending, messages, top, log, base>>
  BY DEF ConnectReply, registryVars, appVars
<1>2. messages = <<>> /\ Live = {}
  BY <1>1 DEF Base, Closed
<1>3. PICK reply \in SUBSET Channels : \E t \in Task :
          held' = reply /\ tasks' = tasks \cup {t} /\ Replying(t, reply)
  BY ReplyTask
<1>4. PICK t \in Task : held' = reply /\ tasks' = tasks \cup {t} /\ Replying(t, reply)
  BY <1>3
<1>5. t.conn = transport_id
  BY <1>1, <1>4 DEF Replying, ConnectReply, Base, Types, LinkTypes
<1>6. Live' = {t}
  BY <1>1, <1>2, <1>4, <1>5 DEF Live
<1>7. /\ c \notin reply => Left(c)' = {} /\ Early(c)' = {}
      /\ c \in reply => /\ \A e \in Left(c)' : e.offset = Position(c) /\ e.recovered = Recovered(c)
                        /\ Left(c)' # {} /\ Early(c)' = (Position(c) + 1)..top[c]
  BY <1>4, <1>6, ReplyPlaces
<1>8. /\ Position(c) \in Nat /\ Stated(c, Position(c))
      /\ Recovered(c) => Reached(log[c], base[c], Position(c))
  BY PositionPlace
<1>9. Committed(c)' = Committed(c) /\ Committed(c) \in Nat /\ top[c] \in Nat
  BY <1>1, CommittedSame, CommittedTypes, EarlyTypes
<1>10. Increasing(log[c])' /\ Behind(log[c], top[c])' /\ AskedPlaces(c)'
  BY <1>1 DEF Channel, AskedPlaces, Asked
<1>11. OnTheWire(c)'
  <2>1. ~ \E i \in 1..Len(<<>>) : TRUE
    OBVIOUS
  <2> QED
    BY <1>1, <1>2, <2>1 DEF OnTheWire
<1>12. EarlyOrder(c)'
  <2>1. ASSUME NEW x \in Early(c)' PROVE x <= top'[c] /\ Before(log'[c], x)
    <3>1. x \in (Position(c) + 1)..top[c]
      BY <1>7, <2>1
    <3>2. \A k \in 1..Len(log[c]) : log[c][k] \in Nat /\ log[c][k] <= Position(c)
      BY <1>8, LogTypes DEF Stated, Behind
    <3> QED
      BY <1>1, <1>8, <1>9, <3>1, <3>2 DEF Before
  <2> QED
    BY <2>1 DEF EarlyOrder
<1>13. LeftPlaces(c)'
  <2>1. SUFFICES ASSUME NEW e \in Left(c)'
                 PROVE  /\ Behind(log'[c], e.offset) /\ e.offset <= top'[c]
                        /\ e.recovered => Reached(log'[c], base'[c], e.offset)
                        /\ Flow(messages', 0, c, e.offset, Early(c)', top'[c], held')
    BY DEF LeftPlaces, Stated, Follows
  <2>2. c \in reply /\ e.offset = Position(c) /\ e.recovered = Recovered(c)
        /\ Early(c)' = (Position(c) + 1)..top[c]
    BY <1>7, <2>1
  <2>3. Flow(<<>>, 0, c, Position(c), (Position(c) + 1)..top[c], top[c], held')
    BY <1>8, <1>9, FlowReply
  <2> QED
    BY <1>1, <1>2, <1>8, <2>2, <2>3 DEF Stated
<1>14. ValidPlace(c)'
  <2>1. SUFFICES ASSUME c \in valid'
                 PROVE  /\ Behind(log'[c], Committed(c)') /\ Committed(c)' <= top'[c]
                        /\ Reached(log'[c], base'[c], Committed(c)') /\ Reached(log'[c], base'[c], offset'[c])
                        /\ Left(c)' = {} => Flow(messages', 0, c, Committed(c)', Early(c)', top'[c], held')
    BY DEF ValidPlace, Stated, Follows
  <2>2. /\ Stated(c, Committed(c)) /\ Reached(log[c], base[c], Committed(c))
        /\ Reached(log[c], base[c], offset[c])
    BY <1>1, <2>1 DEF Channel, ValidPlace
  <2>3. ASSUME Left(c)' = {} PROVE Flow(messages', 0, c, Committed(c)', Early(c)', top'[c], held')
    <3>1. c \notin held' /\ Early(c)' = {}
      BY <1>4, <1>7, <2>3
    <3>2. <<>> \in Seq(Message) /\ Len(<<>>) = 0 /\ 0 \in Nat /\ 0 >= 0
      OBVIOUS
    <3>3. Flow(<<>>, 0, c, Committed(c), {}, top[c], held')
      BY <1>9, <3>1, <3>2, FlowEmpty
    <3> QED
      BY <1>1, <1>2, <1>9, <3>1, <3>3
  <2> QED
    BY <1>1, <1>9, <2>2, <2>3 DEF Stated
<1> QED
  BY <1>10, <1>11, <1>12, <1>13, <1>14 DEF Channel

-----------------------------------------------------------------------------
(* Channel is inductive: handlers that return *)

\* The position that moves when the handler of a publication returns was committed before.
LEMMA MovedCommitted ==
    ASSUME Base, NEW t \in Live, NEW c \in valid PROVE Moved(t)[c] = Committed(c)
<1>1. t \in tasks /\ Live = {t}
  BY LiveFacts DEF Live
<1>2. c \in registered /\ c \in Channels /\ offset \in [Channels -> Nat]
  BY DEF Base, Types, RegistryTypes
<1>3. CASE Moves(t)
  <2>1. t \in Giving /\ t.ch \in registered /\ Moved(t) = [offset EXCEPT ![t.ch] = t.offset]
    BY <1>3 DEF Moves, Moved, Giving
  <2>2. CASE t.ch = c
    BY <1>2, <2>1, <2>2, CommittedFacts
  <2>3. CASE t.ch # c
    <3>1. \A u \in Giving : u.ch # c
      BY <1>1, <2>3 DEF Giving
    <3> QED
      BY <1>2, <2>1, <2>3, <3>1, CommittedFacts
  <2> QED
    BY <2>2, <2>3
<1>4. CASE ~Moves(t)
  <2>1. \A u \in Giving : u.ch # c
    BY <1>1, <1>2, <1>4 DEF Giving, Moves, Live
  <2> QED
    BY <1>4, <2>1, CommittedFacts DEF Moved
<1> QED
  BY <1>3, <1>4

LEMMA ReachedMore ==
    ASSUME NEW l \in Seq(Nat), NEW b, NEW o, NEW x \in Nat, Reached(l, b, o)
    PROVE  Reached(Append(l, x), b, o)
<1>1. \A k \in 1..Len(l) : k \in 1..Len(Append(l, x)) /\ Append(l, x)[k] = l[k]
  OBVIOUS
<1> QED
  BY <1>1 DEF Reached

\* The application is given one more, after all it has.
LEMMA GivenOnce ==
    ASSUME NEW l \in Seq(Nat), NEW x \in Nat, Increasing(l), Before(l, x)
    PROVE  /\ Increasing(Append(l, x)) /\ Behind(Append(l, x), x)
           /\ \A o \in Nat : x < o => Before(Append(l, x), o)
           /\ \A o \in Nat : x <= o => Behind(Append(l, x), o)
           /\ \E k \in 1..Len(Append(l, x)) : Append(l, x)[k] = x
<1>1. /\ Len(l) \in Nat /\ Len(Append(l, x)) = Len(l) + 1 /\ Append(l, x)[Len(l) + 1] = x
      /\ \A k \in 1..Len(l) : Append(l, x)[k] = l[k] /\ l[k] \in Nat
      /\ \A k \in 1..(Len(l) + 1) : k \in 1..Len(l) \/ k = Len(l) + 1
  OBVIOUS
<1>2. \A k \in 1..Len(l) : l[k] < x
  BY DEF Before
<1>3. Increasing(Append(l, x))
  <2> SUFFICES ASSUME NEW j \in 1..(Len(l) + 1), NEW k \in 1..(Len(l) + 1), j < k
               PROVE  Append(l, x)[j] < Append(l, x)[k]
    BY <1>1 DEF Increasing
  <2>1. j \in 1..Len(l)
    BY <1>1
  <2>2. CASE k \in 1..Len(l)
    BY <1>1, <2>1, <2>2 DEF Increasing
  <2>3. CASE k = Len(l) + 1
    BY <1>1, <1>2, <2>1, <2>3
  <2> QED
    BY <1>1, <2>2, <2>3
<1>4. \A k \in 1..(Len(l) + 1) : Append(l, x)[k] \in Nat /\ Append(l, x)[k] <= x
  BY <1>1, <1>2
<1>5. \A o \in Nat : (x < o => Before(Append(l, x), o)) /\ (x <= o => Behind(Append(l, x), o))
  BY <1>1, <1>4 DEF Before, Behind
<1>6. Len(l) + 1 \in 1..Len(Append(l, x))
  BY <1>1
<1> QED
  BY <1>1, <1>3, <1>5, <1>6

\* A handler that leaves the publications and the channel to what they were.
LEMMA ChannelTells ==
    ASSUME Base, NEW t \in tasks, TellsNext(t),
           UNCHANGED <<linkVars, subVars, commands, messages, serverVars, events, calls, faults>>,
           NEW c \in Channels, Channel(c)
    PROVE  Channel(c)'
<1>1. PICK e \in t.left :
        /\ Register(e.ch, e.offset)
        /\ base' = IF e.recovered THEN base ELSE [base EXCEPT ![e.ch] = e.offset]
        /\ tasks' = (tasks \ {t}) \cup {Telling(t, e)}
  BY DEF TellsNext, Telling
<1>2. t \in Task /\ e.ch \in Channels /\ e.offset \in Nat /\ e.recovered \in BOOLEAN
  BY TaskFacts DEF Base, Types, TaskTypes
<1>3. t \in Live /\ Live = {t} /\ connected
  BY LiveFacts DEF TellsNext
<1> DEFINE u == Telling(t, e)
<1>4. u \in Task /\ u.conn = t.conn /\ u.left = t.left \ {e} /\ u.pubs = t.pubs /\ tasks' = (tasks \ {t}) \cup {u}
  BY <1>1, <1>2, TellingFacts
<1> HIDE DEF u
<1>5. Live' = {u}
  BY <1>3, <1>4, LiveAfter DEF linkVars
<1>6. /\ UNCHANGED <<transport_id, connected, asked, messages, held, top, log, server_pending>>
  BY DEF TellsNext, linkVars, serverVars
<1>7. server_pending = {}
  <2>1. t.at # "publication"
    BY <1>1 DEF Base, Shapes, Shape
  <2>2. Giving = {}
    BY <1>3, <2>1 DEF Giving
  <2> QED
    BY <2>2, NothingGiven
<1>8. Committed(c) = offset[c] /\ Committed(c)' = offset'[c]
  <2>1. Giving = {}
    BY <1>1, <1>3 DEF Giving, Base, Shapes, Shape
  <2> QED
    BY <1>6, <1>7, <2>1, NothingGiven, CommittedNone
<1>9. /\ Left(c) = {f \in t.left : f.ch = c}
      /\ Early(c) = {p.offset : p \in {q \in t.pubs : q.ch = c}}
      /\ Left(c)' = {f \in u.left : f.ch = c}
      /\ Early(c)' = {p.offset : p \in {q \in u.pubs : q.ch = c}}
  BY <1>3, <1>5, OneLive
<1>10. Early(c)' = Early(c)
  BY <1>4, <1>9
<1>11. CASE e.ch # c
  <2>1. Left(c)' = Left(c)
    BY <1>4, <1>9, <1>11
  <2>2. /\ c \in valid' => c \in valid /\ offset'[c] = offset[c]
        /\ base'[c] = base[c]
    BY <1>1, <1>2, <1>11 DEF Register, Base, Types, RegistryTypes, AppTypes
  <2> QED
    BY <1>6, <1>8, <1>10, <2>1, <2>2, Untouched DEF Otherwise
<1>12. CASE e.ch = c
  <2>1. e \in Left(c) /\ Left(c)' = {}
    <3>1. \A f \in t.left : f.ch = c => f = e
      BY <1>12 DEF Base, Shapes, Shape
    <3> QED
      BY <1>4, <1>9, <1>12, <3>1
  <2>2. offset'[c] = e.offset /\ (e.recovered => base' = base) /\ (~e.recovered => base'[c] = e.offset)
    BY <1>1, <1>2, <1>12 DEF Register, Base, Types, RegistryTypes, AppTypes
  <2>3. Stated(c, e.offset) /\ Follows(c, e.offset) /\ (e.recovered => Reached(log[c], base[c], e.offset))
    BY <2>1 DEF Channel, LeftPlaces
  <2>4. Reached(log'[c], base'[c], e.offset)
    <3>1. CASE e.recovered
      BY <1>6, <2>2, <2>3, <3>1
    <3>2. CASE ~e.recovered
      <4>1. ~ \E x \in (e.offset + 1)..e.offset : TRUE
        BY <1>2
      <4> QED
        BY <2>2, <3>2, <4>1 DEF Reached
    <3> QED
      BY <3>1, <3>2
  <2>5. ValidPlace(c)'
    <3>1. /\ Behind(log'[c], Committed(c)') /\ Committed(c)' <= top'[c]
          /\ Reached(log'[c], base'[c], Committed(c)') /\ Reached(log'[c], base'[c], offset'[c])
          /\ Flow(messages', 0, c, Committed(c)', Early(c)', top'[c], held')
      BY <1>6, <1>8, <1>10, <2>2, <2>3, <2>4 DEF Stated, Follows
    <3> QED
      BY <3>1 DEF ValidPlace, Stated, Follows
  <2>6. LeftPlaces(c)'
    BY <2>1 DEF LeftPlaces
  <2>7. AskedPlaces(c)'
    <3>1. asked' = {}
      BY <1>3, <1>6 DEF Base, Tasks
    <3> QED
      BY <3>1 DEF AskedPlaces, Asked
  <2>8. EarlyOrder(c)' /\ Increasing(log[c])' /\ Behind(log[c], top[c])'
    BY <1>6, <1>10 DEF Channel, EarlyOrder
  <2>9. OnTheWire(c)'
    <3>1. Otherwise(c) /\ log'[c] = log[c] /\ top'[c] = top[c] /\ held' = held
      BY <1>6 DEF Otherwise
    <3> QED
      BY <1>10, <3>1, WireOtherwise DEF Channel
  <2> QED
    BY <2>5, <2>6, <2>7, <2>8, <2>9 DEF Channel
<1> QED
  BY <1>11, <1>12

\* The next publication of channel c is given.
LEMMA ChannelGiven ==
    ASSUME Base, Base', NEW c \in Channels, Channel(c), connected, Left(c) = {}, Left(c)' = {},
           UNCHANGED <<asked, messages, held, top, valid, base>>,
           NEW x \in Early(c), \A y \in Early(c) : x <= y, Early(c)' = Early(c) \ {x},
           log'[c] = Append(log[c], x),
           c \in valid => Committed(c)' = x /\ offset'[c] = Committed(c)
    PROVE  Channel(c)'
<1>1. /\ x \in Nat /\ top[c] \in Nat /\ messages \in Seq(Message) /\ Early(c) \in SUBSET Nat
      /\ log[c] \in Seq(Nat) /\ base[c] \in Nat /\ Len(messages) \in Nat
  BY EarlyTypes, LogTypes, FlowTypes
<1>2. Before(log[c], x) /\ x <= top[c] /\ Increasing(log[c])
  BY DEF Channel, EarlyOrder
<1>3. /\ Increasing(log'[c]) /\ Behind(log'[c], x)
      /\ \A o \in Nat : x < o => Before(log'[c], o)
      /\ \A o \in Nat : x <= o => Behind(log'[c], o)
      /\ \E k \in 1..Len(log'[c]) : log'[c][k] = x
  <2> DEFINE l == log[c]
  <2>1. l \in Seq(Nat) /\ Increasing(l) /\ Before(l, x) /\ log'[c] = Append(l, x)
    BY <1>1, <1>2
  <2> HIDE DEF l
  <2>2. /\ Increasing(Append(l, x)) /\ Behind(Append(l, x), x)
        /\ \A o \in Nat : x < o => Before(Append(l, x), o)
        /\ \A o \in Nat : x <= o => Behind(Append(l, x), o)
        /\ \E k \in 1..Len(Append(l, x)) : Append(l, x)[k] = x
    BY <1>1, <2>1, GivenOnce
  <2> QED
    BY <2>1, <2>2
<1>4. \A i \in 1..Len(messages) : IsPub(messages[i], c) => messages[i].offset \in Nat /\ x < messages[i].offset
  BY <1>1, FlowTypes DEF Channel, OnTheWire, PubOrder
<1>5. \A i \in 1..Len(messages) : IsStart(messages[i], c) => messages[i].offset \in Nat /\ x <= messages[i].offset
  BY <1>1, FlowTypes DEF Channel, OnTheWire, StartOrder, IsStart, IsTurn
<1>6. OnTheWire(c)'
  <2>1. top'[c] \in Nat /\ top[c] <= top'[c] /\ top'[c] = top[c]
    BY <1>1
  <2> QED
    BY <1>3, <1>4, <1>5, <2>1, WireKeep DEF Channel
<1>7. EarlyOrder(c)'
  <2>1. ASSUME NEW y \in Early(c) \ {x} PROVE y <= top[c] /\ Before(log'[c], y)
    <3>1. y \in Nat /\ x < y /\ y <= top[c]
      BY <1>1 DEF Channel, EarlyOrder
    <3> QED
      BY <1>3, <3>1
  <2> QED
    BY <2>1 DEF EarlyOrder
<1>8. ValidPlace(c)'
  <2>1. SUFFICES ASSUME c \in valid'
                 PROVE  /\ Behind(log'[c], Committed(c)') /\ Committed(c)' <= top'[c]
                        /\ Reached(log'[c], base'[c], Committed(c)') /\ Reached(log'[c], base'[c], offset'[c])
                        /\ Flow(messages', 0, c, Committed(c)', Early(c)', top'[c], held')
    BY DEF ValidPlace, Stated, Follows
  <2>2. c \in valid /\ Committed(c)' = x /\ offset'[c] = Committed(c) /\ Committed(c) \in Nat
    BY <2>1, CommittedTypes
  <2>3. Reached(log[c], base[c], Committed(c)) /\ Follows(c, Committed(c))
    BY <2>2 DEF Channel, ValidPlace
  <2>4. Reached(log'[c], base[c], Committed(c))
    BY <1>1, <2>3, ReachedMore
  <2>5. ASSUME NEW y \in (base[c] + 1)..x PROVE \E k \in 1..Len(log'[c]) : log'[c][k] = y
    <3>1. CASE y <= Committed(c)
      <4>1. y \in (base[c] + 1)..Committed(c)
        BY <1>1, <2>2, <3>1
      <4> QED
        BY <2>4, <4>1 DEF Reached
    <3>2. CASE ~(y <= Committed(c))
      <4>1. y \in (Committed(c) + 1)..x
        BY <1>1, <2>2, <3>2
      <4>2. y \in Early(c)
        BY <2>3, <4>1 DEF Follows, Flow
      <4>3. y = x
        BY <1>1, <4>1, <4>2
      <4> QED
        BY <1>3, <4>3
    <3> QED
      BY <3>1, <3>2
  <2>6. Reached(log'[c], base[c], x)
    BY <2>5 DEF Reached
  <2>7. Flow(messages, 0, c, x, Early(c) \ {x}, top[c], held)
    BY <1>1, <1>4, <2>2, <2>3, FlowTake DEF Follows
  <2> QED
    BY <1>2, <1>3, <2>2, <2>4, <2>6, <2>7
<1>9. LeftPlaces(c)' /\ AskedPlaces(c)'
  <2>1. asked' = {}
    BY DEF Base, Tasks
  <2> QED
    BY <2>1 DEF LeftPlaces, AskedPlaces, Asked
<1>10. Behind(log[c], top[c])'
  BY <1>1, <1>2, <1>3
<1>11. Increasing(log[c])'
  BY <1>3
<1> QED
  BY <1>6, <1>7, <1>8, <1>9, <1>10, <1>11 DEF Channel

LEMMA ChannelGives ==
    ASSUME Base, Base', NEW t \in tasks, GivesNext(t),
           UNCHANGED <<linkVars, subVars, commands, messages, serverVars, events, calls, faults>>,
           NEW c \in Channels, Channel(c)
    PROVE  Channel(c)'
<1>1. PICK p \in t.pubs :
        /\ IsNext(t, p)
        /\ offset' = Moved(t)
        /\ server_pending' = {q \in NotPending(t) : q.ch # p.ch}
                             \cup {[ch |-> p.ch, conn |-> t.conn, offset |-> p.offset]}
        /\ log' = [log EXCEPT ![p.ch] = Append(@, p.offset)]
        /\ tasks' = (tasks \ {t}) \cup {Given(t, p)}
  BY DEF GivesNext, Given
<1>2. t \in Task /\ p.ch \in Channels /\ p.offset \in Nat /\ \A q \in t.pubs : q \in Publication
  BY TaskFacts DEF Base, Types, TaskTypes
<1>3. t \in Live /\ Live = {t} /\ NotPending(t) = {} /\ connected /\ t.conn = transport_id
  BY LiveFacts DEF GivesNext, Live
<1>4. t.left = {} /\ UNCHANGED <<registered, valid, base, transport_id, asked, messages, held, top>>
  BY DEF GivesNext, linkVars, serverVars
<1> DEFINE u == Given(t, p)
<1>5. u \in Task /\ u.conn = t.conn /\ u.left = t.left /\ u.pubs = t.pubs \ {p} /\ tasks' = (tasks \ {t}) \cup {u}
  BY <1>1, <1>2, GivenFacts
<1> HIDE DEF u
<1>6. Live' = {u}
  BY <1>3, <1>4, <1>5, LiveAfter
<1>7. /\ Left(c) = {f \in t.left : f.ch = c}
      /\ Early(c) = {q.offset : q \in {r \in t.pubs : r.ch = c}}
      /\ Left(c)' = {f \in u.left : f.ch = c}
      /\ Early(c)' = {q.offset : q \in {r \in u.pubs : r.ch = c}}
  BY <1>3, <1>6, OneLive
<1>8. Left(c) = {} /\ Left(c)' = {}
  BY <1>4, <1>5, <1>7
<1>9. c \in valid => offset'[c] = Committed(c)
  BY <1>1, <1>3, MovedCommitted
<1> DEFINE q == [ch |-> p.ch, conn |-> t.conn, offset |-> p.offset]
<1>10. server_pending' = {q} /\ q.ch = p.ch /\ q.conn = transport_id' /\ q.offset = p.offset
  BY <1>1, <1>3, <1>4
<1> HIDE DEF q
<1>11. CASE p.ch # c
  <2>1. Early(c)' = Early(c)
    <3>1. {r \in u.pubs : r.ch = c} = {r \in t.pubs : r.ch = c}
      BY <1>5, <1>11
    <3> QED
      BY <1>7, <3>1
  <2>2. log'[c] = log[c]
    BY <1>1, <1>2, <1>11 DEF Base, Types, AppTypes
  <2>3. Committed(c)' = offset'[c]
    BY <1>10, <1>11, CommittedNone
  <2> QED
    BY <1>4, <1>8, <1>9, <2>1, <2>2, <2>3, Untouched DEF Otherwise
<1>12. CASE p.ch = c
  <2>1. p.offset \in Early(c)
    BY <1>7, <1>12
  <2>2. \A y \in Early(c) : p.offset <= y
    <3>1. \A r \in t.pubs : r.ch = c => p.offset <= r.offset
      BY <1>1, <1>2, <1>12, TaskFacts DEF IsNext
    <3> QED
      BY <1>7, <3>1
  <2>3. Early(c)' = Early(c) \ {p.offset}
    <3>1. \A r \in t.pubs : r.ch = c /\ r.offset = p.offset => r = p
      BY <1>2, <1>12 DEF Publication
    <3> QED
      BY <1>5, <1>7, <3>1
  <2>4. log'[c] = Append(log[c], p.offset)
    BY <1>1, <1>12 DEF Base, Types, AppTypes
  <2>5. c \in valid => Committed(c)' = p.offset
    <3>1. c \in valid => c \in registered'
      BY <1>4 DEF Base, Types, RegistryTypes
    <3> QED
      BY <1>10, <1>12, <3>1, CommittedOne
  <2> QED
    BY <1>3, <1>4, <1>8, <1>9, <2>1, <2>2, <2>3, <2>4, <2>5, ChannelGiven
<1> QED
  BY <1>11, <1>12

\* The last handler of a task changes nothing that is said of a channel that stays.
LEMMA ChannelEndOfTask ==
    ASSUME Base, NEW t \in tasks, tasks' = tasks \ {t}, t \in Live => t.left = {} /\ t.pubs = {},
           UNCHANGED <<linkVars, messages, serverVars, log, base>>,
           server_pending' = NotPending(t), NEW c \in Channels, Channel(c),
           c \in valid' => c \in valid /\ c \in registered' /\ offset'[c] = Moved(t)[c]
    PROVE  Channel(c)'
<1>1. UNCHANGED <<transport_id, asked, held, top>>
  BY DEF linkVars, serverVars
<1>2. /\ t \in Live => Live' = {}
      /\ t \notin Live => Live' = Live
  BY <1>1, LastHandler
<1>3. Left(c)' = Left(c) /\ Early(c)' = Early(c)
  <2>1. CASE t \in Live
    <3>1. Live = {t} /\ Live' = {}
      BY <1>2, <2>1, LiveFacts
    <3>2. Left(c) = {f \in t.left : f.ch = c} /\ Early(c) = {p.offset : p \in {q \in t.pubs : q.ch = c}}
      BY <3>1, OneLive
    <3>3. Left(c) = {} /\ Early(c) = {}
      BY <2>1, <3>2
    <3> QED
      BY <3>1, <3>3, NobodyLive
  <2>2. CASE t \notin Live
    BY <1>2, <2>2 DEF Left, Early
  <2> QED
    BY <2>1, <2>2
<1>4. ASSUME c \in valid' PROVE Committed(c)' = Committed(c) /\ offset'[c] \in {offset[c], Committed(c)}
  <2>1. CASE t \in Live
    <3>1. offset'[c] = Committed(c)
      BY <1>4, <2>1, MovedCommitted
    <3>2. server_pending' = {}
      BY <2>1, LiveFacts
    <3> QED
      BY <3>1, <3>2, CommittedNone
  <2>2. CASE t \notin Live
    <3>1. server_pending' = server_pending /\ offset'[c] = offset[c]
      BY <1>4, <2>2, LiveFacts, MovedTypes
    <3>2. c \in registered' <=> c \in registered
      BY <1>4 DEF Base, Types, RegistryTypes
    <3> QED
      BY <1>1, <3>1, <3>2, CommittedSame
  <2> QED
    BY <2>1, <2>2
<1>5. Otherwise(c) /\ log'[c] = log[c] /\ base'[c] = base[c] /\ top'[c] = top[c]
  BY <1>1 DEF Otherwise
<1> QED
  BY <1>1, <1>3, <1>4, <1>5, Untouched

LEMMA ChannelHandler ==
    ASSUME Base, Base', HandlerReturns, NEW c \in Channels, Channel(c)
    PROVE  Channel(c)'
<1>1. PICK t \in tasks : TellsNext(t) \/ GivesNext(t) \/ DropsTheRest(t) \/ Stops(t)
  BY DEF HandlerReturns
<1>2. UNCHANGED <<linkVars, subVars, commands, messages, serverVars, events, calls, faults>>
  BY DEF HandlerReturns
<1>3. CASE TellsNext(t)
  BY <1>2, <1>3, ChannelTells
<1>4. CASE GivesNext(t)
  BY <1>2, <1>4, ChannelGives
<1>5. CASE DropsTheRest(t)
  <2>1. /\ t.left = {} /\ t.pubs = {} /\ tasks' = tasks \ {t} /\ server_pending' = NotPending(t)
        /\ registered' = registered \ NotInReply(t.reply) /\ valid' = valid \ NotInReply(t.reply)
        /\ offset' = [d \in Channels |-> IF d \in NotInReply(t.reply) THEN 0 ELSE Moved(t)[d]]
        /\ UNCHANGED <<log, base>>
    BY <1>5 DEF DropsTheRest
  <2>2. c \in valid' => c \in valid /\ c \in registered' /\ offset'[c] = Moved(t)[c]
    BY <2>1 DEF Base, Types, RegistryTypes
  <2> QED
    BY <1>2, <2>1, <2>2, ChannelEndOfTask
<1>6. CASE Stops(t)
  <2>1. /\ tasks' = tasks \ {t} /\ server_pending' = NotPending(t) /\ offset' = Moved(t)
        /\ UNCHANGED <<registered, valid, log, base>>
        /\ t \in Live => t.kind = "push"
    BY <1>6, LiveFacts DEF Stops, appVars
  <2>2. t \in Live => t.left = {} /\ t.pubs = {}
    BY <2>1 DEF Base, Shapes, Shape
  <2>3. c \in valid' => c \in valid /\ c \in registered' /\ offset'[c] = Moved(t)[c]
    BY <2>1 DEF Base, Types, RegistryTypes
  <2> QED
    BY <1>2, <2>1, <2>2, <2>3, ChannelEndOfTask
<1> QED
  BY <1>1, <1>3, <1>4, <1>5, <1>6

-----------------------------------------------------------------------------
(* Channel is inductive: messages *)

\* After a message, nothing is left to tell or to give.
LEMMA AfterMessage ==
    ASSUME Base, NEW op, Receives(op), UNCHANGED linkVars, NEW c \in Channels,
           Live' = {} \/ \E u : Live' = {u} /\ u.left = {} /\ u.pubs = {}
    PROVE  /\ Left(c) = {} /\ Early(c) = {} /\ Left(c)' = {} /\ Early(c)' = {} /\ asked' = {}
           /\ messages \in Seq(Message) /\ messages # <<>> /\ messages' = Tail(messages) /\ top[c] \in Nat
           /\ messages[1] = Head(messages) /\ Head(messages).op = op /\ Head(messages) \in Message
           /\ 1 \in 1..Len(messages)
           /\ Committed(c) = offset[c]
<1>1. connected /\ Live = {} /\ Giving = {}
  BY ReceiveFacts
<1>2. asked' = {}
  BY <1>1 DEF Base, Tasks, linkVars
<1>3. Left(c) = {} /\ Early(c) = {}
  BY <1>1, NobodyLive
<1>4. Left(c)' = {} /\ Early(c)' = {}
  <2>1. CASE Live' = {}
    BY <2>1, NobodyLive
  <2>2. ASSUME NEW u, Live' = {u}, u.left = {}, u.pubs = {} PROVE Left(c)' = {} /\ Early(c)' = {}
    <3>1. /\ Left(c)' = {f \in u.left : f.ch = c}
          /\ Early(c)' = {p.offset : p \in {q \in u.pubs : q.ch = c}}
      BY <2>2, OneLive
    <3> QED
      BY <2>2, <3>1
  <2> QED
    BY <2>1, <2>2
<1>5. /\ messages \in Seq(Message) /\ messages # <<>> /\ messages' = Tail(messages)
      /\ messages[1] = Head(messages) /\ Head(messages).op = op /\ Head(messages) \in Message
  BY ReceiveFacts
<1>6. 1 \in 1..Len(messages) /\ top[c] \in Nat
  BY <1>5, TailFacts, EarlyTypes
<1>7. Committed(c) = offset[c]
  BY <1>1, NothingGiven
<1> QED
  BY <1>2, <1>3, <1>4, <1>5, <1>6, <1>7

\* A channel that has no position any more, or never had.
LEMMA ChannelNotValid ==
    ASSUME Base, NEW c \in Channels, Channel(c), messages # <<>>, messages' = Tail(messages),
           Left(c)' = {}, Early(c)' = {}, asked' = {}, c \notin valid',
           log'[c] = log[c], top'[c] = top[c], held' = held
    PROVE  Channel(c)'
<1>1. Len(messages) \in Nat
  BY EarlyTypes, FlowTypes
<1>2. \A i \in 2..Len(messages) : i \in 1..Len(messages)
  BY <1>1
<1>3. \A i \in 2..Len(messages) : /\ IsPub(messages[i], c) => Before(log'[c], messages[i].offset)
                                  /\ IsStart(messages[i], c) => Behind(log'[c], messages[i].offset)
  BY <1>2 DEF Channel, OnTheWire, PubOrder, StartOrder
<1>4. OnTheWire(c)'
  BY <1>3, WireTail DEF Channel
<1> QED
  BY <1>4 DEF Channel, AskedPlaces, Asked, ValidPlace, LeftPlaces, EarlyOrder

LEMMA ChannelPublished ==
    ASSUME Base, Base', PublicationArrives, NEW c \in Channels, Channel(c)
    PROVE  Channel(c)'
<1> DEFINE m == Head(messages)
<1>1. /\ Receives("publication")
      /\ UNCHANGED <<linkVars, registered, offset, valid, held, top, base>>
  BY DEF PublicationArrives, serverVars
<1>2. transport_id' = transport_id
  BY <1>1 DEF linkVars
<1>3. m.ch \in Channels /\ m.offset \in Nat /\ conn = transport_id /\ conn \in Nat \ {0} /\ m.offset # 0
  BY <1>1, PublicationFacts, ReceiveFacts
<1>4. Live' = {} \/ \E u : Live' = {u} /\ u.left = {} /\ u.pubs = {}
  <2>1. CASE m.ch \in registered
    <3>1. Live' = {PushTask("publication", m.ch, m.offset)}
      BY <2>1, BasePublication
    <3>2. /\ PushTask("publication", m.ch, m.offset).left = {}
          /\ PushTask("publication", m.ch, m.offset).pubs = {}
      BY <1>3, PushFacts
    <3> QED
      BY <3>1, <3>2
  <2>2. CASE m.ch \notin registered
    BY <2>2, BasePublication
  <2> QED
    BY <2>1, <2>2
<1>5. /\ Left(c) = {} /\ Early(c) = {} /\ Left(c)' = {} /\ Early(c)' = {} /\ asked' = {}
      /\ messages \in Seq(Message) /\ messages # <<>> /\ messages' = Tail(messages) /\ top[c] \in Nat
      /\ messages[1] = m /\ m.op = "publication" /\ 1 \in 1..Len(messages) /\ Committed(c) = offset[c]
  BY <1>1, <1>4, AfterMessage
<1>6. registered \subseteq valid /\ server_pending = {}
  BY <1>1, ReceiveFacts
<1>7. m.ch \in registered => /\ server_pending' = {q \in server_pending : q.ch # m.ch}
                                                  \cup {[ch |-> m.ch, conn |-> conn, offset |-> m.offset]}
                             /\ log' = [log EXCEPT ![m.ch] = Append(@, m.offset)]
  BY DEF PublicationArrives
<1>8. m.ch \notin registered => UNCHANGED <<server_pending, log>>
  BY DEF PublicationArrives
<1> HIDE DEF m
<1>9. CASE m.ch # c
  <2>1. ~Of(messages[1], c)
    BY <1>5, <1>9 DEF Of, IsPub, IsTurn
  <2>2. log'[c] = log[c]
    BY <1>3, <1>7, <1>8, <1>9 DEF Base, Types, AppTypes
  <2>3. \A p \in server_pending' : p.ch # c
    BY <1>6, <1>7, <1>8, <1>9
  <2>4. Committed(c)' = offset'[c]
    BY <2>3, CommittedNone
  <2> QED
    BY <1>1, <1>5, <2>1, <2>2, <2>4, Untouched DEF Otherwise
<1>10. CASE m.ch = c /\ c \notin registered
  <2>1. c \notin valid' /\ log'[c] = log[c]
    BY <1>1, <1>8, <1>10 DEF Base, Types, RegistryTypes
  <2> QED
    BY <1>1, <1>5, <2>1, ChannelNotValid
<1>11. CASE m.ch = c /\ c \in registered
  <2>1. log'[c] = Append(log[c], m.offset) /\ log[c] \in Seq(Nat) /\ base[c] \in Nat
    BY <1>7, <1>11, LogTypes DEF Base, Types, AppTypes
  <2>2. PubOrder(c, 1) /\ IsPub(messages[1], c) /\ ~IsTurn(messages[1], c)
    BY <1>5, <1>11 DEF Channel, OnTheWire, IsPub, IsTurn
  <2>3. m.offset <= top[c] /\ Before(log[c], m.offset) /\ Increasing(log[c])
    BY <1>5, <2>2 DEF PubOrder, Channel
  <2>4. /\ Increasing(log'[c]) /\ Behind(log'[c], m.offset)
        /\ \A o \in Nat : m.offset < o => Before(log'[c], o)
        /\ \A o \in Nat : m.offset <= o => Behind(log'[c], o)
        /\ \E k \in 1..Len(log'[c]) : log'[c][k] = m.offset
    <3> DEFINE l == log[c]
    <3>1. l \in Seq(Nat) /\ Increasing(l) /\ Before(l, m.offset) /\ log'[c] = Append(l, m.offset)
      BY <2>1, <2>3
    <3> HIDE DEF l
    <3>2. /\ Increasing(Append(l, m.offset)) /\ Behind(Append(l, m.offset), m.offset)
          /\ \A o \in Nat : m.offset < o => Before(Append(l, m.offset), o)
          /\ \A o \in Nat : m.offset <= o => Behind(Append(l, m.offset), o)
          /\ \E k \in 1..Len(Append(l, m.offset)) : Append(l, m.offset)[k] = m.offset
      BY <1>3, <3>1, GivenOnce
    <3> QED
      BY <3>1, <3>2
  <2>5. ASSUME NEW i \in 2..Len(messages)
        PROVE  /\ IsPub(messages[i], c) => messages[i].offset \in Nat /\ m.offset < messages[i].offset
               /\ IsStart(messages[i], c) => messages[i].offset \in Nat /\ m.offset <= messages[i].offset
    <3>1. i \in 1..Len(messages) /\ 1 \in 1..(i - 1)
      BY <1>5, FlowTypes
    <3>2. PubOrder(c, i) /\ StartOrder(c, i)
      BY <3>1 DEF Channel, OnTheWire
    <3> QED
      BY <1>5, <2>2, <3>1, <3>2, FlowTypes DEF PubOrder, StartOrder, IsStart, IsTurn
  <2>6. OnTheWire(c)'
    BY <1>1, <1>5, <2>4, <2>5, WireTail DEF Channel
  <2>7. c \in valid /\ Committed(c) \in Nat /\ offset'[c] = Committed(c)
    BY <1>1, <1>5, <1>6, <1>11, CommittedTypes
  <2>8. Committed(c)' = m.offset
    <3> DEFINE q == [ch |-> m.ch, conn |-> conn, offset |-> m.offset]
    <3>1. server_pending' = {q} /\ q.ch = c /\ q.conn = transport_id' /\ q.offset = m.offset
      BY <1>2, <1>3, <1>6, <1>7, <1>11
    <3> HIDE DEF q
    <3>2. c \in registered'
      BY <1>1, <1>11
    <3> QED
      BY <3>1, <3>2, CommittedOne
  <2>9. Reached(log[c], base[c], Committed(c)) /\ Flow(messages, 0, c, Committed(c), {}, top[c], held)
    BY <1>5, <2>7 DEF Channel, ValidPlace, Follows
  <2>10. Committed(c) < m.offset
    BY <1>5, <2>2, <2>9 DEF Flow
  <2>11. Flow(messages', 0, c, m.offset, {}, top[c], held)
    <3>1. Committed(c) <= m.offset /\ (IsPub(messages[1], c) => messages[1].offset <= m.offset)
      BY <1>3, <1>5, <2>7, <2>10
    <3>2. \A i \in 2..Len(messages) : IsPub(messages[i], c) => m.offset < messages[i].offset
      BY <2>5
    <3>3. {} \in SUBSET Nat /\ \A x \in {} : m.offset < x
      OBVIOUS
    <3>4. Flow(messages, 1, c, m.offset, {}, top[c], held)
      BY <1>3, <1>5, <2>2, <2>7, <2>9, <3>1, <3>2, <3>3, FlowFirst
    <3>5. Flow(messages, 0 + 1, c, m.offset, {}, top[c], held)
      BY <3>4
    <3> QED
      BY <1>3, <1>5, <3>5, FlowTail
  <2>12. Reached(log'[c], base[c], Committed(c))
    BY <1>3, <2>1, <2>9, ReachedMore
  <2>13. ASSUME NEW y \in (base[c] + 1)..m.offset PROVE \E k \in 1..Len(log'[c]) : log'[c][k] = y
    <3>1. CASE y <= Committed(c)
      <4>1. y \in (base[c] + 1)..Committed(c)
        BY <2>1, <2>7, <3>1
      <4> QED
        BY <2>12, <4>1 DEF Reached
    <3>2. CASE ~(y <= Committed(c))
      <4>1. y \in (Committed(c) + 1)..m.offset
        BY <2>1, <2>7, <3>2
      <4>2. Steady(messages, 0, 1, c)
        <5>1. \A k \in 1..1 : k = 1
          OBVIOUS
        <5> QED
          BY <2>2, <5>1 DEF Steady
      <4>3. Has(messages, 0, 1, c, y)
        BY <1>5, <2>2, <2>9, <4>1, <4>2 DEF Flow
      <4>4. y = m.offset
        <5>1. \A k \in 1..1 : k = 1
          OBVIOUS
        <5> QED
          BY <1>5, <4>3, <5>1 DEF Has
      <4> QED
        BY <2>4, <4>4
    <3> QED
      BY <3>1, <3>2
  <2>14. Reached(log'[c], base[c], m.offset)
    BY <2>13 DEF Reached
  <2>15. ValidPlace(c)'
    <3>1. /\ Behind(log'[c], Committed(c)') /\ Committed(c)' <= top'[c]
          /\ Reached(log'[c], base'[c], Committed(c)') /\ Reached(log'[c], base'[c], offset'[c])
          /\ Flow(messages', 0, c, Committed(c)', Early(c)', top'[c], held')
      BY <1>1, <1>5, <2>3, <2>4, <2>7, <2>8, <2>11, <2>12, <2>14
    <3> QED
      BY <3>1 DEF ValidPlace, Stated, Follows
  <2>16. Behind(log[c], top[c])'
    BY <1>1, <1>3, <1>5, <2>3, <2>4
  <2>17. LeftPlaces(c)' /\ AskedPlaces(c)' /\ EarlyOrder(c)'
    BY <1>5 DEF LeftPlaces, AskedPlaces, Asked, EarlyOrder
  <2>18. Increasing(log[c])'
    BY <2>4
  <2> QED
    BY <2>6, <2>15, <2>16, <2>17, <2>18 DEF Channel
<1> QED
  BY <1>9, <1>10, <1>11

LEMMA ChannelSubscribed ==
    ASSUME Base, Base', SubscribedByServer, NEW c \in Channels, Channel(c)
    PROVE  Channel(c)'
<1> DEFINE m == Head(messages)
<1>1. /\ Receives("subscribe") /\ Register(m.ch, m.offset) /\ base' = [base EXCEPT ![m.ch] = m.offset]
      /\ UNCHANGED <<linkVars, server_pending, held, top, log>>
  BY DEF SubscribedByServer, serverVars
<1>2. m.ch \in Channels /\ m.offset \in Nat /\ conn \in Nat \ {0} /\ server_pending' = {}
  BY <1>1, ReceiveFacts, MessageFacts
<1>3. Live' = {PushTask("subscribed", m.ch, 0)}
  BY BaseSubscribed
<1>4. PushTask("subscribed", m.ch, 0).left = {} /\ PushTask("subscribed", m.ch, 0).pubs = {}
  BY <1>2, PushFacts
<1>5. /\ Left(c) = {} /\ Early(c) = {} /\ Left(c)' = {} /\ Early(c)' = {} /\ asked' = {}
      /\ messages \in Seq(Message) /\ messages # <<>> /\ messages' = Tail(messages) /\ top[c] \in Nat
      /\ messages[1] = m /\ m.op = "subscribe" /\ 1 \in 1..Len(messages) /\ Committed(c) = offset[c]
  BY <1>1, <1>3, <1>4, AfterMessage
<1>6. Committed(c)' = offset'[c]
  BY <1>2, CommittedNone
<1> HIDE DEF m
<1>7. CASE m.ch # c
  <2>1. ~Of(messages[1], c)
    BY <1>5, <1>7 DEF Of, IsPub, IsTurn
  <2>2. base'[c] = base[c] /\ (c \in valid' => c \in valid /\ offset'[c] = offset[c])
    BY <1>1, <1>2, <1>7 DEF Register, Base, Types, AppTypes, RegistryTypes
  <2> QED
    BY <1>1, <1>5, <1>6, <2>1, <2>2, Untouched DEF Otherwise
<1>8. CASE m.ch = c
  <2>1. offset'[c] = m.offset /\ base'[c] = m.offset
    BY <1>1, <1>2, <1>8 DEF Register, Base, Types, AppTypes, RegistryTypes
  <2>2. StartOrder(c, 1) /\ IsStart(messages[1], c)
    BY <1>5, <1>8 DEF Channel, OnTheWire, IsStart
  <2>3. /\ m.offset <= top[c] /\ Behind(log[c], m.offset)
        /\ Flow(messages, 0 + 1, c, m.offset, {}, top[c], held)
    BY <1>5, <2>2 DEF StartOrder
  <2>4. Flow(messages', 0, c, m.offset, {}, top[c], held)
    BY <1>2, <1>5, <2>3, FlowTail
  <2>5. Reached(log'[c], base'[c], m.offset)
    <3>1. ~ \E x \in (m.offset + 1)..m.offset : TRUE
      BY <1>2
    <3> QED
      BY <2>1, <3>1 DEF Reached
  <2>6. ValidPlace(c)'
    <3>1. /\ Behind(log'[c], Committed(c)') /\ Committed(c)' <= top'[c]
          /\ Reached(log'[c], base'[c], Committed(c)') /\ Reached(log'[c], base'[c], offset'[c])
          /\ Flow(messages', 0, c, Committed(c)', Early(c)', top'[c], held')
      BY <1>1, <1>5, <1>6, <2>1, <2>3, <2>4, <2>5
    <3> QED
      BY <3>1 DEF ValidPlace, Stated, Follows
  <2>7. OnTheWire(c)'
    <3>1. \A i \in 2..Len(messages) : i \in 1..Len(messages)
      BY <1>5, FlowTypes
    <3>2. \A i \in 2..Len(messages) : /\ IsPub(messages[i], c) => Before(log'[c], messages[i].offset)
                                      /\ IsStart(messages[i], c) => Behind(log'[c], messages[i].offset)
      BY <1>1, <3>1 DEF Channel, OnTheWire, PubOrder, StartOrder
    <3> QED
      BY <1>1, <1>5, <3>2, WireTail DEF Channel
  <2>8. LeftPlaces(c)' /\ AskedPlaces(c)' /\ EarlyOrder(c)' /\ Increasing(log[c])' /\ Behind(log[c], top[c])'
    BY <1>1, <1>5 DEF Channel, LeftPlaces, AskedPlaces, Asked, EarlyOrder
  <2> QED
    BY <2>6, <2>7, <2>8 DEF Channel
<1> QED
  BY <1>7, <1>8

LEMMA ChannelUnsubscribed ==
    ASSUME Base, Base', UnsubscribedByServer, NEW c \in Channels, Channel(c)
    PROVE  Channel(c)'
<1> DEFINE m == Head(messages)
<1>1. /\ Receives("unsubscribe") /\ valid' = valid \ {m.ch} /\ offset' = [offset EXCEPT ![m.ch] = 0]
      /\ UNCHANGED <<linkVars, server_pending, held, top, log, base>>
  BY DEF UnsubscribedByServer, serverVars
<1>2. m.ch \in Channels /\ server_pending' = {}
  BY <1>1, ReceiveFacts, MessageFacts
<1>3. Live' = {}
  BY BaseUnsubscribed
<1>4. /\ Left(c) = {} /\ Early(c) = {} /\ Left(c)' = {} /\ Early(c)' = {} /\ asked' = {}
      /\ messages \in Seq(Message) /\ messages # <<>> /\ messages' = Tail(messages) /\ top[c] \in Nat
      /\ messages[1] = m /\ m.op = "unsubscribe" /\ Committed(c) = offset[c]
  BY <1>1, <1>3, AfterMessage
<1> HIDE DEF m
<1>5. CASE m.ch # c
  <2>1. ~Of(messages[1], c)
    BY <1>4, <1>5 DEF Of, IsPub, IsTurn
  <2>2. offset'[c] = offset[c]
    BY <1>1, <1>5 DEF Base, Types, RegistryTypes
  <2>3. Committed(c)' = offset'[c]
    BY <1>2, CommittedNone
  <2> QED
    BY <1>1, <1>4, <2>1, <2>2, <2>3, Untouched DEF Otherwise
<1>6. CASE m.ch = c
  BY <1>1, <1>4, <1>6, ChannelNotValid
<1> QED
  BY <1>5, <1>6

\* Steps about client-side subscriptions.
LEMMA ChannelElsewhere ==
    ASSUME Base, NEW c \in Channels, Channel(c), Otherwise(c),
           UNCHANGED <<linkVars, registryVars, tasks, held, top, log, base>>
    PROVE  Channel(c)'
<1>1. UNCHANGED <<transport_id, asked, registered, offset, valid, server_pending, held, top, log, base, tasks>>
  BY DEF linkVars, registryVars
<1>2. Live' = Live
  BY <1>1 DEF Live
<1>3. Left(c)' = Left(c) /\ Early(c)' = Early(c)
  BY <1>2 DEF Left, Early
<1>4. Committed(c)' = Committed(c)
  BY <1>1, CommittedSame
<1> QED
  BY <1>1, <1>3, <1>4, Untouched

LEMMA ChannelClientArrival ==
    ASSUME Base, SubscribeReply \/ JoinArrives \/ SubscribesAgain, NEW c \in Channels, Channel(c)
    PROVE  Channel(c)'
<1>1. UNCHANGED <<linkVars, registryVars, tasks, commands, serverVars, appVars, events, calls, faults>>
  BY ClientArrivalTypes
<1>2. PICK op \in {"subscribed", "join", "again"} : Receives(op)
  BY ClientArrivalTypes
<1>3. messages # <<>> /\ messages' = Tail(messages) /\ messages[1].op \in {"subscribed", "join", "again"}
  BY <1>2, ReceiveFacts
<1>4. Otherwise(c)
  BY <1>3 DEF Otherwise, Of, IsPub, IsTurn
<1> QED
  BY <1>1, <1>4, ChannelElsewhere DEF serverVars, appVars

LEMMA ChannelReceives ==
    ASSUME Base, ServerReceives, NEW c \in Channels, Channel(c)
    PROVE  Channel(c)'
<1> DEFINE k == Head(commands)
<1>1. /\ k \in Command
      /\ UNCHANGED <<linkVars, registryVars, tasks, subVars, held, top, appVars, events, calls, faults>>
  BY ReceivedFacts
<1>2. Otherwise(c)
  <2>1. CASE k.op = "unsubscribe"
    BY <2>1 DEF ServerReceives, Otherwise
  <2>2. CASE k.op # "unsubscribe"
    <3>1. PICK id \in Ids : messages' = Append(messages, Answer(k, id))
      BY <2>2 DEF ServerReceives, Answer
    <3>2. Answer(k, id) \in Message /\ Answer(k, id).op = "subscribed"
      BY <1>1, AnswerFacts
    <3> QED
      BY <3>1, <3>2 DEF Otherwise, Of, IsPub, IsTurn
  <2> QED
    BY <2>1, <2>2
<1> QED
  BY <1>1, <1>2, ChannelElsewhere DEF appVars

-----------------------------------------------------------------------------
(* Channel is inductive: the server *)

\* One more message of the server, or the end of a stream that moves on.
LEMMA ChannelServer ==
    ASSUME Base, Server, NEW c \in Channels, Channel(c), top'[c] \in Nat, top[c] <= top'[c],
           \A b \in Nat : b <= top[c] /\ Follows(c, b) => Flow(messages', 0, c, b, Early(c), top'[c], held'),
           OnTheWire(c)'
    PROVE  Channel(c)'
<1>1. UNCHANGED <<transport_id, asked, registered, offset, valid, server_pending, tasks, log, base>>
  BY ServerCases DEF linkVars, registryVars, appVars
<1>2. Live' = Live
  BY <1>1 DEF Live
<1>3. Left(c)' = Left(c) /\ Early(c)' = Early(c)
  BY <1>2 DEF Left, Early
<1>4. Committed(c)' = Committed(c)
  BY <1>1, CommittedSame
<1>5. AskedPlaces(c)'
  <2>1. \A a \in Asked(c) : a.offset \in Nat
    BY DEF Asked, Base, Types, LinkTypes, Publication
  <2>2. top[c] \in Nat /\ \A a \in Asked(c) : Stated(c, a.offset) /\ Reached(log[c], base[c], a.offset)
    BY EarlyTypes DEF Channel, AskedPlaces
  <2>3. \A a \in Asked(c) : a.offset <= top'[c]
    BY <2>1, <2>2 DEF Stated
  <2> QED
    BY <1>1, <2>2, <2>3 DEF AskedPlaces, Asked, Stated
<1> QED
  BY <1>1, <1>3, <1>4, <1>5, Carried

LEMMA ChannelPublishes ==
    ASSUME Base, Server, NEW d \in Channels, Publishes(d), NEW c \in Channels, Channel(c)
    PROVE  Channel(c)'
<1>1. /\ messages \in Seq(Message) /\ Early(c) \in SUBSET Nat /\ top[c] \in Nat /\ ServerTypes
      /\ Len(messages) \in Nat /\ \A k \in 1..Len(log[c]) : log[c][k] \in Nat
  BY EarlyTypes, FlowTypes, LogTypes DEF Base, Types
<1>2. /\ UNCHANGED <<linkVars, registryVars, tasks, log, base>>
      /\ top' = [top EXCEPT ![d] = @ + 1] /\ held' = held
      /\ d \in held => messages' = Append(messages, PublicationOf(d))
      /\ d \notin held => messages' = messages
  BY ServerCases DEF Publishes, appVars
<1>3. /\ PublicationOf(d) \in Message /\ PublicationOf(d).op = "publication" /\ PublicationOf(d).ch = d
      /\ PublicationOf(d).offset = top[d] + 1
  BY <1>1, ServerMessages
<1>4. CASE c # d
  <2>1. Otherwise(c) /\ top'[c] = top[c]
    BY <1>1, <1>2, <1>3, <1>4 DEF Otherwise, Of, IsPub, IsTurn, ServerTypes
  <2>2. UNCHANGED <<asked, transport_id, registered, offset, valid, server_pending, tasks>>
    BY <1>2 DEF linkVars, registryVars
  <2>3. Live' = Live
    BY <2>2 DEF Live
  <2>4. Left(c)' = Left(c) /\ Early(c)' = Early(c)
    BY <2>3 DEF Left, Early
  <2>5. Committed(c)' = Committed(c)
    BY <2>2, CommittedSame
  <2> QED
    BY <1>2, <2>1, <2>2, <2>4, <2>5, Untouched
<1>5. CASE c = d
  <2> DEFINE m == PublicationOf(c)
  <2>1. top'[c] = top[c] + 1 /\ top'[c] \in Nat /\ top[c] <= top'[c]
    BY <1>1, <1>2, <1>5 DEF ServerTypes
  <2>2. Early(c)' = Early(c)
    BY <1>2 DEF Early, Live, linkVars
  <2>3. CASE c \in held
    <3>1. messages' = Append(messages, m) /\ m \in Message /\ IsPub(m, c) /\ m.offset = top[c] + 1
          /\ ~IsStart(m, c)
      BY <1>2, <1>3, <1>5, <2>3 DEF IsPub, IsStart
    <3> HIDE DEF m
    <3>2. ASSUME NEW n \in Nat, n <= Len(messages), NEW b \in Nat, b <= top[c], NEW S \in SUBSET Nat,
                 Flow(messages, n, c, b, S, top[c], held)
          PROVE  Flow(messages', n, c, b, S, top'[c], held')
      BY <1>1, <1>2, <2>1, <2>3, <3>1, <3>2, FlowAppendPub
    <3>3. \A b \in Nat : b <= top[c] /\ Follows(c, b) => Flow(messages', 0, c, b, Early(c), top'[c], held')
      BY <1>1, <3>2 DEF Follows
    <3>4. PICK n : n = Len(messages) + 1
      OBVIOUS
    <3>5. messages'[n] = m /\ \A j \in 1..(n - 1) : messages'[j] = messages[j] /\ j \in 1..Len(messages)
      BY <1>1, <3>1, <3>4, AppendFacts
    <3>6. PubOrder(c, n)'
      <4>1. Before(log'[c], m.offset)
        BY <1>1, <1>2, <3>1 DEF Channel, Behind, Before
      <4>2. \A x \in Early(c) : x < m.offset
        BY <1>1, <3>1 DEF Channel, EarlyOrder
      <4>3. \A j \in 1..Len(messages) : IsPub(messages[j], c) => messages[j].offset < m.offset
        <5>1. SUFFICES ASSUME NEW j \in 1..Len(messages), IsPub(messages[j], c)
                       PROVE  messages[j].offset < m.offset
          OBVIOUS
        <5>2. messages[j].offset \in Nat
          BY <1>1, <5>1, FlowTypes
        <5>3. messages[j].offset <= top[c]
          BY <5>1 DEF Channel, OnTheWire, PubOrder
        <5> QED
          BY <1>1, <3>1, <5>2, <5>3
      <4>4. m.offset <= top'[c]
        BY <1>1, <2>1, <3>1
      <4> QED
        BY <2>2, <3>5, <4>1, <4>2, <4>3, <4>4 DEF PubOrder
    <3>7. StartOrder(c, n)'
      BY <3>1, <3>5 DEF StartOrder
    <3>8. ASSUME NEW i \in 1..Len(messages), IsStart(messages[i], c)
          PROVE  Flow(messages', i, c, messages[i].offset, {}, top'[c], held')
      <4>0. messages[i].offset \in Nat
        BY <1>1, <3>8, FlowTypes DEF IsStart, IsTurn
      <4>1. messages[i].offset \in Nat /\ i \in Nat /\ i <= Len(messages)
        BY <1>1, <4>0
      <4>2. messages[i].offset <= top[c] /\ Flow(messages, i, c, messages[i].offset, {}, top[c], held)
        BY <3>8 DEF Channel, OnTheWire, StartOrder
      <4> QED
        BY <3>2, <4>1, <4>2
    <3>9. OnTheWire(c)'
      BY <1>2, <2>1, <2>2, <3>1, <3>4, <3>6, <3>7, <3>8, WireAppend DEF Channel
    <3> QED
      BY <2>1, <3>3, <3>9, ChannelServer
  <2>4. CASE c \notin held
    <3>1. messages' = messages
      BY <1>2, <1>5, <2>4
    <3>2. ASSUME NEW b \in Nat, Follows(c, b) PROVE Flow(messages', 0, c, b, Early(c), top'[c], held')
      BY <1>2, <2>4, <3>1, <3>2, FlowSent DEF Follows
    <3>3. \A i \in 1..Len(messages) : /\ IsPub(messages[i], c) => Before(log'[c], messages[i].offset)
                                      /\ IsStart(messages[i], c) => Behind(log'[c], messages[i].offset)
      BY <1>2 DEF Channel, OnTheWire, PubOrder, StartOrder
    <3>4. OnTheWire(c)'
      BY <1>2, <2>1, <2>2, <2>4, <3>1, <3>3, WireKeep DEF Channel
    <3> QED
      BY <2>1, <3>2, <3>4, ChannelServer
  <2> QED
    BY <2>3, <2>4
<1> QED
  BY <1>4, <1>5

LEMMA ChannelTurns ==
    ASSUME Base, Server, NEW d \in Channels, Adds(d) \/ Ends(d), NEW c \in Channels, Channel(c)
    PROVE  Channel(c)'
<1>1. /\ messages \in Seq(Message) /\ Early(c) \in SUBSET Nat /\ top[c] \in Nat /\ ServerTypes
      /\ Len(messages) \in Nat
  BY EarlyTypes, FlowTypes DEF Base, Types
<1>2. /\ UNCHANGED <<linkVars, registryVars, tasks, log, base>> /\ top' = top
      /\ held' \in {held \cup {d}, held \ {d}}
  BY ServerCases DEF Adds, Ends, appVars
<1>3. PICK m \in {StartOf(d), EndOf(d)} : messages' = Append(messages, m)
  BY DEF Adds, Ends
<1>4. /\ m \in Message /\ m.op \in {"subscribe", "unsubscribe"} /\ m.ch = d
      /\ m.op = "subscribe" => m.offset = top[d]
  BY <1>1, <1>3, ServerMessages
<1>5. CASE c # d
  <2>1. Otherwise(c) /\ (c \in held' => c \in held)
    BY <1>2, <1>3, <1>4, <1>5 DEF Otherwise, Of, IsPub, IsTurn
  <2>2. UNCHANGED <<asked, transport_id, registered, offset, valid, server_pending, tasks>>
    BY <1>2 DEF linkVars, registryVars
  <2>3. Live' = Live
    BY <2>2 DEF Live
  <2>4. Left(c)' = Left(c) /\ Early(c)' = Early(c)
    BY <2>3 DEF Left, Early
  <2>5. Committed(c)' = Committed(c)
    BY <2>2, CommittedSame
  <2> QED
    BY <1>2, <2>1, <2>2, <2>4, <2>5, Untouched
<1>6. CASE c = d
  <2>1. IsTurn(m, c) /\ ~IsPub(m, c) /\ top'[c] = top[c]
    BY <1>2, <1>4, <1>6 DEF IsTurn, IsPub
  <2>2. Early(c)' = Early(c)
    BY <1>2 DEF Early, Live, linkVars
  <2>3. ASSUME NEW n \in Nat, n <= Len(messages), NEW b \in Nat, NEW S \in SUBSET Nat,
               Flow(messages, n, c, b, S, top[c], held)
        PROVE  Flow(messages', n, c, b, S, top[c], held')
    BY <1>1, <1>3, <1>4, <2>1, <2>3, FlowAppendTurn
  <2>4. \A b \in Nat : b <= top[c] /\ Follows(c, b) => Flow(messages', 0, c, b, Early(c), top'[c], held')
    BY <1>1, <2>1, <2>3 DEF Follows
  <2>5. PICK n : n = Len(messages) + 1
    OBVIOUS
  <2>6. /\ messages'[n] = m /\ messages' \in Seq(Message) /\ Len(messages') = n
        /\ \A j \in 1..(n - 1) : messages'[j] = messages[j] /\ j \in 1..Len(messages)
    BY <1>1, <1>3, <1>4, <2>5, AppendFacts
  <2>7. PubOrder(c, n)'
    BY <2>1, <2>6 DEF PubOrder
  <2>8. StartOrder(c, n)'
    <3>1. SUFFICES ASSUME IsStart(m, c)
                   PROVE  /\ m.offset <= top'[c] /\ Behind(log'[c], m.offset)
                          /\ \A x \in Early(c)' : x <= m.offset
                          /\ \A j \in 1..(n - 1) : IsPub(messages'[j], c) => messages'[j].offset <= m.offset
                          /\ Flow(messages', n, c, m.offset, {}, top'[c], held')
      BY <2>6 DEF StartOrder
    <3>2. m.offset = top[c]
      BY <1>4, <1>6, <3>1 DEF IsStart
    <3>3. Behind(log'[c], m.offset)
      BY <1>2, <3>2 DEF Channel
    <3>4. \A x \in Early(c)' : x <= m.offset
      BY <2>2, <3>2 DEF Channel, EarlyOrder
    <3>5. \A j \in 1..(n - 1) : IsPub(messages'[j], c) => messages'[j].offset <= m.offset
      BY <2>6, <3>2 DEF Channel, OnTheWire, PubOrder
    <3>6. Flow(messages', n, c, m.offset, {}, top[c], held')
      <4>1. n \in Nat /\ n >= Len(messages') /\ top[c] <= top[c]
        BY <1>1, <2>5, <2>6
      <4> QED
        BY <1>1, <2>6, <3>2, <4>1, FlowEmpty
    <3> QED
      BY <1>1, <2>1, <3>2, <3>3, <3>4, <3>5, <3>6
  <2>9. ASSUME NEW i \in 1..Len(messages), IsStart(messages[i], c)
        PROVE  Flow(messages', i, c, messages[i].offset, {}, top'[c], held')
    <3>0. messages[i].offset \in Nat
      BY <1>1, <2>9, FlowTypes DEF IsStart, IsTurn
    <3>1. messages[i].offset \in Nat /\ i \in Nat /\ i <= Len(messages)
      BY <1>1, <3>0
    <3>2. Flow(messages, i, c, messages[i].offset, {}, top[c], held)
      BY <2>9 DEF Channel, OnTheWire, StartOrder
    <3> QED
      BY <2>1, <2>3, <3>1, <3>2
  <2>10. top'[c] \in Nat /\ top[c] <= top'[c]
    BY <1>1, <2>1
  <2>11. OnTheWire(c)'
    BY <1>2, <1>3, <1>4, <2>2, <2>5, <2>7, <2>8, <2>9, <2>10, WireAppend DEF Channel
  <2> QED
    BY <2>4, <2>10, <2>11, ChannelServer
<1> QED
  BY <1>5, <1>6

LEMMA ChannelServerStep ==
    ASSUME Base, Server, NEW c \in Channels, Channel(c)
    PROVE  Channel(c)'
<1>1. ASSUME NEW x \in Subs, Pushes(x) \/ Revokes(x) PROVE Channel(c)'
  <2>1. PICK m \in {JoinOf(x), AgainOf(x)} : messages' = Append(messages, m)
    BY <1>1 DEF Pushes, Revokes
  <2>2. m \in Message /\ m.op \in {"join", "again"}
    BY ServerMessages DEF Base, Types
  <2>3. Otherwise(c)
    BY <2>1, <2>2 DEF Otherwise, Of, IsPub, IsTurn
  <2>4. UNCHANGED <<linkVars, registryVars, tasks, held, top, log, base>>
    BY <1>1, ServerCases DEF Pushes, Revokes, appVars
  <2> QED
    BY <2>3, <2>4, ChannelElsewhere
<1> QED
  BY <1>1, ServerCases, ChannelPublishes, ChannelTurns

-----------------------------------------------------------------------------
(* Nothing is given twice, out of order, or skipped *)

LEMMA ChannelsInit == Init => AllChannels
<1> SUFFICES ASSUME Init, NEW c \in Channels PROVE Channel(c)
  BY DEF AllChannels
<1>1. log[c] = <<>> /\ top[c] = 0 /\ messages = <<>> /\ valid = {} /\ asked = {} /\ tasks = {}
  BY DEF Init
<1>2. Len(<<>>) = 0 /\ ~ \E i \in 1..0 : TRUE
  OBVIOUS
<1>3. Left(c) = {} /\ Early(c) = {}
  BY <1>1 DEF Left, Early, Live
<1>4. Increasing(log[c]) /\ Behind(log[c], top[c]) /\ OnTheWire(c)
  BY <1>1, <1>2 DEF Increasing, Behind, OnTheWire
<1> QED
  BY <1>1, <1>3, <1>4 DEF Channel, AskedPlaces, Asked, ValidPlace, LeftPlaces, EarlyOrder

LEMMA ChannelStep ==
    ASSUME Base, Base', Next, NEW c \in Channels, Channel(c)
    PROVE  Channel(c)'
<1>1. CASE Connect
  BY <1>1, ChannelConnect
<1>2. CASE LoseConnection \/ Invalidated
  BY <1>2, ChannelClose
<1>3. CASE ConnectReply
  BY <1>3, ChannelReply
<1>4. CASE HandlerReturns
  BY <1>4, ChannelHandler
<1>5. CASE Arrives
  BY <1>5, ChannelPublished, ChannelSubscribed, ChannelUnsubscribed, ChannelClientArrival DEF Arrives
<1>6. CASE AppCalls
  <2>1. Otherwise(c) /\ UNCHANGED <<linkVars, registryVars, tasks, held, top, log, base>>
    BY <1>6 DEF AppCalls, Otherwise, serverVars, appVars
  <2> QED
    BY <2>1, ChannelElsewhere
<1>7. CASE SendSubscribe
  <2>1. Otherwise(c) /\ UNCHANGED <<linkVars, registryVars, tasks, held, top, log, base>>
    BY <1>7 DEF SendSubscribe, Otherwise, serverVars, appVars
  <2> QED
    BY <2>1, ChannelElsewhere
<1>8. CASE ServerReceives
  BY <1>8, ChannelReceives
<1>9. CASE Server
  BY <1>9, ChannelServerStep
<1> QED
  BY <1>1, <1>2, <1>3, <1>4, <1>5, <1>6, <1>7, <1>8, <1>9 DEF Next

LEMMA ChannelsNext == Base /\ AllChannels /\ [Next]_vars => Base' /\ AllChannels'
<1>1. ASSUME Base, AllChannels, Next PROVE Base' /\ AllChannels'
  <2>1. Base'
    BY <1>1, BaseStep
  <2>2. ASSUME NEW c \in Channels PROVE Channel(c)'
    BY <1>1, <2>1, ChannelStep DEF AllChannels
  <2> QED
    BY <2>1, <2>2 DEF AllChannels
<1>2. ASSUME Base, AllChannels, UNCHANGED vars PROVE Base' /\ AllChannels'
  <2>1. Base'
    BY <1>2, BaseStuttering
  <2>2. ASSUME NEW c \in Channels PROVE Channel(c)'
    <3>1. Otherwise(c) /\ UNCHANGED <<linkVars, registryVars, tasks, held, top, log, base>>
      BY <1>2 DEF vars, Otherwise, serverVars, appVars
    <3> QED
      BY <1>2, <3>1, ChannelElsewhere DEF AllChannels
  <2> QED
    BY <2>1, <2>2 DEF AllChannels
<1> QED
  BY <1>1, <1>2

\* Nothing is given twice or out of order, over all the connections of a client: a
\* publication whose handler ran when the connection was lost counts as delivered, one
\* that comes with a connect reply comes before what follows on the wire
\* (_disconnect(), _process_server_publication(), _process_server_subs()).
THEOREM ServerAlwaysInOrder == Spec => []ServerInOrderOnce
<1>1. AllChannels => ServerInOrderOnce
  BY DEF AllChannels, Channel, Increasing, ServerInOrderOnce
<1> QED
  BY <1>1, BaseInit, ChannelsInit, ChannelsNext, PTL DEF Spec

\* Nothing is skipped: every publication from where the application was told to start up
\* to the position the next connect command asks for was given to it, whatever was lost,
\* invalidated or ended in between (_construct_connect_command(), _process_server_subs()).
THEOREM ServerPositionAlwaysReached == Spec => []ServerPositionReached
<1>1. Base /\ AllChannels => ServerPositionReached
  <2> SUFFICES ASSUME Base, AllChannels, NEW c \in valid PROVE Reached(log[c], base[c], offset[c])
    BY DEF ServerPositionReached, Reached
  <2>1. c \in Channels
    BY DEF Base, Types, RegistryTypes
  <2> QED
    BY <2>1 DEF AllChannels, Channel, ValidPlace
<1> QED
  BY <1>1, BaseInit, ChannelsInit, ChannelsNext, PTL DEF Spec

-----------------------------------------------------------------------------
(* The parts of the invariant: the registry *)

IsEnd(m, c) == m.op = "unsubscribe" /\ m.ch = c
EndsAfter(ms, n, c) == \E k \in (n + 1)..Len(ms) : IsEnd(ms[k], c)

\* A channel that the connection does not have any more is dropped by an unsubscribe push
\* on its way, or by the connect reply that is being applied.
KeptRegistered(c) ==
    connected /\ c \in registered \ held =>
        \/ EndsAfter(messages, 0, c)
        \/ \E t \in Live : t.kind = "reply" /\ c \notin t.reply
KeptReply(c) == \A t \in Live : t.kind = "reply" /\ c \in t.reply \ held => EndsAfter(messages, 0, c)
KeptStarts(c) ==
    \A j \in 1..Len(messages) : IsStart(messages[j], c) /\ c \notin held => EndsAfter(messages, j, c)
Kept(c) == KeptRegistered(c) /\ KeptReply(c) /\ KeptStarts(c)
AllKept == \A c \in Channels : Kept(c)

LEMMA EndsTail ==
    ASSUME NEW ms \in Seq(Message), ms # <<>>, NEW n \in Nat, NEW c, EndsAfter(ms, n + 1, c)
    PROVE  EndsAfter(Tail(ms), n, c)
<1>1. PICK k \in (n + 2)..Len(ms) : IsEnd(ms[k], c)
  BY DEF EndsAfter
<1>2. Len(Tail(ms)) \in Nat /\ Len(ms) = Len(Tail(ms)) + 1
  BY TailFacts
<1>3. k - 1 \in (n + 1)..Len(Tail(ms)) /\ k - 1 \in 1..Len(Tail(ms)) /\ (k - 1) + 1 = k
  BY <1>2
<1>4. Tail(ms)[k - 1] = ms[k]
  BY <1>3, TailFacts
<1> QED
  BY <1>1, <1>3, <1>4 DEF EndsAfter

LEMMA EndsFirst ==
    ASSUME NEW ms \in Seq(Message), ms # <<>>, NEW c, EndsAfter(ms, 0, c), ~IsEnd(ms[1], c)
    PROVE  EndsAfter(Tail(ms), 0, c)
<1>1. PICK k \in 1..Len(ms) : IsEnd(ms[k], c)
  BY DEF EndsAfter
<1>2. k # 1
  BY <1>1
<1>3. k \in 2..Len(ms)
  BY <1>2
<1>4. EndsAfter(ms, 0 + 1, c)
  BY <1>1, <1>3 DEF EndsAfter
<1> QED
  BY <1>4, EndsTail

LEMMA EndsAppend ==
    ASSUME NEW ms \in Seq(Message), NEW m \in Message, NEW n \in Nat, NEW c
    PROVE  /\ EndsAfter(ms, n, c) => EndsAfter(Append(ms, m), n, c)
           /\ IsEnd(m, c) /\ n <= Len(ms) => EndsAfter(Append(ms, m), n, c)
<1>1. /\ Len(ms) \in Nat /\ Len(Append(ms, m)) = Len(ms) + 1 /\ Append(ms, m)[Len(ms) + 1] = m
      /\ \A k \in 1..Len(ms) : Append(ms, m)[k] = ms[k]
  BY AppendFacts
<1>2. ASSUME EndsAfter(ms, n, c) PROVE EndsAfter(Append(ms, m), n, c)
  <2>1. PICK k \in (n + 1)..Len(ms) : IsEnd(ms[k], c)
    BY <1>2 DEF EndsAfter
  <2>2. k \in 1..Len(ms) /\ k \in (n + 1)..(Len(ms) + 1)
    BY <1>1
  <2>3. Append(ms, m)[k] = ms[k]
    BY <1>1, <2>2
  <2> QED
    BY <1>1, <2>1, <2>2, <2>3 DEF EndsAfter
<1>3. ASSUME IsEnd(m, c), n <= Len(ms) PROVE EndsAfter(Append(ms, m), n, c)
  <2>1. Len(ms) + 1 \in (n + 1)..Len(Append(ms, m))
    BY <1>1, <1>3
  <2> QED
    BY <1>1, <1>3, <2>1 DEF EndsAfter
<1> QED
  BY <1>2, <1>3

\* What is on the wire after the first message, or with one more.
LEMMA StartsTail ==
    ASSUME messages \in Seq(Message), messages # <<>>, messages' = Tail(messages), NEW c, KeptStarts(c),
           held' = held
    PROVE  KeptStarts(c)'
<1> SUFFICES ASSUME NEW j \in 1..Len(messages'), IsStart(messages'[j], c), c \notin held
             PROVE  EndsAfter(messages', j, c)
  BY DEF KeptStarts
<1>1. j \in Nat /\ j + 1 \in 1..Len(messages) /\ messages'[j] = messages[j + 1]
  BY TailFacts
<1>2. EndsAfter(messages, j + 1, c)
  BY <1>1 DEF KeptStarts
<1> QED
  BY <1>1, <1>2, EndsTail

LEMMA StartsAppend ==
    ASSUME messages \in Seq(Message), NEW m \in Message, messages' = Append(messages, m), NEW c, KeptStarts(c),
           IsStart(m, c) => c \in held', c \in held => c \in held' \/ IsEnd(m, c)
    PROVE  KeptStarts(c)'
<1> SUFFICES ASSUME NEW j \in 1..Len(messages'), IsStart(messages'[j], c), c \notin held'
             PROVE  EndsAfter(messages', j, c)
  BY DEF KeptStarts
<1>1. /\ Len(messages) \in Nat /\ messages'[Len(messages) + 1] = m
      /\ \A k \in 1..Len(messages) : messages'[k] = messages[k]
      /\ j \in 1..Len(messages) \/ j = Len(messages) + 1
  BY AppendFacts
<1>2. j \in 1..Len(messages) /\ messages'[j] = messages[j]
  BY <1>1
<1>3. j \in Nat /\ j <= Len(messages)
  BY <1>1, <1>2
<1>4. CASE c \in held
  BY <1>3, <1>4, EndsAppend
<1>5. CASE c \notin held
  <2>1. EndsAfter(messages, j, c)
    BY <1>2, <1>5 DEF KeptStarts
  <2> QED
    BY <1>3, <2>1, EndsAppend
<1> QED
  BY <1>4, <1>5

\* Without a connection there is nothing to say.
LEMMA KeptClosed == ASSUME Base', ~connected', NEW c PROVE Kept(c)'
<1>1. messages' = <<>> /\ Live' = {}
  BY DEF Base, Closed
<1>2. ~ \E j \in 1..Len(<<>>) : TRUE
  OBVIOUS
<1> QED
  BY <1>1, <1>2 DEF Kept, KeptRegistered, KeptReply, KeptStarts

\* Nobody is told, and nothing is registered that was not.
LEMMA KeptElsewhere ==
    ASSUME Base, NEW c, Kept(c), connected' = connected, registered' = registered, Live' = Live,
           c \in held => c \in held', EndsAfter(messages, 0, c) => EndsAfter(messages', 0, c), KeptStarts(c)'
    PROVE  Kept(c)'
<1>1. KeptRegistered(c)'
  BY DEF Kept, KeptRegistered
<1>2. KeptReply(c)'
  BY DEF Kept, KeptReply
<1> QED
  BY <1>1, <1>2 DEF Kept

\* A message after which only the handler of a push runs.
LEMMA KeptMessage ==
    ASSUME Base, NEW op, Receives(op), NEW c \in Channels, Kept(c), held' = held,
           \A u \in Live' : u.kind = "push",
           c \in registered' => \/ c \in registered /\ ~IsEnd(messages[1], c)
                                \/ IsStart(messages[1], c)
    PROVE  Kept(c)'
<1>1. /\ messages \in Seq(Message) /\ messages # <<>> /\ messages' = Tail(messages) /\ connected
      /\ Live = {}
  BY ReceiveFacts
<1>2. KeptStarts(c)'
  BY <1>1, StartsTail DEF Kept
<1>3. KeptReply(c)'
  BY DEF KeptReply
<1>4. KeptRegistered(c)'
  <2>1. SUFFICES ASSUME c \in registered' \ held' PROVE EndsAfter(messages', 0, c)
    BY DEF KeptRegistered
  <2>2. CASE c \in registered /\ ~IsEnd(messages[1], c)
    <3>1. EndsAfter(messages, 0, c)
      BY <1>1, <2>1, <2>2 DEF Kept, KeptRegistered
    <3> QED
      BY <1>1, <2>2, <3>1, EndsFirst
  <2>3. CASE IsStart(messages[1], c)
    <3>1. 1 \in 1..Len(messages)
      BY <1>1, TailFacts
    <3>2. EndsAfter(messages, 0 + 1, c)
      BY <2>1, <2>3, <3>1 DEF Kept, KeptStarts
    <3> QED
      BY <1>1, <3>2, EndsTail
  <2> QED
    BY <2>1, <2>2, <2>3
<1> QED
  BY <1>2, <1>3, <1>4 DEF Kept

LEMMA KeptArrives == ASSUME Base, Base', Arrives, NEW c \in Channels, Kept(c) PROVE Kept(c)'
<1>1. CASE PublicationArrives
  <2>1. Receives("publication") /\ registered' = registered /\ held' = held
    BY <1>1 DEF PublicationArrives, serverVars
  <2>2. /\ Head(messages).ch \in Channels /\ Head(messages).offset \in Nat \ {0}
        /\ messages[1].op = "publication" /\ conn \in Nat \ {0}
    BY <1>1, <2>1, PublicationFacts, ReceiveFacts
  <2>3. \A u \in Live' : u.kind = "push"
    BY <1>1, <2>2, BasePublication, PushFacts
  <2>4. ~IsEnd(messages[1], c)
    BY <2>2 DEF IsEnd
  <2> QED
    BY <2>1, <2>3, <2>4, KeptMessage
<1>2. CASE SubscribedByServer
  <2>1. Receives("subscribe") /\ registered' = registered \cup {Head(messages).ch} /\ held' = held
    BY <1>2 DEF SubscribedByServer, Register, serverVars
  <2>2. /\ Head(messages).ch \in Channels /\ messages[1] = Head(messages)
        /\ messages[1].op = "subscribe" /\ conn \in Nat \ {0}
    BY <2>1, ReceiveFacts, MessageFacts
  <2>3. \A u \in Live' : u.kind = "push"
    BY <1>2, <2>2, BaseSubscribed, PushFacts
  <2>4. ~IsEnd(messages[1], c) /\ (Head(messages).ch = c => IsStart(messages[1], c))
    BY <2>2 DEF IsEnd, IsStart
  <2>5. c \in registered' => \/ c \in registered /\ ~IsEnd(messages[1], c)
                             \/ IsStart(messages[1], c)
    BY <2>1, <2>4
  <2> QED
    BY <2>1, <2>3, <2>5, KeptMessage
<1>3. CASE UnsubscribedByServer
  <2>1. Receives("unsubscribe") /\ registered' = registered \ {Head(messages).ch} /\ held' = held
    BY <1>3 DEF UnsubscribedByServer, serverVars
  <2>2. messages[1] = Head(messages)
    BY <2>1, ReceiveFacts
  <2>3. Live' = {}
    BY <1>3, BaseUnsubscribed
  <2>4. c \in registered' => c \in registered /\ ~IsEnd(messages[1], c)
    BY <2>1, <2>2 DEF IsEnd
  <2> QED
    BY <2>1, <2>3, <2>4, KeptMessage
<1>4. CASE SubscribeReply \/ JoinArrives \/ SubscribesAgain
  <2>1. PICK op \in {"subscribed", "join", "again"} : Receives(op)
    BY <1>4, ClientArrivalTypes
  <2>2. registered' = registered /\ held' = held
    BY <1>4, ClientArrivalTypes DEF registryVars, serverVars
  <2>3. Live' = {}
    BY <1>4, BaseClientArrival
  <2>4. ~IsEnd(messages[1], c)
    BY <2>1, ReceiveFacts DEF IsEnd
  <2> QED
    BY <2>1, <2>2, <2>3, <2>4, KeptMessage
<1> QED
  BY <1>1, <1>2, <1>3, <1>4 DEF Arrives

LEMMA KeptConnectReply ==
    ASSUME Base, ConnectReply, NEW c \in Channels PROVE Kept(c)'
<1>1. ~connected /\ UNCHANGED <<transport_id, conn, messages>>
  BY DEF ConnectReply
<1>2. messages' = <<>> /\ Live = {}
  BY <1>1 DEF Base, Closed
<1>3. PICK reply \in SUBSET Channels : \E t \in Task :
          held' = reply /\ tasks' = tasks \cup {t} /\ Replying(t, reply)
  BY ReplyTask
<1>4. PICK t \in Task : held' = reply /\ tasks' = tasks \cup {t} /\ Replying(t, reply)
  BY <1>3
<1>5. t.conn = transport_id /\ t.kind = "reply" /\ t.reply = reply
  BY <1>4 DEF Replying, ConnectReply, Base, Types, LinkTypes
<1>6. Live' = {t}
  BY <1>1, <1>2, <1>4, <1>5 DEF Live
<1>7. ~ \E j \in 1..Len(<<>>) : TRUE
  OBVIOUS
<1> QED
  BY <1>2, <1>4, <1>5, <1>6, <1>7 DEF Kept, KeptRegistered, KeptReply, KeptStarts

LEMMA KeptHandler ==
    ASSUME Base, HandlerReturns, NEW c \in Channels, Kept(c) PROVE Kept(c)'
<1>1. PICK t \in tasks : TellsNext(t) \/ GivesNext(t) \/ DropsTheRest(t) \/ Stops(t)
  BY DEF HandlerReturns
<1>2. UNCHANGED <<transport_id, connected, messages, held>>
  BY DEF HandlerReturns, linkVars, serverVars
<1>3. KeptStarts(c)'
  BY <1>2 DEF Kept, KeptStarts
<1>4. t \in Task
  BY DEF Base, Types, TaskTypes
<1>5. CASE TellsNext(t)
  <2>1. PICK e \in t.left : registered' = registered \cup {e.ch} /\ tasks' = (tasks \ {t}) \cup {Telling(t, e)}
    BY <1>5 DEF TellsNext, Register, Telling
  <2> DEFINE u == Telling(t, e)
  <2>2. u \in Task /\ u.conn = t.conn /\ u.kind = t.kind /\ u.reply = t.reply /\ tasks' = (tasks \ {t}) \cup {u}
    BY <1>4, <2>1, TellingFacts
  <2> HIDE DEF u
  <2>3. t \in Live /\ Live = {t}
    BY <1>5, LiveFacts DEF TellsNext
  <2>4. Live' = {u}
    BY <1>2, <2>2, <2>3, LiveAfter
  <2>5. e.ch \in t.reply /\ t.kind = "reply"
    BY <1>4, <2>1, TaskFacts DEF Base, Shapes, Shape
  <2>6. KeptReply(c)'
    BY <1>2, <2>2, <2>3, <2>4 DEF Kept, KeptReply
  <2>7. KeptRegistered(c)'
    <3>1. SUFFICES ASSUME connected, c \in registered' \ held
                   PROVE  EndsAfter(messages, 0, c) \/ (u.kind = "reply" /\ c \notin u.reply)
      BY <1>2, <2>4 DEF KeptRegistered
    <3>2. CASE c = e.ch
      BY <2>3, <2>5, <3>1, <3>2 DEF Kept, KeptReply
    <3>3. CASE c # e.ch
      BY <2>1, <2>2, <2>3, <3>1, <3>3 DEF Kept, KeptRegistered
    <3> QED
      BY <3>2, <3>3
  <2> QED
    BY <1>3, <2>6, <2>7 DEF Kept
<1>6. CASE GivesNext(t)
  <2>1. PICK p \in t.pubs : tasks' = (tasks \ {t}) \cup {Given(t, p)}
    BY <1>6 DEF GivesNext, Given
  <2> DEFINE u == Given(t, p)
  <2>2. u \in Task /\ u.conn = t.conn /\ u.kind = t.kind /\ u.reply = t.reply /\ tasks' = (tasks \ {t}) \cup {u}
    BY <1>4, <2>1, GivenFacts
  <2> HIDE DEF u
  <2>3. t \in Live /\ Live = {t} /\ registered' = registered
    BY <1>6, LiveFacts DEF GivesNext
  <2>4. Live' = {u}
    BY <1>2, <2>2, <2>3, LiveAfter
  <2>5. KeptReply(c)' /\ KeptRegistered(c)'
    BY <1>2, <2>2, <2>3, <2>4 DEF Kept, KeptReply, KeptRegistered
  <2> QED
    BY <1>3, <2>5 DEF Kept
<1>7. CASE DropsTheRest(t)
  <2>1. /\ t.kind = "reply" /\ tasks' = tasks \ {t} /\ server_pending' = NotPending(t)
        /\ \A d \in registered' : d \in registered /\ d \in t.reply
    BY <1>7 DEF DropsTheRest, NotInReply
  <2>2. (t \in Live => Live' = {}) /\ (t \notin Live => Live' = Live)
    BY <1>2, <2>1, LastHandler
  <2>3. KeptReply(c)'
    BY <1>2, <2>2 DEF Kept, KeptReply
  <2>4. KeptRegistered(c)'
    <3>1. CASE t \in Live
      BY <1>2, <2>1, <3>1 DEF Kept, KeptReply, KeptRegistered
    <3>2. CASE t \notin Live
      BY <1>2, <2>1, <2>2, <3>2 DEF Kept, KeptRegistered
    <3> QED
      BY <3>1, <3>2
  <2> QED
    BY <1>3, <2>3, <2>4 DEF Kept
<1>8. CASE Stops(t)
  <2>1. /\ tasks' = tasks \ {t} /\ server_pending' = NotPending(t) /\ registered' = registered
        /\ t \in Live => t.kind = "push" /\ Live = {t}
    BY <1>8, LiveFacts DEF Stops
  <2>2. (t \in Live => Live' = {}) /\ (t \notin Live => Live' = Live)
    BY <1>2, <2>1, LastHandler
  <2>3. KeptReply(c)'
    BY <1>2, <2>2 DEF Kept, KeptReply
  <2>4. KeptRegistered(c)'
    <3>1. CASE t \in Live
      BY <1>2, <2>1, <3>1 DEF Kept, KeptRegistered
    <3>2. CASE t \notin Live
      BY <1>2, <2>1, <2>2, <3>2 DEF Kept, KeptRegistered
    <3> QED
      BY <3>1, <3>2
  <2> QED
    BY <1>3, <2>3, <2>4 DEF Kept
<1> QED
  BY <1>1, <1>5, <1>6, <1>7, <1>8

LEMMA KeptReceives == ASSUME Base, ServerReceives, NEW c \in Channels, Kept(c) PROVE Kept(c)'
<1> DEFINE k == Head(commands)
<1>1. /\ k \in Command /\ messages \in Seq(Message) /\ Live' = Live /\ held' = held
      /\ connected' = connected /\ registered' = registered
  BY ReceivedFacts, BaseReceives, EarlyTypes DEF linkVars, registryVars
<1>2. CASE k.op = "unsubscribe"
  <2>1. messages' = messages
    BY <1>2 DEF ServerReceives
  <2>2. KeptStarts(c)'
    BY <1>1, <2>1 DEF Kept, KeptStarts
  <2> QED
    BY <1>1, <2>1, <2>2, KeptElsewhere
<1>3. CASE k.op # "unsubscribe"
  <2>1. PICK id \in Ids : messages' = Append(messages, Answer(k, id))
    BY <1>3 DEF ServerReceives, Answer
  <2>2. Answer(k, id) \in Message /\ Answer(k, id).op = "subscribed"
    BY <1>1, AnswerFacts
  <2>3. ~IsStart(Answer(k, id), c)
    BY <2>2 DEF IsStart
  <2>4. KeptStarts(c)'
    BY <1>1, <2>1, <2>2, <2>3, StartsAppend DEF Kept
  <2>5. EndsAfter(messages, 0, c) => EndsAfter(messages', 0, c)
    BY <1>1, <2>1, <2>2, EndsAppend
  <2> QED
    BY <1>1, <2>4, <2>5, KeptElsewhere
<1> QED
  BY <1>2, <1>3

LEMMA KeptServer == ASSUME Base, Server, NEW c \in Channels, Kept(c) PROVE Kept(c)'
<1>1. /\ messages \in Seq(Message) /\ Live' = Live /\ connected' = connected /\ registered' = registered
      /\ ServerTypes
  BY ServerCases, BaseServer, EarlyTypes DEF linkVars, registryVars, Base, Types
<1>2. ASSUME NEW m \in Message, messages' = Append(messages, m), IsStart(m, c) => c \in held',
             c \in held => c \in held'
      PROVE  Kept(c)'
  <2>1. KeptStarts(c)'
    BY <1>1, <1>2, StartsAppend DEF Kept
  <2>2. EndsAfter(messages, 0, c) => EndsAfter(messages', 0, c)
    BY <1>1, <1>2, EndsAppend
  <2> QED
    BY <1>1, <1>2, <2>1, <2>2, KeptElsewhere
<1>3. ASSUME NEW d \in Channels, Publishes(d) PROVE Kept(c)'
  <2>1. held' = held
    BY <1>3 DEF Publishes
  <2>2. CASE d \in held
    <3>1. PublicationOf(d) \in Message /\ ~IsStart(PublicationOf(d), c)
      BY <1>1, ServerMessages DEF IsStart
    <3> QED
      BY <1>2, <1>3, <2>1, <2>2, <3>1 DEF Publishes
  <2>3. CASE d \notin held
    <3>1. messages' = messages
      BY <1>3, <2>3 DEF Publishes
    <3>2. KeptStarts(c)'
      BY <2>1, <3>1 DEF Kept, KeptStarts
    <3> QED
      BY <1>1, <2>1, <3>1, <3>2, KeptElsewhere
  <2> QED
    BY <2>2, <2>3
<1>4. ASSUME NEW d \in Channels, Adds(d) PROVE Kept(c)'
  <2>1. /\ StartOf(d) \in Message /\ (IsStart(StartOf(d), c) => c = d)
        /\ messages' = Append(messages, StartOf(d)) /\ held' = held \cup {d}
    BY <1>1, <1>4, ServerMessages DEF IsStart, Adds
  <2> QED
    BY <1>2, <2>1
<1>5. ASSUME NEW d \in Channels, Ends(d) PROVE Kept(c)'
  <2>1. /\ EndOf(d) \in Message /\ ~IsStart(EndOf(d), c) /\ (c = d => IsEnd(EndOf(d), c))
        /\ messages' = Append(messages, EndOf(d)) /\ held' = held \ {d}
    BY <1>1, <1>5, ServerMessages DEF IsStart, IsEnd, Ends
  <2>2. CASE c # d
    BY <1>2, <2>1, <2>2
  <2>3. CASE c = d
    <3>1. KeptStarts(c)'
      BY <1>1, <2>1, <2>3, StartsAppend DEF Kept
    <3>2. 0 \in Nat /\ 0 <= Len(messages)
      BY <1>1, FlowTypes
    <3>3. EndsAfter(messages', 0, c)
      BY <1>1, <2>1, <2>3, <3>2, EndsAppend
    <3> QED
      BY <3>1, <3>3 DEF Kept, KeptRegistered, KeptReply
  <2> QED
    BY <2>2, <2>3
<1>6. ASSUME NEW x \in Subs, Pushes(x) \/ Revokes(x) PROVE Kept(c)'
  <2>1. PICK m \in {JoinOf(x), AgainOf(x)} : messages' = Append(messages, m)
    BY <1>6 DEF Pushes, Revokes
  <2>2. m \in Message /\ ~IsStart(m, c) /\ held' = held
    BY <1>1, <1>6, ServerMessages DEF Pushes, Revokes, IsStart
  <2> QED
    BY <1>2, <2>1, <2>2
<1> QED
  BY <1>3, <1>4, <1>5, <1>6, ServerCases

\* Nothing that the registry is about changes.
LEMMA KeptSame ==
    ASSUME NEW c, Kept(c), UNCHANGED <<linkVars, registryVars, tasks, messages, serverVars>>
    PROVE  Kept(c)'
<1>1. UNCHANGED <<transport_id, connected, registered, tasks, messages, held>>
  BY DEF linkVars, registryVars, serverVars
<1>2. Live' = Live
  BY <1>1 DEF Live
<1> QED
  BY <1>1, <1>2 DEF Kept, KeptRegistered, KeptReply, KeptStarts

LEMMA KeptStep == ASSUME Base, Base', [Next]_vars, NEW c \in Channels, Kept(c) PROVE Kept(c)'
<1>1. CASE Connect \/ LoseConnection \/ Invalidated
  <2>1. ~connected'
    BY <1>1 DEF Connect, LoseConnection, Invalidated, CloseConnection, Base, Types, LinkTypes
  <2> QED
    BY <2>1, KeptClosed
<1>2. CASE ConnectReply
  BY <1>2, KeptConnectReply
<1>3. CASE HandlerReturns
  BY <1>3, KeptHandler
<1>4. CASE Arrives
  BY <1>4, KeptArrives
<1>5. CASE AppCalls \/ SendSubscribe \/ UNCHANGED vars
  <2>1. UNCHANGED <<linkVars, registryVars, tasks, messages, serverVars>>
    BY <1>5 DEF AppCalls, SendSubscribe, vars
  <2> QED
    BY <2>1, KeptSame
<1>6. CASE ServerReceives
  BY <1>6, KeptReceives
<1>7. CASE Server
  BY <1>7, KeptServer
<1> QED
  BY <1>1, <1>2, <1>3, <1>4, <1>5, <1>6, <1>7 DEF Next

LEMMA KeptInit == Init => AllKept
<1>1. ~ \E j \in 1..Len(<<>>) : TRUE
  OBVIOUS
<1> QED
  BY <1>1 DEF Init, AllKept, Kept, KeptRegistered, KeptReply, KeptStarts, Live

LEMMA KeptNext == Base /\ AllKept /\ [Next]_vars => Base' /\ AllKept'
<1> SUFFICES ASSUME Base, AllKept, [Next]_vars PROVE Base' /\ AllKept'
  OBVIOUS
<1>1. Base'
  BY BaseStep, BaseStuttering
<1>2. ASSUME NEW c \in Channels PROVE Kept(c)'
  BY <1>1, KeptStep DEF AllKept
<1> QED
  BY <1>1, <1>2 DEF AllKept

\* The registry has no channel the server ended: when the connect reply is applied and all
\* messages are handled, what is registered is what the connection has, although handlers
\* of an older connection may still register and drop channels (_process_server_subs():
\* channels_to_delete; _process_unsubscribe()).
THEOREM NothingStaysRegistered == Spec => []NothingLeftRegistered
<1>1. Base /\ AllKept => NothingLeftRegistered
  <2> SUFFICES ASSUME Base, AllKept, connected, messages = <<>>, \A t \in tasks : t.conn # conn
               PROVE  registered \subseteq held
    BY DEF NothingLeftRegistered
  <2>1. conn = transport_id /\ registered \subseteq Channels
    BY DEF Base, Types, LinkTypes, RegistryTypes
  <2>2. Live = {}
    BY <2>1 DEF Live
  <2>3. ~ \E j \in (0 + 1)..Len(<<>>) : TRUE
    OBVIOUS
  <2>4. \A c \in Channels : ~EndsAfter(messages, 0, c)
    BY <2>3 DEF EndsAfter
  <2>5. \A c \in registered : Kept(c) /\ ~EndsAfter(messages, 0, c)
    BY <2>1, <2>4 DEF AllKept
  <2> QED
    BY <2>2, <2>5 DEF Kept, KeptRegistered
<1> QED
  BY <1>1, BaseInit, KeptInit, KeptNext, PTL DEF Spec

-----------------------------------------------------------------------------
(* The parts of the invariant: the sessions of client-side subscriptions *)

Asks(k, x) == k.op = "subscribe" /\ k.sub = x
Answers(m, x) == m.op = "subscribed" /\ m.sub = x
Joins(m, x) == m.op = "join" /\ m.sub = x

\* What is on its way after the n-th message belongs to attempt a of x with its id, and so
\* does what the server serves: s is the attempt it serves for x, d the id.
Told(cs, ms, s, d, n, x, a, id) ==
    /\ \A i \in 1..Len(cs) : ~Asks(cs[i], x)
    /\ \A j \in (n + 1)..Len(ms) : /\ ~Answers(ms[j], x)
                                   /\ Joins(ms[j], x) => ms[j].attempt = a /\ ms[j].id = id
    /\ s # 0 => s = a /\ d = id

\* a is the latest attempt of x there is, and one command asks for it.
Below(cs, ms, s, x, a) ==
    /\ s <= a
    /\ \A i \in 1..Len(cs) : Asks(cs[i], x) => cs[i].attempt <= a
    /\ \A i \in 1..Len(ms) : Answers(ms[i], x) => ms[i].attempt <= a
AskedOnce(cs, x, a) ==
    \A i \in 1..Len(cs) : Asks(cs[i], x) /\ cs[i].attempt = a => \A j \in (i + 1)..Len(cs) : ~Asks(cs[j], x)
AnswerTells(cs, ms, s, d, x, a) ==
    \A i \in 1..Len(ms) : Answers(ms[i], x) /\ ms[i].attempt = a => Told(cs, ms, s, d, i, x, a, ms[i].id)
Exchange(cs, ms, s, d, x, a) ==
    Below(cs, ms, s, x, a) /\ AskedOnce(cs, x, a) /\ AnswerTells(cs, ms, s, d, x, a)

\* While x is subscribed, what comes belongs to the session there is, and its id is x's.
Subscribed(x) ==
    state[x] = "subscribed" =>
        /\ attempt[x] # 0
        /\ Told(commands, messages, serves[x], ids[x], 0, x, attempt[x] - 1, push_id[x])
        /\ push_id[x] # 0 => subs_by_id[push_id[x]] = x
Session(x) == Exchange(commands, messages, serves[x], ids[x], x, attempt[x]) /\ Subscribed(x)

\* The client, the server or a message has id i for x.
Carries(m, x, i) == m.op \in {"subscribed", "join"} /\ m.sub = x /\ m.id = i
Uses(x, i) == subs_by_id[i] = x \/ ids[x] = i \/ \E j \in 1..Len(messages) : Carries(messages[j], x, i)

\* An id of this connection is that of one subscription.
OneMeaning ==
    \A i \in Ids \ {0} : /\ \A x \in Subs : Uses(x, i) => i <= last_id
                         /\ \A x, y \in Subs : Uses(x, i) /\ Uses(y, i) => x = y

AllSessions == OneMeaning /\ \A x \in Subs : Session(x)

-----------------------------------------------------------------------------
(* One message or command less, or more *)

LEMMA ToldTail ==
    ASSUME NEW cs, NEW ms \in Seq(Message), ms # <<>>, NEW s, NEW d, NEW n \in Nat, NEW x, NEW a, NEW id,
           Told(cs, ms, s, d, n + 1, x, a, id)
    PROVE  Told(cs, Tail(ms), s, d, n, x, a, id)
<1> SUFFICES ASSUME NEW j \in (n + 1)..Len(Tail(ms))
             PROVE  /\ ~Answers(Tail(ms)[j], x)
                    /\ Joins(Tail(ms)[j], x) => Tail(ms)[j].attempt = a /\ Tail(ms)[j].id = id
  BY DEF Told
<1>1. j \in 1..Len(Tail(ms))
  OBVIOUS
<1>2. Tail(ms)[j] = ms[j + 1] /\ j + 1 \in 1..Len(ms)
  BY <1>1, TailFacts
<1>3. j + 1 \in ((n + 1) + 1)..Len(ms)
  BY <1>2
<1> QED
  BY <1>2, <1>3 DEF Told

LEMMA ToldLater ==
    ASSUME NEW cs, NEW ms, NEW s, NEW d, NEW x, NEW a, NEW id, Told(cs, ms, s, d, 0, x, a, id)
    PROVE  Told(cs, ms, s, d, 1, x, a, id)
<1>1. \A j \in (1 + 1)..Len(ms) : j \in (0 + 1)..Len(ms)
  OBVIOUS
<1> QED
  BY <1>1 DEF Told

LEMMA ToldFirst ==
    ASSUME NEW cs, NEW ms \in Seq(Message), ms # <<>>, NEW s, NEW d, NEW x, NEW a, NEW id,
           Told(cs, ms, s, d, 0, x, a, id)
    PROVE  Told(cs, Tail(ms), s, d, 0, x, a, id)
<1>1. Told(cs, ms, s, d, 0 + 1, x, a, id)
  BY ToldLater
<1> QED
  BY <1>1, ToldTail

\* What the server may send for x: a push of the session it serves.
LEMMA ToldAppend ==
    ASSUME NEW cs, NEW ms \in Seq(Message), NEW m \in Message, NEW s, NEW d, NEW n \in Nat, NEW x, NEW a,
           NEW id, Told(cs, ms, s, d, n, x, a, id), ~Answers(m, x),
           Joins(m, x) => s # 0 /\ m.attempt = s /\ m.id = d
    PROVE  Told(cs, Append(ms, m), s, d, n, x, a, id)
<1>1. /\ Len(ms) \in Nat /\ Len(Append(ms, m)) = Len(ms) + 1 /\ Append(ms, m)[Len(ms) + 1] = m
      /\ \A k \in 1..Len(ms) : Append(ms, m)[k] = ms[k]
  BY AppendFacts
<1> SUFFICES ASSUME NEW j \in (n + 1)..(Len(ms) + 1)
             PROVE  /\ ~Answers(Append(ms, m)[j], x)
                    /\ Joins(Append(ms, m)[j], x) => /\ Append(ms, m)[j].attempt = a
                                                     /\ Append(ms, m)[j].id = id
  BY <1>1 DEF Told
<1>2. j = Len(ms) + 1 \/ (j \in (n + 1)..Len(ms) /\ j \in 1..Len(ms))
  BY <1>1
<1>3. CASE j = Len(ms) + 1
  BY <1>1, <1>3 DEF Told
<1>4. CASE j \in (n + 1)..Len(ms) /\ j \in 1..Len(ms)
  BY <1>1, <1>4 DEF Told
<1> QED
  BY <1>2, <1>3, <1>4

LEMMA ToldEnded ==
    ASSUME NEW cs, NEW ms, NEW s, NEW d, NEW n, NEW x, NEW a, NEW id, Told(cs, ms, s, d, n, x, a, id)
    PROVE  Told(cs, ms, 0, 0, n, x, a, id)
BY DEF Told

\* Commands that do not ask for x are another matter.
LEMMA ToldCommands ==
    ASSUME NEW cs, NEW cs2, NEW ms, NEW s, NEW d, NEW n, NEW x, NEW a, NEW id,
           Told(cs, ms, s, d, n, x, a, id), \A i \in 1..Len(cs2) : ~Asks(cs2[i], x)
    PROVE  Told(cs2, ms, s, d, n, x, a, id)
BY DEF Told

LEMMA NoMoreAsks ==
    ASSUME NEW cs \in Seq(Command), NEW x, \A i \in 1..Len(cs) : ~Asks(cs[i], x)
    PROVE  /\ cs # <<>> => \A i \in 1..Len(Tail(cs)) : ~Asks(Tail(cs)[i], x)
           /\ \A k \in Command : ~Asks(k, x) => \A i \in 1..Len(Append(cs, k)) : ~Asks(Append(cs, k)[i], x)
<1>1. ASSUME cs # <<>>, NEW i \in 1..Len(Tail(cs)) PROVE ~Asks(Tail(cs)[i], x)
  BY <1>1, TailFacts
<1>2. ASSUME NEW k \in Command, ~Asks(k, x), NEW i \in 1..Len(Append(cs, k)) PROVE ~Asks(Append(cs, k)[i], x)
  <2>1. Len(Append(cs, k)) = Len(cs) + 1 /\ Len(cs) \in Nat /\ Append(cs, k)[Len(cs) + 1] = k
    BY AppendFacts
  <2>2. \A j \in 1..Len(cs) : Append(cs, k)[j] = cs[j]
    BY AppendFacts
  <2>3. i \in 1..Len(cs) \/ i = Len(cs) + 1
    BY <2>1
  <2> QED
    BY <1>2, <2>1, <2>2, <2>3
<1> QED
  BY <1>1, <1>2

LEMMA ExchangeTail ==
    ASSUME NEW cs, NEW ms \in Seq(Message), ms # <<>>, NEW s, NEW d, NEW x, NEW a, Exchange(cs, ms, s, d, x, a)
    PROVE  Exchange(cs, Tail(ms), s, d, x, a)
<1>1. \A i \in 1..Len(Tail(ms)) : i \in Nat /\ i + 1 \in 1..Len(ms) /\ Tail(ms)[i] = ms[i + 1]
  BY TailFacts
<1>2. Below(cs, Tail(ms), s, x, a)
  BY <1>1 DEF Exchange, Below
<1>3. AnswerTells(cs, Tail(ms), s, d, x, a)
  <2> SUFFICES ASSUME NEW i \in 1..Len(Tail(ms)), Answers(Tail(ms)[i], x), Tail(ms)[i].attempt = a
               PROVE  Told(cs, Tail(ms), s, d, i, x, a, Tail(ms)[i].id)
    BY DEF AnswerTells
  <2>1. Told(cs, ms, s, d, i + 1, x, a, Tail(ms)[i].id) /\ i \in Nat
    BY <1>1 DEF Exchange, AnswerTells
  <2> QED
    BY <2>1, ToldTail
<1> QED
  BY <1>2, <1>3 DEF Exchange

LEMMA ExchangeAppend ==
    ASSUME NEW cs, NEW ms \in Seq(Message), NEW m \in Message, NEW s, NEW d, NEW x, NEW a,
           Exchange(cs, ms, s, d, x, a), ~Answers(m, x), Joins(m, x) => s # 0 /\ m.attempt = s /\ m.id = d
    PROVE  Exchange(cs, Append(ms, m), s, d, x, a)
<1>1. /\ Len(ms) \in Nat /\ Len(Append(ms, m)) = Len(ms) + 1 /\ Append(ms, m)[Len(ms) + 1] = m
      /\ \A k \in 1..Len(ms) : Append(ms, m)[k] = ms[k]
  BY AppendFacts
<1>2. \A i \in 1..Len(Append(ms, m)) : i \in 1..Len(ms) \/ i = Len(ms) + 1
  BY <1>1
<1>3. Below(cs, Append(ms, m), s, x, a)
  BY <1>1, <1>2 DEF Exchange, Below
<1>4. AnswerTells(cs, Append(ms, m), s, d, x, a)
  <2> SUFFICES ASSUME NEW i \in 1..Len(Append(ms, m)), Answers(Append(ms, m)[i], x),
                      Append(ms, m)[i].attempt = a
               PROVE  Told(cs, Append(ms, m), s, d, i, x, a, Append(ms, m)[i].id)
    BY DEF AnswerTells
  <2>1. i \in 1..Len(ms) /\ Append(ms, m)[i] = ms[i] /\ i \in Nat
    BY <1>1, <1>2
  <2>2. Told(cs, ms, s, d, i, x, a, Append(ms, m)[i].id)
    BY <2>1 DEF Exchange, AnswerTells
  <2> QED
    BY <2>1, <2>2, ToldAppend
<1> QED
  BY <1>3, <1>4 DEF Exchange

LEMMA ExchangeEnded ==
    ASSUME NEW cs, NEW ms, NEW s, NEW d, NEW x, NEW a \in Nat, Exchange(cs, ms, s, d, x, a)
    PROVE  Exchange(cs, ms, 0, 0, x, a)
<1>1. Below(cs, ms, 0, x, a)
  BY DEF Exchange, Below
<1>2. AnswerTells(cs, ms, 0, 0, x, a)
  BY ToldEnded DEF Exchange, AnswerTells
<1> QED
  BY <1>1, <1>2 DEF Exchange

LEMMA AttemptTypes ==
    ASSUME NEW cs \in Seq(Command), NEW ms \in Seq(Message)
    PROVE  /\ \A i \in 1..Len(cs) : cs[i].attempt \in Nat
           /\ \A i \in 1..Len(ms) : \A x : Answers(ms[i], x) => ms[i].attempt \in Nat
<1>1. \A k \in Command : k.attempt \in Nat
  BY DEF Command
<1>2. \A m \in Message : \A x : Answers(m, x) => m.attempt \in Nat
  BY MessageFacts DEF Answers
<1>3. /\ \A i \in 1..Len(cs) : cs[i] \in Command
      /\ \A i \in 1..Len(ms) : ms[i] \in Message
  OBVIOUS
<1> QED
  BY <1>1, <1>2, <1>3

\* A new attempt makes everything on its way an old one.
LEMMA ExchangeAttempt ==
    ASSUME NEW cs \in Seq(Command), NEW ms \in Seq(Message), NEW s \in Nat, NEW d, NEW x, NEW a \in Nat,
           Below(cs, ms, s, x, a)
    PROVE  Exchange(cs, ms, s, d, x, a + 1)
<1>1. /\ \A i \in 1..Len(cs) : cs[i].attempt \in Nat
      /\ \A i \in 1..Len(ms) : Answers(ms[i], x) => ms[i].attempt \in Nat
  BY AttemptTypes
<1>2. \A b \in Nat : b <= a => b <= a + 1 /\ b # a + 1
  OBVIOUS
<1>3. Below(cs, ms, s, x, a + 1)
  BY <1>1, <1>2 DEF Below
<1>4. AskedOnce(cs, x, a + 1)
  BY <1>1, <1>2 DEF Below, AskedOnce
<1>5. AnswerTells(cs, ms, s, d, x, a + 1)
  BY <1>1, <1>2 DEF Below, AnswerTells
<1> QED
  BY <1>3, <1>4, <1>5 DEF Exchange

LEMMA ExchangeSends ==
    ASSUME NEW cs \in Seq(Command), NEW k \in Command, NEW ms, NEW s, NEW d, NEW x, NEW a,
           Exchange(cs, ms, s, d, x, a), ~Asks(k, x)
    PROVE  Exchange(Append(cs, k), ms, s, d, x, a)
<1>1. /\ Len(cs) \in Nat /\ Len(Append(cs, k)) = Len(cs) + 1 /\ Append(cs, k)[Len(cs) + 1] = k
      /\ \A i \in 1..Len(cs) : Append(cs, k)[i] = cs[i]
  BY AppendFacts
<1>2. \A i \in 1..Len(Append(cs, k)) : i \in 1..Len(cs) \/ i = Len(cs) + 1
  BY <1>1
<1>3. Below(Append(cs, k), ms, s, x, a)
  BY <1>1, <1>2 DEF Exchange, Below
<1>4. AskedOnce(Append(cs, k), x, a)
  <2> SUFFICES ASSUME NEW i \in 1..Len(Append(cs, k)), Asks(Append(cs, k)[i], x),
                      Append(cs, k)[i].attempt = a, NEW j \in (i + 1)..Len(Append(cs, k))
               PROVE  ~Asks(Append(cs, k)[j], x)
    BY DEF AskedOnce
  <2>1. i \in 1..Len(cs) /\ cs[i] = Append(cs, k)[i]
    BY <1>1, <1>2
  <2>2. j = Len(cs) + 1 \/ (j \in (i + 1)..Len(cs) /\ j \in 1..Len(cs))
    BY <1>1, <2>1
  <2>3. CASE j = Len(cs) + 1
    BY <1>1, <2>3
  <2>4. CASE j \in (i + 1)..Len(cs) /\ j \in 1..Len(cs)
    BY <1>1, <2>1, <2>4 DEF Exchange, AskedOnce
  <2> QED
    BY <2>2, <2>3, <2>4
<1>5. AnswerTells(Append(cs, k), ms, s, d, x, a)
  <2> SUFFICES ASSUME NEW i \in 1..Len(ms), Answers(ms[i], x), ms[i].attempt = a
               PROVE  Told(Append(cs, k), ms, s, d, i, x, a, ms[i].id)
    BY DEF AnswerTells
  <2>1. Told(cs, ms, s, d, i, x, a, ms[i].id)
    BY DEF Exchange, AnswerTells
  <2>2. \A j \in 1..Len(Append(cs, k)) : ~Asks(Append(cs, k)[j], x)
    BY <2>1, NoMoreAsks DEF Told
  <2> QED
    BY <2>1, <2>2, ToldCommands
<1> QED
  BY <1>3, <1>4, <1>5 DEF Exchange

\* The command of a new attempt.
LEMMA ExchangeAsks ==
    ASSUME NEW cs \in Seq(Command), NEW k \in Command, NEW ms \in Seq(Message), NEW s \in Nat, NEW d, NEW x,
           NEW a \in Nat, Below(cs, ms, s, x, a), k.attempt = a + 1
    PROVE  Exchange(Append(cs, k), ms, s, d, x, a + 1)
<1>1. /\ Len(cs) \in Nat /\ Len(Append(cs, k)) = Len(cs) + 1 /\ Append(cs, k)[Len(cs) + 1] = k
      /\ \A i \in 1..Len(cs) : Append(cs, k)[i] = cs[i]
  BY AppendFacts
<1>2. \A i \in 1..Len(Append(cs, k)) : i \in 1..Len(cs) \/ i = Len(cs) + 1
  BY <1>1
<1>3. /\ \A i \in 1..Len(cs) : cs[i].attempt \in Nat
      /\ \A i \in 1..Len(ms) : Answers(ms[i], x) => ms[i].attempt \in Nat
  BY AttemptTypes
<1>4. \A b \in Nat : b <= a => b <= a + 1 /\ b # a + 1
  OBVIOUS
<1>5. a + 1 <= a + 1
  OBVIOUS
<1>6. Below(Append(cs, k), ms, s, x, a + 1)
  BY <1>1, <1>2, <1>3, <1>4, <1>5 DEF Below
<1>7. AskedOnce(Append(cs, k), x, a + 1)
  <2> SUFFICES ASSUME NEW i \in 1..Len(Append(cs, k)), Asks(Append(cs, k)[i], x),
                      Append(cs, k)[i].attempt = a + 1, NEW j \in (i + 1)..Len(Append(cs, k))
               PROVE  FALSE
    BY DEF AskedOnce
  <2>1. i = Len(cs) + 1
    BY <1>1, <1>2, <1>3, <1>4 DEF Below
  <2> QED
    BY <1>1, <2>1
<1>8. AnswerTells(Append(cs, k), ms, s, d, x, a + 1)
  BY <1>3, <1>4 DEF Below, AnswerTells
<1> QED
  BY <1>6, <1>7, <1>8 DEF Exchange

LEMMA ExchangeReceived ==
    ASSUME NEW cs \in Seq(Command), cs # <<>>, NEW ms, NEW s, NEW d, NEW x, NEW a, Exchange(cs, ms, s, d, x, a)
    PROVE  Exchange(Tail(cs), ms, s, d, x, a)
<1>1. /\ \A i \in 1..Len(Tail(cs)) : i \in Nat /\ i + 1 \in 1..Len(cs) /\ Tail(cs)[i] = cs[i + 1]
      /\ Len(cs) \in Nat /\ Len(Tail(cs)) = Len(cs) - 1
  BY TailFacts
<1>2. Below(Tail(cs), ms, s, x, a)
  BY <1>1 DEF Exchange, Below
<1>3. AskedOnce(Tail(cs), x, a)
  <2> SUFFICES ASSUME NEW i \in 1..Len(Tail(cs)), Asks(Tail(cs)[i], x), Tail(cs)[i].attempt = a,
                      NEW j \in (i + 1)..Len(Tail(cs))
               PROVE  ~Asks(Tail(cs)[j], x)
    BY DEF AskedOnce
  <2>1. i \in Nat /\ i + 1 \in 1..Len(cs) /\ cs[i + 1] = Tail(cs)[i]
    BY <1>1
  <2>2. j \in 1..Len(Tail(cs)) /\ j + 1 \in ((i + 1) + 1)..Len(cs)
    BY <1>1, <2>1
  <2>3. Tail(cs)[j] = cs[j + 1]
    BY <1>1, <2>2
  <2> QED
    BY <2>1, <2>2, <2>3 DEF Exchange, AskedOnce
<1>4. AnswerTells(Tail(cs), ms, s, d, x, a)
  <2> SUFFICES ASSUME NEW i \in 1..Len(ms), Answers(ms[i], x), ms[i].attempt = a
               PROVE  Told(Tail(cs), ms, s, d, i, x, a, ms[i].id)
    BY DEF AnswerTells
  <2>1. Told(cs, ms, s, d, i, x, a, ms[i].id)
    BY DEF Exchange, AnswerTells
  <2>2. \A j \in 1..Len(Tail(cs)) : ~Asks(Tail(cs)[j], x)
    BY <2>1, NoMoreAsks DEF Told
  <2> QED
    BY <2>1, <2>2, ToldCommands
<1> QED
  BY <1>2, <1>3, <1>4 DEF Exchange

\* The server answers the command of an attempt: if it is the latest, nothing older follows.
LEMMA ExchangeAnswered ==
    ASSUME NEW cs \in Seq(Command), cs # <<>>, NEW ms \in Seq(Message), NEW m \in Message, NEW s, NEW d,
           NEW x, NEW a \in Nat, Exchange(cs, ms, s, d, x, a), Asks(Head(cs), x), Answers(m, x),
           m.attempt = Head(cs).attempt
    PROVE  Exchange(Tail(cs), Append(ms, m), m.attempt, m.id, x, a)
<1>1. /\ Len(ms) \in Nat /\ Len(Append(ms, m)) = Len(ms) + 1 /\ Append(ms, m)[Len(ms) + 1] = m
      /\ \A i \in 1..Len(ms) : Append(ms, m)[i] = ms[i]
  BY AppendFacts
<1>2. \A i \in 1..Len(Append(ms, m)) : i \in 1..Len(ms) \/ i = Len(ms) + 1
  BY <1>1
<1>3. Head(cs) = cs[1] /\ 1 \in 1..Len(cs)
  BY TailFacts
<1>4. Exchange(Tail(cs), ms, s, d, x, a)
  BY ExchangeReceived
<1>5. m.attempt <= a
  BY <1>3 DEF Exchange, Below
<1>6. Below(Tail(cs), Append(ms, m), m.attempt, x, a)
  BY <1>1, <1>2, <1>4, <1>5 DEF Exchange, Below
<1>7. AnswerTells(Tail(cs), Append(ms, m), m.attempt, m.id, x, a)
  <2> SUFFICES ASSUME NEW i \in 1..Len(Append(ms, m)), Answers(Append(ms, m)[i], x),
                      Append(ms, m)[i].attempt = a
               PROVE  Told(Tail(cs), Append(ms, m), m.attempt, m.id, i, x, a, Append(ms, m)[i].id)
    BY DEF AnswerTells
  <2>1. i = Len(ms) + 1
    <3> SUFFICES ASSUME i \in 1..Len(ms) PROVE FALSE
      BY <1>2
    <3>1. Told(cs, ms, s, d, i, x, a, ms[i].id)
      BY <1>1 DEF Exchange, AnswerTells
    <3> QED
      BY <1>3, <3>1 DEF Told
  <2>2. m.attempt = a /\ Append(ms, m)[i] = m
    BY <1>1, <2>1
  <2>3. \A j \in 1..Len(Tail(cs)) : ~Asks(Tail(cs)[j], x)
    <3>1. \A j \in (1 + 1)..Len(cs) : ~Asks(cs[j], x)
      BY <1>3, <2>2 DEF Exchange, AskedOnce
    <3>2. \A j \in 1..Len(Tail(cs)) : j + 1 \in 2..Len(cs) /\ Tail(cs)[j] = cs[j + 1]
      BY TailFacts
    <3> QED
      BY <3>1, <3>2
  <2>4. \A j : j \notin (i + 1)..Len(Append(ms, m))
    BY <1>1, <2>1
  <2> QED
    BY <2>2, <2>3, <2>4 DEF Told
<1> QED
  BY <1>4, <1>6, <1>7 DEF Exchange

-----------------------------------------------------------------------------
(* The sessions, step by step *)

SubFields(x) ==
    /\ state[x] \in {"unsubscribed", "subscribing", "subscribed"} /\ attempt[x] \in Nat /\ push_id[x] \in Ids
    /\ serves[x] \in Nat /\ ids[x] \in Ids /\ commands \in Seq(Command) /\ messages \in Seq(Message)

LEMMA SubFacts == ASSUME Base, NEW x \in Subs PROVE SubFields(x)
<1>1. state[x] \in {"unsubscribed", "subscribing", "subscribed"} /\ attempt[x] \in Nat /\ push_id[x] \in Ids
  BY DEF Base, Types, SubTypes
<1>2. serves[x] \in Nat /\ ids[x] \in Ids /\ commands \in Seq(Command) /\ messages \in Seq(Message)
  BY DEF Base, Types, ServerTypes, WireTypes
<1> QED
  BY <1>1, <1>2 DEF SubFields

LEMMA ExchangeNothing == ASSUME NEW x, NEW a \in Nat, NEW d PROVE Exchange(<<>>, <<>>, 0, d, x, a)
<1>1. ~ \E i \in 1..Len(<<>>) : TRUE
  OBVIOUS
<1>2. 0 <= a
  OBVIOUS
<1> QED
  BY <1>1, <1>2 DEF Exchange, Below, AskedOnce, AnswerTells

\* Without a connection there is no session, and no id.
LEMMA SessionsClosed == ASSUME Base', ~connected' PROVE AllSessions'
<1>1. /\ messages' = <<>> /\ commands' = <<>>
      /\ \A x \in Subs : serves'[x] = 0 /\ ids'[x] = 0 /\ state'[x] # "subscribed"
      /\ \A i \in Ids : subs_by_id'[i] = Nobody
  BY DEF Base, Closed
<1>2. ASSUME NEW x \in Subs PROVE Session(x)'
  <2>1. attempt'[x] \in Nat
    BY DEF Base, Types, SubTypes
  <2>2. Exchange(commands', messages', serves'[x], ids'[x], x, attempt'[x])
    BY <1>1, <2>1, ExchangeNothing
  <2>3. Subscribed(x)'
    BY <1>1 DEF Subscribed
  <2> QED
    BY <2>2, <2>3 DEF Session
<1>3. ~ \E j \in 1..Len(<<>>) : TRUE
  OBVIOUS
<1>4. ASSUME NEW i \in Ids \ {0}, NEW x \in Subs PROVE ~Uses(x, i)'
  <2>1. x # Nobody
    BY NobodyAssumption
  <2> QED
    BY <1>1, <1>3, <2>1 DEF Uses
<1>5. OneMeaning'
  BY <1>4 DEF OneMeaning
<1> QED
  BY <1>2, <1>5 DEF AllSessions

\* Nobody has an id that was not theirs.
LEMMA MeaningKept ==
    ASSUME OneMeaning, last_id' = last_id, \A i \in Ids \ {0} : \A x \in Subs : Uses(x, i)' => Uses(x, i)
    PROVE  OneMeaning'
BY DEF OneMeaning

LEMMA SessionsSame ==
    ASSUME AllSessions, UNCHANGED <<state, attempt, push_id, subs_by_id, commands, messages, serves, ids, last_id>>
    PROVE  AllSessions'
<1>1. \A x \in Subs : Session(x)'
  BY DEF AllSessions, Session, Subscribed
<1>2. OneMeaning'
  BY MeaningKept DEF AllSessions, Uses
<1> QED
  BY <1>1, <1>2 DEF AllSessions

LEMMA CarriesTail ==
    ASSUME NEW ms \in Seq(Message), ms # <<>>, NEW x, NEW i,
           \E j \in 1..Len(Tail(ms)) : Carries(Tail(ms)[j], x, i)
    PROVE  \E j \in 1..Len(ms) : Carries(ms[j], x, i)
<1>1. PICK j \in 1..Len(Tail(ms)) : Carries(Tail(ms)[j], x, i)
  OBVIOUS
<1>2. j + 1 \in 1..Len(ms) /\ Tail(ms)[j] = ms[j + 1]
  BY TailFacts
<1> QED
  BY <1>1, <1>2

LEMMA CarriesAppend ==
    ASSUME NEW ms \in Seq(Message), NEW m \in Message, NEW x, NEW i,
           \E j \in 1..Len(Append(ms, m)) : Carries(Append(ms, m)[j], x, i)
    PROVE  (\E j \in 1..Len(ms) : Carries(ms[j], x, i)) \/ Carries(m, x, i)
<1>1. PICK j \in 1..Len(Append(ms, m)) : Carries(Append(ms, m)[j], x, i)
  OBVIOUS
<1>2. /\ Len(ms) \in Nat /\ Len(Append(ms, m)) = Len(ms) + 1 /\ Append(ms, m)[Len(ms) + 1] = m
      /\ \A k \in 1..Len(ms) : Append(ms, m)[k] = ms[k]
  BY AppendFacts
<1>3. j \in 1..Len(ms) \/ j = Len(ms) + 1
  BY <1>2
<1> QED
  BY <1>1, <1>2, <1>3

\* A message that the sessions are not about is handled.
LEMMA SessionsTail ==
    ASSUME Base, AllSessions, messages # <<>>, messages' = Tail(messages),
           UNCHANGED <<state, attempt, push_id, subs_by_id, commands, serves, ids, last_id>>
    PROVE  AllSessions'
<1>1. messages \in Seq(Message)
  BY DEF Base, Types, WireTypes
<1>2. ASSUME NEW x \in Subs PROVE Session(x)'
  <2>1. Exchange(commands', messages', serves'[x], ids'[x], x, attempt'[x])
    BY <1>1, ExchangeTail DEF AllSessions, Session
  <2>2. Subscribed(x)'
    BY <1>1, ToldFirst DEF AllSessions, Session, Subscribed
  <2> QED
    BY <2>1, <2>2 DEF Session
<1>3. OneMeaning'
  <2>1. \A i \in Ids \ {0} : \A x \in Subs : Uses(x, i)' => Uses(x, i)
    BY <1>1, CarriesTail DEF Uses
  <2> QED
    BY <2>1, MeaningKept DEF AllSessions
<1> QED
  BY <1>2, <1>3 DEF AllSessions

\* The server sends something, a push only for a session it serves.
LEMMA SessionsAppend ==
    ASSUME Base, AllSessions, NEW m \in Message, messages' = Append(messages, m),
           \/ m.op \in {"publication", "subscribe", "unsubscribe", "again"}
           \/ /\ m.op = "join" /\ m.sub \in Subs /\ serves[m.sub] # 0
              /\ m.attempt = serves[m.sub] /\ m.id = ids[m.sub],
           UNCHANGED <<state, attempt, push_id, subs_by_id, commands, serves, ids, last_id>>
    PROVE  AllSessions'
<1>1. messages \in Seq(Message)
  BY DEF Base, Types, WireTypes
<1>2. ASSUME NEW x \in Subs PROVE Session(x)'
  <2>1. ~Answers(m, x) /\ (Joins(m, x) => serves[x] # 0 /\ m.attempt = serves[x] /\ m.id = ids[x])
    BY DEF Answers, Joins
  <2>2. Exchange(commands', messages', serves'[x], ids'[x], x, attempt'[x])
    BY <1>1, <2>1, ExchangeAppend DEF AllSessions, Session
  <2>3. Subscribed(x)'
    <3> SUFFICES ASSUME state[x] = "subscribed"
                 PROVE  Told(commands, Append(messages, m), serves[x], ids[x], 0, x, attempt[x] - 1, push_id[x])
      BY DEF AllSessions, Session, Subscribed
    <3>1. Told(commands, messages, serves[x], ids[x], 0, x, attempt[x] - 1, push_id[x])
      BY DEF AllSessions, Session, Subscribed
    <3> QED
      BY <1>1, <2>1, <3>1, ToldAppend
  <2> QED
    BY <2>2, <2>3 DEF Session
<1>3. OneMeaning'
  <2>1. ASSUME NEW i \in Ids \ {0}, NEW x \in Subs, Uses(x, i)' PROVE Uses(x, i)
    <3>1. Carries(m, x, i) => ids[x] = i
      BY DEF Carries
    <3> QED
      BY <1>1, <2>1, <3>1, CarriesAppend DEF Uses
  <2> QED
    BY <2>1, MeaningKept DEF AllSessions
<1> QED
  BY <1>2, <1>3 DEF AllSessions

\* The registry of ids for the other subscriptions.
LEMMA SetPushIdElsewhere ==
    ASSUME SubTypes, NEW x \in Subs, NEW id \in Ids, SetPushId(x, id), NEW y \in Subs, y # x
    PROVE  /\ push_id'[y] = push_id[y]
           /\ \A i \in Ids \ {0} : subs_by_id'[i] = y => subs_by_id[i] = y
           /\ \A i \in Ids : subs_by_id[i] = y /\ i # id => subs_by_id'[i] = y
<1>1. push_id'[y] = push_id[y]
  BY DEF SetPushId, SubTypes
<1>2. y # Nobody
  BY NobodyAssumption
<1>3. \A i \in Ids : subs_by_id'[i] = IF i = id /\ id > 0 THEN x
                                      ELSE IF DropsId(x, i) THEN Nobody ELSE subs_by_id[i]
  BY DEF SetPushId
<1> QED
  BY <1>1, <1>2, <1>3 DEF DropsId

LEMMA SetPushIdItself ==
    ASSUME SubTypes, NEW x \in Subs, NEW id \in Ids, SetPushId(x, id)
    PROVE  /\ push_id'[x] = id /\ (id # 0 => subs_by_id'[id] = x)
           /\ \A i \in Ids : subs_by_id'[i] = x => subs_by_id[i] = x \/ (i = id /\ id # 0)
<1>1. push_id'[x] = id
  BY DEF SetPushId, SubTypes
<1>2. x # Nobody /\ id \in Nat
  BY NobodyAssumption, IdFacts
<1>3. \A i \in Ids : subs_by_id'[i] = IF i = id /\ id > 0 THEN x
                                      ELSE IF DropsId(x, i) THEN Nobody ELSE subs_by_id[i]
  BY DEF SetPushId
<1> QED
  BY <1>1, <1>2, <1>3

LEMMA NoChange ==
    ASSUME AllSessions, SubscribeReply, UNCHANGED subVars, Base PROVE AllSessions'
<1>1. /\ messages # <<>> /\ messages' = Tail(messages)
      /\ UNCHANGED <<state, attempt, push_id, subs_by_id, commands, serves, ids, last_id>>
  BY DEF SubscribeReply, Receives, subVars, serverVars
<1> QED
  BY <1>1, SessionsTail

\* The reply to the latest subscribe: nothing older follows it, and its id is x's.
LEMMA SessionsReply == ASSUME Base, AllSessions, SubscribeReply PROVE AllSessions'
<1>1. PICK m : m = Head(messages)
  OBVIOUS
<1>2. PICK x : x = m.sub
  OBVIOUS
<1>3. /\ messages[1] = m /\ m \in Message /\ m.op = "subscribed" /\ messages \in Seq(Message)
      /\ messages # <<>> /\ messages' = Tail(messages) /\ 1 \in 1..Len(messages)
  BY <1>1, ReceiveFacts, TailFacts DEF SubscribeReply
<1>4. x \in Subs /\ m.attempt \in Nat /\ m.id \in Ids
  BY <1>3, <1>2, MessageFacts
<1>5. UNCHANGED <<commands, held, top, serves, ids, last_id>>
  BY DEF SubscribeReply, serverVars
<1>6. CASE ~(state[x] = "subscribing" /\ attempt[x] = m.attempt)
  BY <1>1, <1>2, <1>6, NoChange DEF SubscribeReply
<1>7. CASE state[x] = "subscribing" /\ attempt[x] = m.attempt
  <2>1. /\ state' = [state EXCEPT ![x] = "subscribed"] /\ attempt' = [attempt EXCEPT ![x] = @ + 1]
        /\ SetPushId(x, m.id)
    BY <1>1, <1>2, <1>7 DEF SubscribeReply
  <2>2. SubTypes
    BY DEF Base, Types
  <2>3. Answers(messages[1], x) /\ Carries(messages[1], x, m.id)
    BY <1>3, <1>2 DEF Answers, Carries
  <2>4. Session(x)'
    <3>1. state'[x] = "subscribed" /\ attempt'[x] = attempt[x] + 1 /\ attempt[x] \in Nat
      BY <1>4, <2>1, <2>2 DEF SubTypes
    <3>2. Exchange(commands, messages, serves[x], ids[x], x, attempt[x])
      BY <1>4 DEF AllSessions, Session
    <3>3. Told(commands, messages, serves[x], ids[x], 0 + 1, x, attempt[x], m.id)
      BY <1>3, <1>7, <2>3, <3>2 DEF Exchange, AnswerTells
    <3>4. Told(commands, messages', serves[x], ids[x], 0, x, attempt[x], m.id)
      BY <1>3, <3>3, ToldTail
    <3>5. Exchange(commands, messages', serves[x], ids[x], x, attempt[x])
      BY <1>3, <3>2, ExchangeTail
    <3>6. commands \in Seq(Command) /\ messages' \in Seq(Message) /\ serves[x] \in Nat
      BY <1>3, <1>4, SubFacts, TailFacts DEF SubFields
    <3>7. Exchange(commands, messages', serves[x], ids[x], x, attempt'[x])
      BY <3>1, <3>5, <3>6, ExchangeAttempt DEF Exchange
    <3>8. attempt'[x] # 0 /\ attempt'[x] - 1 = attempt[x]
      BY <3>1
    <3>9. push_id'[x] = m.id /\ (m.id # 0 => subs_by_id'[m.id] = x)
      BY <1>4, <2>1, <2>2, SetPushIdItself
    <3>10. Subscribed(x)'
      BY <1>5, <3>4, <3>8, <3>9 DEF Subscribed
    <3> QED
      BY <1>5, <3>7, <3>10 DEF Session
  <2>5. ASSUME NEW y \in Subs, y # x PROVE Session(y)'
    <3>1. state'[y] = state[y] /\ attempt'[y] = attempt[y]
      BY <1>4, <2>1, <2>2, <2>5 DEF SubTypes
    <3>2. /\ push_id'[y] = push_id[y]
          /\ \A i \in Ids : subs_by_id[i] = y /\ i # m.id => subs_by_id'[i] = y
      BY <1>4, <2>1, <2>2, <2>5, SetPushIdElsewhere
    <3>3. Exchange(commands', messages', serves'[y], ids'[y], y, attempt'[y])
      BY <1>3, <1>5, <3>1, ExchangeTail DEF AllSessions, Session
    <3>4. Subscribed(y)'
      <4> SUFFICES ASSUME state[y] = "subscribed"
                   PROVE  /\ attempt[y] # 0
                          /\ Told(commands, messages', serves[y], ids[y], 0, y, attempt[y] - 1, push_id[y])
                          /\ push_id[y] # 0 => subs_by_id'[push_id[y]] = y
        BY <1>5, <3>1, <3>2 DEF Subscribed
      <4>1. /\ attempt[y] # 0
            /\ Told(commands, messages, serves[y], ids[y], 0, y, attempt[y] - 1, push_id[y])
            /\ push_id[y] # 0 => subs_by_id[push_id[y]] = y
        BY DEF AllSessions, Session, Subscribed
      <4>2. Told(commands, messages', serves[y], ids[y], 0, y, attempt[y] - 1, push_id[y])
        BY <1>3, <4>1, ToldFirst
      <4>3. ASSUME push_id[y] # 0 PROVE subs_by_id'[push_id[y]] = y
        <5>1. push_id[y] \in Ids \ {0} /\ subs_by_id[push_id[y]] = y
          BY <4>1, <4>3, <2>2 DEF SubTypes
        <5>2. push_id[y] = m.id => Uses(x, push_id[y]) /\ Uses(y, push_id[y])
          BY <1>3, <2>3, <5>1 DEF Uses
        <5>3. push_id[y] # m.id
          BY <1>4, <2>5, <5>1, <5>2 DEF AllSessions, OneMeaning
        <5> QED
          BY <3>2, <5>1, <5>3
      <4> QED
        BY <4>1, <4>2, <4>3
    <3> QED
      BY <3>3, <3>4 DEF Session
  <2>6. OneMeaning'
    <3>1. ASSUME NEW i \in Ids \ {0}, NEW y \in Subs, Uses(y, i)' PROVE Uses(y, i)
      <4>1. \/ subs_by_id'[i] = y
            \/ ids[y] = i \/ \E j \in 1..Len(messages) : Carries(messages[j], y, i)
        BY <1>3, <1>5, <3>1, CarriesTail DEF Uses
      <4>2. CASE subs_by_id'[i] = y /\ y = x
        <5>1. subs_by_id[i] = x \/ i = m.id
          BY <1>4, <2>1, <2>2, <4>2, SetPushIdItself
        <5> QED
          BY <1>3, <2>3, <4>2, <5>1 DEF Uses
      <4>3. CASE subs_by_id'[i] = y /\ y # x
        <5>1. subs_by_id[i] = y
          BY <1>4, <2>1, <2>2, <4>3, SetPushIdElsewhere
        <5> QED
          BY <5>1 DEF Uses
      <4> QED
        BY <4>1, <4>2, <4>3 DEF Uses
    <3> QED
      BY <1>5, <3>1, MeaningKept DEF AllSessions
  <2> QED
    BY <2>4, <2>5, <2>6 DEF AllSessions
<1> QED
  BY <1>6, <1>7

\* A subscription that is to subscribe again has no session.
LEMMA SessionsAgain == ASSUME Base, AllSessions, SubscribesAgain PROVE AllSessions'
<1>1. /\ messages \in Seq(Message) /\ messages # <<>> /\ messages' = Tail(messages)
      /\ Head(messages) \in Message /\ Head(messages).op = "again"
  BY ReceiveFacts DEF SubscribesAgain
<1>2. UNCHANGED <<push_id, subs_by_id, commands, serves, ids, last_id>>
  BY DEF SubscribesAgain, serverVars
<1>3. SubTypes
  BY DEF Base, Types
<1>4. PICK r : r = Route(Head(messages))
  OBVIOUS
<1>5. r \in Subs \cup {Nobody}
  BY <1>1, <1>3, <1>4, MessageFacts, RouteTypes
<1>6. CASE r = Nobody
  <2>1. UNCHANGED <<state, attempt>>
    BY <1>4, <1>6 DEF SubscribesAgain
  <2> QED
    BY <1>1, <1>2, <2>1, SessionsTail
<1>7. CASE r # Nobody
  <2>1. r \in Subs
    BY <1>5, <1>7
  <2>2. state' = [state EXCEPT ![r] = "subscribing"] /\ attempt' = [attempt EXCEPT ![r] = @ + 1]
    BY <1>4, <1>7 DEF SubscribesAgain
  <2>3. ASSUME NEW x \in Subs PROVE Session(x)'
    <3>1. Exchange(commands, messages', serves[x], ids[x], x, attempt[x])
      BY <1>1, ExchangeTail DEF AllSessions, Session
    <3>2. commands \in Seq(Command) /\ messages' \in Seq(Message) /\ serves[x] \in Nat /\ attempt[x] \in Nat
      BY <1>1, SubFacts, TailFacts DEF SubFields
    <3>3. CASE x = r
      <4>1. state'[x] # "subscribed" /\ attempt'[x] = attempt[x] + 1
        BY <1>3, <2>2, <3>3 DEF SubTypes
      <4>2. Exchange(commands, messages', serves[x], ids[x], x, attempt[x] + 1)
        BY <3>1, <3>2, ExchangeAttempt DEF Exchange
      <4> QED
        BY <1>2, <4>1, <4>2 DEF Session, Subscribed
    <3>4. CASE x # r
      <4>1. state'[x] = state[x] /\ attempt'[x] = attempt[x]
        BY <1>3, <2>2, <3>4 DEF SubTypes
      <4>2. Subscribed(x)'
        BY <1>1, <1>2, <4>1, ToldFirst DEF AllSessions, Session, Subscribed
      <4> QED
        BY <1>2, <3>1, <4>1, <4>2 DEF Session
    <3> QED
      BY <3>3, <3>4
  <2>4. \A i \in Ids \ {0} : \A x \in Subs : Uses(x, i)' => Uses(x, i)
    BY <1>1, <1>2, CarriesTail DEF Uses
  <2> QED
    BY <1>2, <2>3, <2>4, MeaningKept DEF AllSessions
<1> QED
  BY <1>6, <1>7

\* unsubscribe() ends a session, subscribe() begins an attempt; nobody else has to do with it.
LEMMA SessionsCall == ASSUME Base, AllSessions, AppCalls PROVE AllSessions'
<1>1. PICK x \in Subs : CallFor(x)
  BY WorldFacts DEF AppCalls, CallFor, Base, Types
<1>2. UNCHANGED <<messages, serves, ids, last_id>>
  BY DEF AppCalls, serverVars
<1>3. SubTypes /\ 0 \in Ids
  BY IdFacts DEF Base, Types
<1>4. attempt' = [attempt EXCEPT ![x] = @ + 1]
  BY <1>1 DEF CallFor
<1> DEFINE k == [op |-> "unsubscribe", sub |-> x, attempt |-> 0]
<1>5. /\ state' = [state EXCEPT ![x] = "subscribing"] \/ state' = [state EXCEPT ![x] = "unsubscribed"]
      /\ UNCHANGED <<push_id, subs_by_id>> \/ SetPushId(x, 0)
      /\ commands' = commands \/ commands' = Append(commands, k)
  BY <1>1 DEF CallFor, Subscribe, Unsubscribe
<1>6. k \in Command /\ k.op = "unsubscribe"
  BY DEF Command
<1> HIDE DEF k
<1>7. \A y : ~Asks(k, y)
  BY <1>6 DEF Asks
<1>8. ASSUME NEW y \in Subs PROVE Session(y)'
  <2>1. SubFields(y) /\ Exchange(commands, messages, serves[y], ids[y], y, attempt[y])
    BY SubFacts DEF AllSessions, Session
  <2>2. Exchange(commands', messages, serves[y], ids[y], y, attempt[y])
    <3>1. commands \in Seq(Command) /\ ~Asks(k, y)
      BY <1>7, <2>1 DEF SubFields
    <3>2. Exchange(Append(commands, k), messages, serves[y], ids[y], y, attempt[y])
      BY <1>6, <2>1, <3>1, ExchangeSends
    <3> QED
      BY <1>5, <2>1, <3>2
  <2>3. CASE y = x
    <3>1. state'[y] # "subscribed" /\ attempt'[y] = attempt[y] + 1
      BY <1>3, <1>4, <1>5, <2>3 DEF SubTypes
    <3>2. commands' \in Seq(Command)
      BY <1>1, CallFacts
    <3>3. Exchange(commands', messages, serves[y], ids[y], y, attempt[y] + 1)
      BY <2>1, <2>2, <3>2, ExchangeAttempt DEF Exchange, SubFields
    <3> QED
      BY <1>2, <3>1, <3>3 DEF Session, Subscribed
  <2>4. CASE y # x
    <3>1. state'[y] = state[y] /\ attempt'[y] = attempt[y]
      BY <1>3, <1>4, <1>5, <2>4 DEF SubTypes
    <3>2. push_id'[y] = push_id[y]
      BY <1>3, <1>5, <2>4, SetPushIdElsewhere
    <3>3. \A i \in Ids \ {0} : subs_by_id[i] = y => subs_by_id'[i] = y
      BY <1>3, <1>5, <2>4, SetPushIdElsewhere
    <3>4. Subscribed(y)'
      <4> SUFFICES ASSUME state[y] = "subscribed"
                   PROVE  /\ attempt[y] # 0
                          /\ Told(commands', messages, serves[y], ids[y], 0, y, attempt[y] - 1, push_id[y])
                          /\ push_id[y] # 0 => subs_by_id'[push_id[y]] = y
        BY <1>2, <3>1, <3>2 DEF Subscribed
      <4>1. /\ attempt[y] # 0
            /\ Told(commands, messages, serves[y], ids[y], 0, y, attempt[y] - 1, push_id[y])
            /\ push_id[y] # 0 => subs_by_id[push_id[y]] = y
        BY DEF AllSessions, Session, Subscribed
      <4>2. \A i \in 1..Len(commands') : ~Asks(commands'[i], y)
        <5>1. \A i \in 1..Len(commands) : ~Asks(commands[i], y)
          BY <4>1 DEF Told
        <5> QED
          BY <1>5, <1>6, <1>7, <2>1, <5>1, NoMoreAsks DEF SubFields
      <4>3. Told(commands', messages, serves[y], ids[y], 0, y, attempt[y] - 1, push_id[y])
        BY <4>1, <4>2, ToldCommands
      <4>4. push_id[y] # 0 => subs_by_id'[push_id[y]] = y
        BY <2>1, <3>3, <4>1 DEF SubFields
      <4> QED
        BY <4>1, <4>3, <4>4
    <3> QED
      BY <1>2, <2>2, <3>1, <3>4 DEF Session
  <2> QED
    BY <2>3, <2>4
<1>9. ASSUME NEW i \in Ids \ {0}, NEW y \in Subs, Uses(y, i)' PROVE Uses(y, i)
  <2>1. subs_by_id'[i] = y => subs_by_id[i] = y
    <3>1. CASE y = x
      BY <1>3, <1>5, <3>1, SetPushIdItself
    <3>2. CASE y # x
      BY <1>3, <1>5, <3>2, SetPushIdElsewhere
    <3> QED
      BY <3>1, <3>2
  <2> QED
    BY <1>2, <1>9, <2>1 DEF Uses
<1> QED
  BY <1>2, <1>8, <1>9, MeaningKept DEF AllSessions

LEMMA SessionsSend == ASSUME Base, AllSessions, SendSubscribe PROVE AllSessions'
<1>1. PICK x \in Subs :
          /\ state[x] = "subscribing" /\ attempt' = [attempt EXCEPT ![x] = @ + 1]
          /\ commands' = Append(commands, [op |-> "subscribe", sub |-> x, attempt |-> attempt[x] + 1])
  BY DEF SendSubscribe
<1>2. UNCHANGED <<state, push_id, subs_by_id, messages, serves, ids, last_id>>
  BY DEF SendSubscribe, serverVars
<1>3. SubTypes /\ attempt[x] \in Nat
  BY DEF Base, Types, SubTypes
<1> DEFINE k == [op |-> "subscribe", sub |-> x, attempt |-> attempt[x] + 1]
<1>4. k \in Command /\ k.attempt = attempt[x] + 1 /\ k.sub = x /\ commands' = Append(commands, k)
  BY <1>1, <1>3 DEF Command
<1> HIDE DEF k
<1>5. ASSUME NEW y \in Subs PROVE Session(y)'
  <2>1. SubFields(y) /\ Exchange(commands, messages, serves[y], ids[y], y, attempt[y])
    BY SubFacts DEF AllSessions, Session
  <2>2. CASE y = x
    <3>1. attempt'[y] = attempt[y] + 1 /\ state'[y] # "subscribed"
      BY <1>1, <1>2, <1>3, <2>2 DEF SubTypes
    <3>2. Exchange(Append(commands, k), messages, serves[y], ids[y], y, attempt[y] + 1)
      BY <1>4, <2>1, <2>2, ExchangeAsks DEF Exchange, SubFields
    <3> QED
      BY <1>2, <1>4, <3>1, <3>2 DEF Session, Subscribed
  <2>3. CASE y # x
    <3>1. attempt'[y] = attempt[y] /\ ~Asks(k, y)
      BY <1>1, <1>3, <1>4, <2>3 DEF SubTypes, Asks
    <3>2. Exchange(Append(commands, k), messages, serves[y], ids[y], y, attempt[y])
      BY <1>4, <2>1, <3>1, ExchangeSends DEF SubFields
    <3>3. Subscribed(y)'
      <4> SUFFICES ASSUME state[y] = "subscribed"
                   PROVE  Told(Append(commands, k), messages, serves[y], ids[y], 0, y, attempt[y] - 1, push_id[y])
        BY <1>2, <1>4, <3>1 DEF AllSessions, Session, Subscribed
      <4>1. Told(commands, messages, serves[y], ids[y], 0, y, attempt[y] - 1, push_id[y])
        BY DEF AllSessions, Session, Subscribed
      <4>2. \A i \in 1..Len(Append(commands, k)) : ~Asks(Append(commands, k)[i], y)
        BY <1>4, <2>1, <3>1, <4>1, NoMoreAsks DEF Told, SubFields
      <4> QED
        BY <4>1, <4>2, ToldCommands
    <3> QED
      BY <1>2, <1>4, <3>1, <3>2, <3>3 DEF Session
  <2> QED
    BY <2>2, <2>3
<1>6. \A i \in Ids \ {0} : \A y \in Subs : Uses(y, i)' => Uses(y, i)
  BY <1>2 DEF Uses
<1> QED
  BY <1>2, <1>5, <1>6, MeaningKept DEF AllSessions

\* The server answers with an id that nobody has, if with one.
LEMMA SessionsReceived == ASSUME Base, AllSessions, ServerReceives PROVE AllSessions'
<1>1. PICK k \in Command : k = Head(commands)
  BY ReceivedFacts
<1>2. /\ commands \in Seq(Command) /\ commands # <<>> /\ commands' = Tail(commands)
      /\ messages \in Seq(Message) /\ ServerTypes /\ SubTypes
      /\ UNCHANGED <<state, attempt, push_id, subs_by_id>>
  BY ReceivedFacts DEF Base, Types, WireTypes, subVars
<1>3. k.sub \in Subs /\ k.attempt \in Nat /\ k.op \in {"subscribe", "unsubscribe"}
  BY <1>1 DEF Command
<1>4. ASSUME NEW y \in Subs
      PROVE  /\ SubFields(y) /\ Exchange(commands, messages, serves[y], ids[y], y, attempt[y])
             /\ Exchange(Tail(commands), messages, serves[y], ids[y], y, attempt[y])
  BY <1>2, SubFacts, ExchangeReceived DEF AllSessions, Session
<1>5. ASSUME NEW y \in Subs, NEW a, NEW id, Told(commands, messages, serves[y], ids[y], 0, y, a, id)
      PROVE  Told(Tail(commands), messages, serves[y], ids[y], 0, y, a, id)
  BY <1>2, <1>5, NoMoreAsks, ToldCommands DEF Told
<1>6. CASE k.op = "unsubscribe"
  <2>1. /\ serves' = [serves EXCEPT ![k.sub] = 0] /\ ids' = [ids EXCEPT ![k.sub] = 0]
        /\ UNCHANGED <<messages, last_id>>
    BY <1>1, <1>6 DEF ServerReceives
  <2>2. ASSUME NEW y \in Subs
        PROVE  (serves'[y] = serves[y] /\ ids'[y] = ids[y]) \/ (serves'[y] = 0 /\ ids'[y] = 0)
    BY <1>2, <1>3, <2>1 DEF ServerTypes
  <2>3. ASSUME NEW y \in Subs PROVE Session(y)'
    <3>1. attempt[y] \in Nat
      BY <1>4 DEF SubFields
    <3>2. Exchange(Tail(commands), messages, serves'[y], ids'[y], y, attempt[y])
      BY <1>4, <2>2, <3>1, ExchangeEnded
    <3>3. Subscribed(y)'
      <4> SUFFICES ASSUME state[y] = "subscribed"
                   PROVE  Told(Tail(commands), messages, serves'[y], ids'[y], 0, y, attempt[y] - 1, push_id[y])
        BY <1>2, <2>1 DEF AllSessions, Session, Subscribed
      <4>1. Told(Tail(commands), messages, serves[y], ids[y], 0, y, attempt[y] - 1, push_id[y])
        BY <1>5 DEF AllSessions, Session, Subscribed
      <4> QED
        BY <2>2, <4>1, ToldEnded
    <3> QED
      BY <1>2, <2>1, <3>2, <3>3 DEF Session
  <2>4. \A i \in Ids \ {0} : \A y \in Subs : Uses(y, i)' => Uses(y, i)
    BY <1>2, <2>1, <2>2 DEF Uses
  <2> QED
    BY <2>1, <2>3, <2>4, MeaningKept DEF AllSessions
<1>7. CASE k.op # "unsubscribe"
  <2>1. PICK id \in Ids \cap {0, last_id + 1} :
            /\ serves' = [serves EXCEPT ![k.sub] = k.attempt] /\ ids' = [ids EXCEPT ![k.sub] = id]
            /\ messages' = Append(messages, Answer(k, id))
            /\ last_id' = IF id = 0 THEN last_id ELSE id
    BY <1>1, <1>7 DEF ServerReceives, Answer
  <2>2. PICK m \in Message : m = Answer(k, id)
    BY <2>1, AnswerFacts
  <2>3. /\ m.op = "subscribed" /\ m.sub = k.sub /\ m.attempt = k.attempt /\ m.id = id
        /\ messages' = Append(messages, m)
    BY <2>1, <2>2, AnswerFacts
  <2>4. ASSUME NEW y \in Subs PROVE Session(y)'
    <3>1. CASE y = k.sub
      <4>1. Asks(Head(commands), y) /\ Answers(m, y) /\ m.attempt = Head(commands).attempt
        BY <1>1, <1>3, <1>7, <2>3, <3>1 DEF Asks, Answers
      <4>2. serves'[y] = m.attempt /\ ids'[y] = m.id
        BY <1>2, <2>1, <2>3, <3>1 DEF ServerTypes
      <4>3. attempt[y] \in Nat
        BY <1>4 DEF SubFields
      <4>4. Exchange(Tail(commands), Append(messages, m), m.attempt, m.id, y, attempt[y])
        BY <1>2, <1>4, <4>1, <4>3, ExchangeAnswered
      <4>5. state[y] # "subscribed"
        <5>1. Head(commands) = commands[1] /\ 1 \in 1..Len(commands)
          BY <1>2, TailFacts
        <5> QED
          BY <4>1, <5>1 DEF AllSessions, Session, Subscribed, Told
      <4> QED
        BY <1>2, <2>3, <4>2, <4>4, <4>5 DEF Session, Subscribed
    <3>2. CASE y # k.sub
      <4>1. ~Answers(m, y) /\ ~Joins(m, y)
        BY <2>3, <3>2 DEF Answers, Joins
      <4>2. serves'[y] = serves[y] /\ ids'[y] = ids[y]
        BY <1>2, <2>1, <3>2 DEF ServerTypes
      <4>3. Exchange(Tail(commands), Append(messages, m), serves[y], ids[y], y, attempt[y])
        BY <1>2, <1>4, <4>1, ExchangeAppend
      <4>4. Subscribed(y)'
        <5> SUFFICES ASSUME state[y] = "subscribed"
                     PROVE  Told(Tail(commands), Append(messages, m), serves[y], ids[y], 0, y,
                                 attempt[y] - 1, push_id[y])
          BY <1>2, <2>3, <4>2 DEF AllSessions, Session, Subscribed
        <5>1. Told(Tail(commands), messages, serves[y], ids[y], 0, y, attempt[y] - 1, push_id[y])
          BY <1>5 DEF AllSessions, Session, Subscribed
        <5> QED
          BY <1>2, <4>1, <5>1, ToldAppend
      <4> QED
        BY <1>2, <2>3, <4>2, <4>3, <4>4 DEF Session
    <3> QED
      BY <3>1, <3>2
  <2>5. ASSUME NEW i \in Ids \ {0}, NEW y \in Subs, Uses(y, i)' PROVE Uses(y, i) \/ (y = k.sub /\ i = id)
    <3>1. Carries(m, y, i) => y = k.sub /\ i = id
      BY <2>3 DEF Carries
    <3>2. ids'[y] = i => ids[y] = i \/ (y = k.sub /\ i = id)
      BY <1>2, <2>1 DEF ServerTypes
    <3> QED
      BY <1>2, <2>3, <2>5, <3>1, <3>2, CarriesAppend DEF Uses
  <2>6. CASE id = 0
    <3>1. \A i \in Ids \ {0} : \A y \in Subs : Uses(y, i)' => Uses(y, i)
      BY <2>5, <2>6
    <3> QED
      BY <2>1, <2>4, <2>6, <3>1, MeaningKept DEF AllSessions
  <2>7. CASE id # 0
    <3>1. last_id' = id /\ id = last_id + 1 /\ last_id \in Nat /\ Ids \subseteq Nat
      BY <1>2, <2>1, <2>7, IdFacts DEF ServerTypes
    <3>2. ASSUME NEW y \in Subs, NEW i \in Ids \ {0}, Uses(y, i) PROVE i <= last_id
      BY <3>2 DEF AllSessions, OneMeaning
    <3>3. ASSUME NEW i \in Ids \ {0}, NEW y \in Subs, Uses(y, i)' PROVE i <= last_id'
      <4>1. CASE Uses(y, i)
        BY <3>1, <3>2, <4>1
      <4>2. CASE i = id
        BY <3>1, <4>2
      <4> QED
        BY <2>5, <3>3, <4>1, <4>2
    <3>4. ASSUME NEW i \in Ids \ {0}, NEW y \in Subs, NEW z \in Subs, Uses(y, i)', Uses(z, i)' PROVE y = z
      <4>1. CASE i = id
        <5>1. ~Uses(y, i) /\ ~Uses(z, i)
          BY <3>1, <3>2, <4>1
        <5> QED
          BY <2>5, <3>4, <5>1
      <4>2. CASE i # id
        <5>1. Uses(y, i) /\ Uses(z, i)
          BY <2>5, <3>4, <4>2
        <5> QED
          BY <5>1 DEF AllSessions, OneMeaning
      <4> QED
        BY <4>1, <4>2
    <3>5. OneMeaning'
      BY <3>3, <3>4 DEF OneMeaning
    <3> QED
      BY <2>4, <3>5 DEF AllSessions
  <2> QED
    BY <2>6, <2>7
<1> QED
  BY <1>6, <1>7

LEMMA SessionsServer == ASSUME Base, AllSessions, Server PROVE AllSessions'
<1>1. UNCHANGED <<state, attempt, push_id, subs_by_id, commands>> /\ ServerTypes /\ messages \in Seq(Message)
  BY ServerCases DEF subVars, Base, Types, WireTypes
<1>2. CASE \E c \in Channels : Publishes(c) \/ Adds(c) \/ Ends(c)
  <2>1. UNCHANGED <<serves, ids, last_id>>
    BY <1>2 DEF Publishes, Adds, Ends
  <2>2. messages' = messages \/ \E m \in Message : /\ messages' = Append(messages, m)
                                                   /\ m.op \in {"publication", "subscribe", "unsubscribe"}
    BY <1>1, <1>2, ServerMessages DEF Publishes, Adds, Ends
  <2> QED
    BY <1>1, <2>1, <2>2, SessionsSame, SessionsAppend
<1>3. ASSUME NEW x \in Subs, Pushes(x) PROVE AllSessions'
  <2>1. PICK m \in Message : m = JoinOf(x)
    BY <1>1, ServerMessages
  <2>2. m.op = "join" /\ m.sub = x /\ m.attempt = serves[x] /\ m.id = ids[x]
    BY <1>1, <2>1, ServerMessages
  <2>3. serves[x] # 0 /\ messages' = Append(messages, m) /\ UNCHANGED <<serves, ids, last_id>>
    BY <1>3, <2>1 DEF Pushes
  <2> QED
    BY <1>1, <2>2, <2>3, SessionsAppend
<1>4. ASSUME NEW x \in Subs, Revokes(x) PROVE AllSessions'
  <2>1. PICK m \in Message : m = AgainOf(x) /\ m.op = "again"
    BY <1>1, ServerMessages
  <2>2. /\ messages' = Append(messages, m) /\ last_id' = last_id
        /\ serves' = [serves EXCEPT ![x] = 0] /\ ids' = [ids EXCEPT ![x] = 0]
    BY <1>4, <2>1 DEF Revokes
  <2>3. ASSUME NEW y \in Subs
        PROVE  (serves'[y] = serves[y] /\ ids'[y] = ids[y]) \/ (serves'[y] = 0 /\ ids'[y] = 0)
    BY <1>1, <2>2 DEF ServerTypes
  <2>4. \A y : ~Answers(m, y) /\ ~Joins(m, y)
    BY <2>1 DEF Answers, Joins
  <2>5. ASSUME NEW y \in Subs PROVE Session(y)'
    <3>1. SubFields(y) /\ Exchange(commands, messages, serves[y], ids[y], y, attempt[y])
      BY SubFacts DEF AllSessions, Session
    <3>2. Exchange(commands, messages', serves[y], ids[y], y, attempt[y])
      BY <1>1, <2>2, <2>4, <3>1, ExchangeAppend
    <3>3. Exchange(commands, messages', serves'[y], ids'[y], y, attempt[y])
      BY <2>3, <3>1, <3>2, ExchangeEnded DEF SubFields
    <3>4. Subscribed(y)'
      <4> SUFFICES ASSUME state[y] = "subscribed"
                   PROVE  Told(commands, messages', serves'[y], ids'[y], 0, y, attempt[y] - 1, push_id[y])
        BY <1>1 DEF AllSessions, Session, Subscribed
      <4>1. Told(commands, messages, serves[y], ids[y], 0, y, attempt[y] - 1, push_id[y])
        BY DEF AllSessions, Session, Subscribed
      <4>2. Told(commands, messages', serves[y], ids[y], 0, y, attempt[y] - 1, push_id[y])
        BY <1>1, <2>2, <2>4, <4>1, ToldAppend
      <4> QED
        BY <2>3, <4>2, ToldEnded
    <3> QED
      BY <1>1, <3>3, <3>4 DEF Session
  <2>6. ASSUME NEW i \in Ids \ {0}, NEW y \in Subs, Uses(y, i)' PROVE Uses(y, i)
    <3>1. ~Carries(m, y, i)
      BY <2>1 DEF Carries
    <3>2. ids'[y] = i => ids[y] = i
      BY <2>3
    <3> QED
      BY <1>1, <2>2, <2>6, <3>1, <3>2, CarriesAppend DEF Uses
  <2> QED
    BY <2>2, <2>5, <2>6, MeaningKept DEF AllSessions
<1> QED
  BY <1>2, <1>3, <1>4, ServerCases

LEMMA SessionsStep == ASSUME Base, Base', AllSessions, [Next]_vars PROVE AllSessions'
<1>1. CASE Connect \/ LoseConnection \/ Invalidated
  <2>1. ~connected'
    BY <1>1 DEF Connect, LoseConnection, Invalidated, CloseConnection, Base, Types, LinkTypes
  <2> QED
    BY <2>1, SessionsClosed
<1>2. CASE ConnectReply \/ HandlerReturns \/ UNCHANGED vars
  <2>1. UNCHANGED <<state, attempt, push_id, subs_by_id, commands, messages, serves, ids, last_id>>
    BY <1>2 DEF ConnectReply, HandlerReturns, vars, subVars, serverVars
  <2> QED
    BY <2>1, SessionsSame
<1>3. CASE PublicationArrives \/ SubscribedByServer \/ UnsubscribedByServer \/ JoinArrives
  <2>1. /\ messages # <<>> /\ messages' = Tail(messages)
        /\ UNCHANGED <<state, attempt, push_id, subs_by_id, commands, serves, ids, last_id>>
    BY <1>3 DEF PublicationArrives, SubscribedByServer, UnsubscribedByServer, JoinArrives, Receives,
                subVars, serverVars
  <2> QED
    BY <2>1, SessionsTail
<1>4. CASE SubscribeReply \/ SubscribesAgain
  BY <1>4, SessionsReply, SessionsAgain
<1>5. CASE AppCalls \/ SendSubscribe
  BY <1>5, SessionsCall, SessionsSend
<1>6. CASE ServerReceives \/ Server
  BY <1>6, SessionsReceived, SessionsServer
<1> QED
  BY <1>1, <1>2, <1>3, <1>4, <1>5, <1>6 DEF Next, Arrives

LEMMA SessionsInit == Init => AllSessions
<1> SUFFICES ASSUME Init PROVE AllSessions
  OBVIOUS
<1>1. /\ messages = <<>> /\ commands = <<>>
      /\ \A x \in Subs : serves[x] = 0 /\ ids[x] = 0 /\ state[x] # "subscribed" /\ attempt[x] = 0
      /\ \A i \in Ids : subs_by_id[i] = Nobody
  BY DEF Init
<1>2. ~ \E j \in 1..Len(<<>>) : TRUE
  OBVIOUS
<1>3. \A x \in Subs : Session(x)
  BY <1>1, ExchangeNothing DEF Session, Subscribed
<1>4. \A i \in Ids \ {0} : \A x \in Subs : ~Uses(x, i)
  BY <1>1, <1>2, NobodyAssumption DEF Uses
<1> QED
  BY <1>3, <1>4 DEF AllSessions, OneMeaning

LEMMA SessionsNext == Base /\ AllSessions /\ [Next]_vars => Base' /\ AllSessions'
<1> SUFFICES ASSUME Base, AllSessions, [Next]_vars PROVE Base' /\ AllSessions'
  OBVIOUS
<1>1. Base'
  BY BaseStep, BaseStuttering
<1> QED
  BY <1>1, SessionsStep

\* A push of the server for a client-side subscription reaches that one, and it alone, while
\* it is subscribed in the session the push is for: an id never leads to another
\* subscription, not even after unsubscribe(), a new subscribe() or a reconnect
\* (_subscribed_sub_for_push(), _set_push_id(), _update_subscription_push_id()).
THEOREM PushesRouteRight == Spec => []RoutesRight
<1>1. Base /\ AllSessions => RoutesRight
  <2> SUFFICES ASSUME Base, AllSessions, messages # <<>>, NEW m, m = Head(messages), m.op = "join"
               PROVE  Route(m) = IF state[m.sub] = "subscribed" /\ attempt[m.sub] = m.attempt + 1
                                 THEN m.sub ELSE Nobody
    BY DEF RoutesRight
  <2>1. messages \in Seq(Message) /\ SubTypes
    BY DEF Base, Types, WireTypes
  <2>2. m = messages[1] /\ m \in Message /\ 1 \in 1..Len(messages)
    BY <2>1, TailFacts
  <2>3. m.sub \in Subs /\ m.attempt \in Nat /\ m.id \in Ids /\ m.sub # Nobody
    BY <2>2, MessageFacts, NobodyAssumption
  <2>4. m.id = 0 \/ m.id \in Ids \ {0}
    BY <2>3
  <2>5. m.id > 0 <=> m.id # 0
    <3>1. m.id \in Nat
      BY <2>3, IdFacts
    <3> QED
      BY <3>1
  <2>6. CASE state[m.sub] = "subscribed"
    <3>1. /\ attempt[m.sub] # 0 /\ attempt[m.sub] \in Nat
          /\ Told(commands, messages, serves[m.sub], ids[m.sub], 0, m.sub, attempt[m.sub] - 1, push_id[m.sub])
          /\ push_id[m.sub] # 0 => subs_by_id[push_id[m.sub]] = m.sub
      BY <2>1, <2>3, <2>6 DEF AllSessions, Session, Subscribed, SubTypes
    <3>2. 1 \in (0 + 1)..Len(messages)
      BY <2>2
    <3>3. m.attempt = attempt[m.sub] - 1 /\ m.id = push_id[m.sub]
      BY <2>2, <3>1, <3>2 DEF Told, Joins
    <3>4. attempt[m.sub] = m.attempt + 1
      BY <3>1, <3>3
    <3>5. SubForPush(m) = m.sub
      BY <2>5, <3>1, <3>3 DEF SubForPush
    <3> QED
      BY <2>3, <2>6, <3>4, <3>5 DEF Route
  <2>7. CASE state[m.sub] # "subscribed"
    <3>1. SubForPush(m) \in {m.sub, Nobody}
      <4>1. CASE m.id = 0
        BY <2>5, <4>1 DEF SubForPush
      <4>2. CASE m.id # 0
        <5>1. SubForPush(m) = subs_by_id[m.id] /\ subs_by_id[m.id] \in Subs \cup {Nobody}
          BY <2>1, <2>3, <2>5, <4>2 DEF SubForPush, SubTypes
        <5>2. Carries(messages[1], m.sub, m.id)
          BY <2>2 DEF Carries
        <5>3. Uses(m.sub, m.id)
          BY <2>2, <5>2 DEF Uses
        <5>4. ASSUME subs_by_id[m.id] \in Subs PROVE subs_by_id[m.id] = m.sub
          <6>1. Uses(subs_by_id[m.id], m.id)
            BY DEF Uses
          <6> QED
            BY <2>3, <4>2, <5>3, <5>4, <6>1 DEF AllSessions, OneMeaning
        <5> QED
          BY <5>1, <5>4
      <4> QED
        BY <4>1, <4>2
    <3> QED
      BY <2>7, <3>1 DEF Route
  <2> QED
    BY <2>6, <2>7
<1> QED
  BY <1>1, BaseInit, SessionsInit, SessionsNext, PTL DEF Spec

-----------------------------------------------------------------------------
(* The connections of this module are those of ClientLifecycle: Sessions *)

Link == INSTANCE Sessions WITH latest <- transport_id, session <- IF connected THEN conn ELSE 0

LEMMA LinkMoves ==
    ASSUME LinkTypes, LinkTypes',
           \/ UNCHANGED linkVars
           \/ UNCHANGED <<transport_id, conn>> /\ connected'
           \/ transport_id' = transport_id + 1 /\ ~connected'
    PROVE  [Link!Next]_(Link!vars)
<1>1. /\ transport_id \in Nat /\ conn \in {0, transport_id} /\ connected \in BOOLEAN
      /\ connected => conn # 0 /\ conn = transport_id /\ transport_id # 0
      /\ connected' => conn' # 0 /\ conn' = transport_id' /\ transport_id' # 0
  BY DEF LinkTypes
<1>2. CASE UNCHANGED linkVars
  BY <1>2 DEF linkVars, Link!vars
<1>3. CASE UNCHANGED <<transport_id, conn>> /\ connected'
  BY <1>1, <1>3 DEF Link!vars, Link!Next, Link!Open
<1>4. CASE transport_id' = transport_id + 1 /\ ~connected'
  BY <1>1, <1>4 DEF Link!Next, Link!NewIdentity, Link!Close
<1> QED
  BY <1>2, <1>3, <1>4

LEMMA LinkStep == ASSUME Base, Base', [Next]_vars PROVE [Link!Next]_(Link!vars)
<1>1. LinkTypes /\ LinkTypes'
  BY DEF Base, Types
<1>2. CASE Connect \/ LoseConnection \/ Invalidated
  <2>1. transport_id' = transport_id + 1 /\ ~connected'
    BY <1>1, <1>2 DEF Connect, LoseConnection, Invalidated, CloseConnection, LinkTypes
  <2> QED
    BY <1>1, <2>1, LinkMoves
<1>3. CASE ConnectReply
  BY <1>1, <1>3, LinkMoves DEF ConnectReply
<1>4. CASE HandlerReturns \/ AppCalls \/ SendSubscribe \/ ServerReceives \/ Server \/ UNCHANGED vars
  <2>1. UNCHANGED linkVars
    BY <1>4 DEF HandlerReturns, AppCalls, SendSubscribe, ServerReceives, Server, vars
  <2> QED
    BY <1>1, <2>1, LinkMoves
<1>5. CASE Arrives
  <2>1. UNCHANGED linkVars
    BY <1>5 DEF Arrives, PublicationArrives, SubscribedByServer, UnsubscribedByServer, SubscribeReply,
                JoinArrives, SubscribesAgain
  <2> QED
    BY <1>1, <2>1, LinkMoves
<1> QED
  BY <1>2, <1>3, <1>4, <1>5 DEF Next

\* The registry and the routes see connections as ClientLifecycle provides them: one after
\* the other, each with an identity of its own, which a teardown ends for good
\* (_connection_current(), _disconnect()).
THEOREM ServerFollowsSessions == Spec => Link!Spec
<1>1. Init => Link!Init
  BY DEF Init, Link!Init
<1>2. Base /\ [Next]_vars => Base' /\ [Link!Next]_(Link!vars)
  BY BaseStep, BaseStuttering, LinkStep
<1> QED
  BY <1>1, <1>2, BaseInit, PTL DEF Spec, Link!Spec

-----------------------------------------------------------------------------
(* Where a channel can be lost *)

\* A task that applies the reply of a connection that is over is through.
LateReplyEnds == \E t \in tasks \ tasks' : t.kind = "reply" /\ t.conn # conn

\* No step but that of a late reply takes a channel out of the registry while the
\* application is told that it is subscribed (ToldIsRegistered says that none does).
ForgetsOnlyLate == [][told' \ registered' \subseteq told \ registered \/ LateReplyEnds]_vars

LEMMA ForgetsStep ==
    ASSUME Base, [Next]_vars PROVE told' \ registered' \subseteq told \ registered \/ LateReplyEnds
<1>1. CASE LoseConnection \/ Invalidated
  BY <1>1 DEF LoseConnection, Invalidated, CloseConnection
<1>2. CASE Connect \/ ConnectReply \/ AppCalls \/ SendSubscribe \/ ServerReceives \/ Server \/ UNCHANGED vars
  BY <1>2 DEF Connect, ConnectReply, AppCalls, SendSubscribe, ServerReceives, Server, vars,
              registryVars, appVars
<1>3. CASE Arrives
  BY <1>3 DEF Arrives, PublicationArrives, SubscribedByServer, UnsubscribedByServer, SubscribeReply,
              JoinArrives, SubscribesAgain, Register, registryVars, appVars
<1>4. ASSUME NEW t \in tasks, TellsNext(t) \/ GivesNext(t) \/ Stops(t)
      PROVE  told' \ registered' \subseteq told \ registered
  BY <1>4 DEF TellsNext, GivesNext, Stops, Register, appVars
<1>5. ASSUME NEW t \in tasks, DropsTheRest(t)
      PROVE  told' \ registered' \subseteq told \ registered \/ LateReplyEnds
  <2>1. CASE ConnectionCurrent(t.conn)
    BY <1>5, <2>1 DEF DropsTheRest
  <2>2. CASE ~ConnectionCurrent(t.conn)
    <3>1. t \notin Live
      BY <2>2, LiveFacts
    <3>2. t.conn # conn
      BY <3>1, TaskFacts DEF Live, Base, Types, LinkTypes, TaskTypes
    <3>3. t.kind = "reply" /\ tasks' = tasks \ {t}
      BY <1>5 DEF DropsTheRest
    <3> QED
      BY <3>2, <3>3 DEF LateReplyEnds
  <2> QED
    BY <2>1, <2>2
<1> QED
  BY <1>1, <1>2, <1>3, <1>4, <1>5 DEF Next, HandlerReturns

\* A channel that the application takes for subscribed leaves the registry only when the
\* last handler of a connect reply returns whose connection is over: nothing else that
\* pushes, replies, handlers and teardowns do can lose it (_process_server_subs()).
THEOREM LostOnlyByLateReplies == Spec => ForgetsOnlyLate
<1>1. Base /\ [Next]_vars => Base' /\ [told' \ registered' \subseteq told \ registered \/ LateReplyEnds]_vars
  BY BaseStep, BaseStuttering, ForgetsStep
<1> QED
  BY <1>1, BaseInit, PTL DEF Spec, ForgetsOnlyLate
=============================================================================
