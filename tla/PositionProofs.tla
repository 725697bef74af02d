----------------------------- MODULE PositionProofs -----------------------------
(***************************************************************************)
(* The stream position of a subscription, for every number of calls,       *)
(* faults, publications and raising handlers of StreamPositions, with and  *)
(* without get_state: no publication is skipped, none is given twice, and  *)
(* the position never moves back.                                          *)
(*                                                                         *)
(* The argument: an attempt number is used by one flow, one command and    *)
(* one session.  While a command or its reply is on the way the position   *)
(* it carries is the subscription's.  From the reply on the messages are   *)
(* the publications after the ones it brings, without a gap, until a push  *)
(* ends the session; and the one handler that runs for the session says    *)
(* where among them the position is.  Nothing after that place was         *)
(* delivered, of an epoch at most what its stream has.                     *)
(***************************************************************************)
EXTENDS StreamPositions, TLAPS

-----------------------------------------------------------------------------
(* Types, a bit stronger than TypeOK: what a publication carries *)

Answer == {m \in Message : /\ m.op \in {"subscribed", "publication"} => m.epoch # 0
                           /\ m.op = "publication" => m.offset # 0}

Position == [session : Nat, offset : Nat]

ConnTypes ==
    /\ transport_id \in Nat \ {0} /\ session \in {0, transport_id}
    /\ stopped \in BOOLEAN /\ get_state \in BOOLEAN
SubTypes ==
    /\ state \in {"unsubscribed", "subscribing", "subscribed"} /\ attempt \in Nat
    /\ state = "subscribed" => attempt # 0 /\ session # 0
PlaceTypes == recover \in BOOLEAN /\ epoch \in Nat /\ offset \in Nat /\ pending \in Position
FlowTypes == flows \subseteq Flow
HandlerTypes == handlers \subseteq Handler
WireTypes == commands \in Seq(Command) /\ messages \in Seq(Answer) /\ held \in BOOLEAN
StreamTypes ==
    /\ stream_epoch \in Nat \ {0} /\ published \in Nat
    /\ top \in Nat /\ trimmed \in 0..top
LogTypes == log \in Seq(Publication) /\ origin \in Nat
BoundTypes == calls \in Nat /\ faults \in Nat /\ raises \in Nat

Types ==
    /\ ConnTypes /\ SubTypes /\ PlaceTypes /\ FlowTypes /\ HandlerTypes
    /\ WireTypes /\ StreamTypes /\ LogTypes /\ BoundTypes

LEMMA TypesGiveTypeOK == Types => TypeOK
<1> SUFFICES ASSUME Types PROVE TypeOK
  OBVIOUS
<1>1. messages \in Seq(Message)
  BY DEF Types, WireTypes, Answer
<1> QED
  BY <1>1 DEF Types, TypeOK, ConnTypes, SubTypes, PlaceTypes, Position, FlowTypes, HandlerTypes,
     WireTypes, StreamTypes, LogTypes, BoundTypes

LEMMA CallType == ASSUME Types, Call PROVE calls' \in Nat
BY DEF Types, BoundTypes, Call

LEMMA FaultType == ASSUME Types, Fault PROVE faults' \in Nat
BY DEF Types, BoundTypes, Fault

LEMMA CommittedType == ASSUME Types PROVE Committed \in Nat
BY DEF Types, PlaceTypes, Position, Committed, EndsWith

LEMMA KeepType == ASSUME Types, KeepPosition(Committed), UNCHANGED recover PROVE PlaceTypes'
<1>1. offset' \in Nat
  BY CommittedType DEF KeepPosition, Types, PlaceTypes
<1>2. pending' \in Position
  BY DEF KeepPosition, Types, PlaceTypes, Position, NotPending
<1> QED
  BY <1>1, <1>2 DEF KeepPosition, Types, PlaceTypes

LEMMA ForgetType == ASSUME Types, ForgetPosition, UNCHANGED recover PROVE PlaceTypes'
BY DEF ForgetPosition, Types, PlaceTypes, Position, NotPending, Unknown

LEMMA CloseType ==
    ASSUME Types, CloseConnection, stopped' \in BOOLEAN, UNCHANGED get_state
    PROVE  ConnTypes' /\ SubTypes' /\ FlowTypes' /\ WireTypes'
<1>1. ConnTypes'
  BY DEF CloseConnection, Link!Close, Types, ConnTypes
<1>2. SubTypes'
  BY DEF CloseConnection, Types, SubTypes
<1>3. FlowTypes'
  BY DEF CloseConnection, Types, FlowTypes
<1>4. WireTypes'
  <2>1. commands' = <<>> /\ messages' = <<>> /\ held' = FALSE
    BY DEF CloseConnection
  <2>2. <<>> \in Seq(Command) /\ <<>> \in Seq(Answer) /\ FALSE \in BOOLEAN
    OBVIOUS
  <2> QED
    BY <2>1, <2>2 DEF WireTypes
<1> QED
  BY <1>1, <1>2, <1>3, <1>4

LEMMA SendType ==
    ASSUME Types, NEW op \in {"subscribe", "unsubscribe"}, NEW i \in Nat, NEW r \in BOOLEAN,
           NEW e \in Nat, NEW o \in Nat, Send(op, i, r, e, o)
    PROVE  commands' \in Seq(Command)
<1>1. [op |-> op, attempt |-> i, recover |-> r, epoch |-> e, offset |-> o] \in Command
  BY DEF Command
<1> QED
  BY <1>1 DEF Send, Types, WireTypes

LEMMA SubscribeType ==
    ASSUME Types, NEW i \in Nat, NEW r \in BOOLEAN, NEW e \in Nat, NEW o \in Nat,
           SendSubscribe(i, r, e, o)
    PROVE  commands' \in Seq(Command)
<1> DEFINE e0 == IF r THEN e ELSE Unknown
           o0 == IF r THEN o ELSE 0
<1>1. e0 \in Nat /\ o0 \in Nat
  BY DEF Unknown
<1>2. Send("subscribe", i, r, e0, o0)
  BY DEF SendSubscribe
<1> HIDE DEF e0, o0
<1> QED
  BY <1>1, <1>2, SendType

LEMMA DeliverType ==
    ASSUME Types,
           NEW op \in {"subscribed", "unrecoverable", "publication", "again", "invalidated"},
           NEW i \in Nat, NEW e \in Nat, NEW o \in Nat, NEW last \in Nat, NEW r \in BOOLEAN,
           op \in {"subscribed", "publication"} => e # 0, op = "publication" => o # 0,
           Deliver(op, i, e, o, last, r)
    PROVE  messages' \in Seq(Answer)
<1>1. [op |-> op, attempt |-> i, epoch |-> e, offset |-> o, last |-> last,
       recovered |-> r] \in Answer
  BY DEF Answer, Message
<1> QED
  BY <1>1 DEF Deliver, Types, WireTypes

LEMMA HandType ==
    ASSUME Types, NEW others \in SUBSET handlers, session # 0, NEW s \in Nat \ {0},
           NEW e \in Nat \ {0}, NEW o \in Nat \ {0}, NEW last \in Nat, Hand(others, s, e, o, last)
    PROVE  HandlerTypes' /\ pending' \in Position /\ log' \in Seq(Publication)
<1>1. [conn |-> session, session |-> s, kind |-> "publication", epoch |-> e, offset |-> o,
       last |-> last, disturbed |-> FALSE] \in Handler
  BY DEF Handler, Types, ConnTypes
<1>2. HandlerTypes'
  BY <1>1 DEF Hand, Types, HandlerTypes
<1>3. pending' \in Position
  BY DEF Hand, Position
<1>4. [epoch |-> e, offset |-> o] \in Publication
  BY DEF Publication
<1>5. log' \in Seq(Publication)
  BY <1>4 DEF Hand, Types, LogTypes
<1> QED
  BY <1>2, <1>3, <1>5

\* Unchanged variables keep their types.
LEMMA Same ==
    ASSUME Types
    PROVE  /\ UNCHANGED linkVars => ConnTypes'
           /\ UNCHANGED <<transport_id, session, get_state>> /\ stopped' \in BOOLEAN => ConnTypes'
           /\ UNCHANGED <<state, attempt, session>> => SubTypes'
           /\ UNCHANGED <<recover, epoch, offset, pending>> => PlaceTypes'
           /\ UNCHANGED flows => FlowTypes'
           /\ UNCHANGED handlers => HandlerTypes'
           /\ UNCHANGED <<commands, messages, held>> => WireTypes'
           /\ UNCHANGED streamVars => StreamTypes'
           /\ UNCHANGED historyVars => LogTypes'
           /\ UNCHANGED <<calls, faults, raises>> => BoundTypes'
<1> USE DEF Types
<1>1. UNCHANGED linkVars => ConnTypes'
  BY DEF linkVars, ConnTypes
<1>2. UNCHANGED <<transport_id, session, get_state>> /\ stopped' \in BOOLEAN => ConnTypes'
  BY DEF ConnTypes
<1>3. UNCHANGED <<state, attempt, session>> => SubTypes'
  BY DEF SubTypes
<1>4. UNCHANGED <<recover, epoch, offset, pending>> => PlaceTypes'
  BY DEF PlaceTypes
<1>5. UNCHANGED <<commands, messages, held>> => WireTypes'
  BY DEF WireTypes
<1>6. UNCHANGED streamVars => StreamTypes'
  BY DEF StreamTypes, streamVars
<1>7. UNCHANGED historyVars => LogTypes'
  BY DEF LogTypes, historyVars
<1>8. UNCHANGED <<calls, faults, raises>> => BoundTypes'
  BY DEF BoundTypes
<1> QED
  BY <1>1, <1>2, <1>3, <1>4, <1>5, <1>6, <1>7, <1>8 DEF FlowTypes, HandlerTypes

LEMMA TypeApplication == ASSUME Types, Application PROVE Types'
<1>1. CASE Subscribe
  <2>1. SubTypes'
    BY <1>1 DEF Subscribe, Types, SubTypes
  <2>2. BoundTypes'
    BY <1>1, CallType DEF Subscribe, Types, BoundTypes
  <2> QED
    BY <1>1, <2>1, <2>2, Same DEF Subscribe, Types
<1>2. CASE Unsubscribe
  <2>1. SubTypes'
    BY <1>2 DEF Unsubscribe, Types, SubTypes
  <2>2. PlaceTypes'
    BY <1>2, KeepType DEF Unsubscribe
  <2>3. commands' \in Seq(Command)
    BY <1>2, SendType DEF Unsubscribe, Unknown, Types, WireTypes
  <2>4. WireTypes'
    BY <1>2, <2>3 DEF Unsubscribe, Types, WireTypes
  <2>5. BoundTypes'
    BY <1>2, CallType DEF Unsubscribe, Types, BoundTypes
  <2> QED
    BY <1>2, <2>1, <2>2, <2>4, <2>5, Same DEF Unsubscribe, Types
<1>3. CASE Connect
  <2>1. BoundTypes'
    BY <1>3, CallType DEF Connect, Types, BoundTypes
  <2>2. UNCHANGED <<state, attempt, session>> /\ UNCHANGED <<recover, epoch, offset, pending>>
    BY <1>3 DEF Connect, subVars
  <2> QED
    BY <1>3, <2>1, <2>2, Same DEF Connect, Types
<1> QED
  BY <1>1, <1>2, <1>3 DEF Application

LEMMA TypeConnection == ASSUME Types, Connected \/ LoseConnection PROVE Types'
<1>1. CASE Connected
  <2>1. ConnTypes'
    BY <1>1 DEF Connected, Link!Open, Types, ConnTypes
  <2>2. SubTypes'
    BY <1>1 DEF Connected, Link!Open, subVars, Types, ConnTypes, SubTypes
  <2>3. UNCHANGED <<recover, epoch, offset, pending>>
    BY <1>1 DEF Connected, subVars
  <2> QED
    BY <1>1, <2>1, <2>2, <2>3, Same DEF Connected, Types
<1>2. CASE LoseConnection
  <2>1. ConnTypes' /\ SubTypes' /\ FlowTypes' /\ WireTypes'
    BY <1>2, CloseType DEF LoseConnection, Types, ConnTypes
  <2>2. PlaceTypes'
    BY <1>2, KeepType, ForgetType DEF LoseConnection
  <2>3. BoundTypes'
    BY <1>2, FaultType DEF LoseConnection, Types, BoundTypes
  <2> QED
    BY <1>2, <2>1, <2>2, <2>3, Same DEF LoseConnection, Types
<1> QED
  BY <1>1, <1>2

LEMMA TypeFlows == ASSUME Types, StartFlow \/ GetStateReturns \/ GetStateFails PROVE Types'
<1>1. CASE StartFlow
  <2> DEFINE f == [conn |-> session, attempt |-> NextAttempt, pc |-> "reply"]
  <2>1. /\ session \in Nat \ {0} /\ attempt \in Nat /\ NextAttempt \in Nat \ {0}
        /\ flows \subseteq Flow /\ recover \in BOOLEAN /\ epoch \in Nat /\ offset \in Nat
    BY <1>1 DEF StartFlow, Types, ConnTypes, SubTypes, NextAttempt, FlowTypes, PlaceTypes
  <2>2. f \in Flow /\ [f EXCEPT !.pc = "getState"] \in Flow
    BY <2>1 DEF Flow
  <2>3. SubTypes'
    BY <1>1, <2>1 DEF StartFlow, linkVars, Types, SubTypes
  <2>4. FlowTypes'
    BY <1>1, <2>1, <2>2 DEF StartFlow, FlowTypes
  <2>5. commands' \in Seq(Command)
    BY <1>1, <2>1, SubscribeType DEF StartFlow, Types, WireTypes
  <2>6. WireTypes'
    BY <1>1, <2>5 DEF StartFlow, Types, WireTypes
  <2>7. PlaceTypes'
    BY <1>1, Same DEF StartFlow
  <2> QED
    BY <1>1, <2>3, <2>4, <2>6, <2>7, Same DEF StartFlow, Types
<1>2. CASE GetStateReturns
  <2>1. PICK f \in flows, o \in 0..top : GetStateReturns!(f, o)
    BY <1>2 DEF GetStateReturns
  <2>2. /\ o \in Nat /\ stream_epoch \in Nat \ {0} /\ flows \subseteq Flow /\ f \in Flow
        /\ f.attempt \in Nat
    BY DEF Types, StreamTypes, FlowTypes, Flow
  <2>3. [f EXCEPT !.pc = "reply"] \in Flow
    BY <2>2 DEF Flow
  <2>4. FlowTypes'
    BY <2>1, <2>2, <2>3 DEF FlowTypes
  <2>5. commands' \in Seq(Command)
    BY <2>1, <2>2, SubscribeType DEF Types, WireTypes
  <2>6. WireTypes'
    BY <2>1, <2>5 DEF Types, WireTypes
  <2>7. recover' \in BOOLEAN /\ epoch' \in Nat /\ offset' \in Nat
    BY <2>1, <2>2 DEF Types, PlaceTypes
  <2>8. PlaceTypes'
    BY <2>1, <2>7 DEF Types, PlaceTypes
  <2>9. LogTypes'
    BY <2>1, <2>2 DEF Types, LogTypes
  <2>10. BoundTypes'
    BY <2>1, FaultType DEF Types, BoundTypes
  <2> QED
    BY <2>1, <2>4, <2>6, <2>8, <2>9, <2>10, Same DEF linkVars, Types
<1>3. CASE GetStateFails
  <2>1. FlowTypes'
    BY <1>3 DEF GetStateFails, Types, FlowTypes
  <2>2. BoundTypes'
    BY <1>3, FaultType DEF GetStateFails, Types, BoundTypes
  <2>3. UNCHANGED <<state, attempt, session>> /\ UNCHANGED <<recover, epoch, offset, pending>>
    BY <1>3 DEF GetStateFails, subVars, linkVars
  <2> QED
    BY <1>3, <2>1, <2>2, <2>3, Same DEF GetStateFails, Types
<1> QED
  BY <1>1, <1>2, <1>3

\* A message is taken off the queue.
LEMMA ReceiveFacts ==
    ASSUME Types, NEW ops, Receives(ops)
    PROVE  /\ ConnTypes' /\ WireTypes' /\ StreamTypes' /\ BoundTypes'
           /\ session' = session /\ session \in Nat \ {0} /\ messages # <<>> /\ messages \in Seq(Answer)
           /\ Head(messages) \in Answer /\ Head(messages).op \in ops
           /\ messages' = Tail(messages)
<1>1. messages \in Seq(Answer) /\ messages # <<>> /\ messages' = Tail(messages)
  BY DEF Receives, Types, WireTypes
<1>2. Head(messages) \in Answer /\ messages' \in Seq(Answer)
  BY <1>1
<1>3. ConnTypes' /\ StreamTypes'
  BY Same DEF Receives
<1>4. WireTypes'
  BY <1>2 DEF Receives, Types, WireTypes
<1> QED
  BY <1>1, <1>2, <1>3, <1>4 DEF Receives, linkVars, Types, ConnTypes, BoundTypes

LEMMA TypeReply == ASSUME Types, ReplyArrives PROVE Types'
<1> DEFINE m == Head(messages)
<1>1. Receives({"subscribed", "unrecoverable"})
  BY DEF ReplyArrives
<1>2. /\ ConnTypes' /\ WireTypes' /\ StreamTypes' /\ BoundTypes'
      /\ session \in Nat \ {0} /\ session' = session
      /\ m \in Answer
  BY <1>1, ReceiveFacts
<1>3. FlowTypes'
  BY DEF ReplyArrives, Types, FlowTypes
<1>4. CASE MoveSubscribed(m) /\ m.op = "subscribed"
  <2>1. m.epoch \in Nat \ {0} /\ m.offset \in Nat /\ m.last \in Nat
    BY <1>2, <1>4 DEF Answer, Message
  <2>2. SubTypes'
    BY <1>2, <1>4 DEF MoveSubscribed, Types, SubTypes
  <2>3. PlaceTypes'
    BY <1>4, <2>1 DEF MoveSubscribed, Start, Types, PlaceTypes
  <2>4. HandlerTypes'
    <3> DEFINE h == [conn |-> session, session |-> attempt + 1, kind |-> "subscribed",
                     epoch |-> m.epoch, offset |-> m.offset, last |-> m.last,
                     disturbed |-> FALSE]
    <3>1. attempt + 1 \in Nat \ {0}
      BY DEF Types, SubTypes
    <3>2. h \in Handler
      BY <1>2, <2>1, <3>1 DEF Handler
    <3>3. handlers' = handlers \cup {h}
      BY <1>4 DEF MoveSubscribed
    <3> QED
      BY <3>2, <3>3 DEF Types, HandlerTypes
  <2>5. LogTypes'
    BY <1>4, <2>1 DEF MoveSubscribed, Types, LogTypes
  <2> QED
    BY <1>2, <1>3, <2>2, <2>3, <2>4, <2>5 DEF Types
<1>5. CASE recover' = FALSE /\ offset' = 0 /\ epoch' = Unknown
           /\ UNCHANGED <<state, attempt, pending, handlers, historyVars>>
  <2>1. PlaceTypes'
    BY <1>5 DEF Types, PlaceTypes, Unknown
  <2> QED
    BY <1>2, <1>3, <1>5, <2>1, Same DEF Types
<1>6. CASE UNCHANGED <<subVars, handlers, historyVars>>
  <2>1. UNCHANGED <<state, attempt, session>> /\ UNCHANGED <<recover, epoch, offset, pending>>
    BY <1>2, <1>6 DEF subVars
  <2> QED
    BY <1>2, <1>3, <1>6, <2>1, Same DEF Types
<1> QED
  BY <1>4, <1>5, <1>6 DEF ReplyArrives

LEMMA TypePublication == ASSUME Types, PublicationArrives PROVE Types'
<1> DEFINE m == Head(messages)
<1>1. Receives({"publication"})
  BY DEF PublicationArrives
<1>2. /\ ConnTypes' /\ WireTypes' /\ StreamTypes' /\ BoundTypes'
      /\ session \in Nat \ {0} /\ session' = session
      /\ m \in Answer /\ m.op = "publication"
  BY <1>1, ReceiveFacts
<1>3. m.epoch \in Nat \ {0} /\ m.offset \in Nat \ {0}
  BY <1>2 DEF Answer, Message
<1>4. SubTypes' /\ FlowTypes'
  BY <1>2, Same DEF PublicationArrives
<1>5. CASE state = "subscribed"
  <2>1. Hand(handlers, attempt, m.epoch, m.offset, 0)
    BY <1>5 DEF PublicationArrives
  <2>2. attempt \in Nat \ {0}
    BY <1>5 DEF Types, SubTypes
  <2>3. HandlerTypes' /\ pending' \in Position /\ log' \in Seq(Publication)
    BY <1>2, <1>3, <2>1, <2>2, HandType
  <2>4. PlaceTypes' /\ LogTypes'
    BY <2>3 DEF PublicationArrives, Types, PlaceTypes, LogTypes
  <2> QED
    BY <1>2, <1>4, <2>3, <2>4 DEF Types
<1>6. CASE state # "subscribed"
  <2>1. HandlerTypes' /\ PlaceTypes' /\ LogTypes'
    BY <1>6 DEF PublicationArrives, Types, PlaceTypes, LogTypes, HandlerTypes
  <2> QED
    BY <1>2, <1>4, <2>1 DEF Types
<1> QED
  BY <1>5, <1>6

LEMMA TypePushed == ASSUME Types, UnsubscribedByServer PROVE Types'
<1>1. Receives({"again", "invalidated"})
  BY DEF UnsubscribedByServer
<1>2. ConnTypes' /\ WireTypes' /\ StreamTypes' /\ BoundTypes' /\ session' = session
  BY <1>1, ReceiveFacts
<1>3. FlowTypes' /\ HandlerTypes' /\ LogTypes'
  BY Same DEF UnsubscribedByServer
<1>4. SubTypes'
  BY <1>2 DEF UnsubscribedByServer, subVars, Types, SubTypes
<1>5. PlaceTypes'
  <2>1. CASE UNCHANGED subVars
    BY <2>1, Same DEF subVars
  <2>2. CASE KeepPosition(Committed) /\ UNCHANGED recover
    BY <2>2, KeepType
  <2>3. CASE ForgetPosition /\ UNCHANGED recover
    BY <2>3, ForgetType
  <2> QED
    BY <2>1, <2>2, <2>3 DEF UnsubscribedByServer
<1> QED
  BY <1>2, <1>3, <1>4, <1>5 DEF Types

LEMMA HandlerFacts ==
    ASSUME Types, NEW h \in handlers
    PROVE  /\ h.conn \in Nat \ {0} /\ h.session \in Nat \ {0} /\ h.epoch \in Nat \ {0}
           /\ h.offset \in Nat /\ h.last \in Nat /\ h.kind \in {"subscribed", "publication"}
           /\ h.disturbed \in BOOLEAN
BY DEF Types, HandlerTypes, Handler

\* A handler that raises leaves the position: nothing is pending then.
LEMMA RaisesKeep == HandlerRaises => UNCHANGED offset
BY DEF HandlerRaises, EndsWith, AfterFailure, NotPending

LEMMA TypeHandlers == ASSUME Types, HandlerReturns \/ HandlerRaises PROVE Types'
<1>1. CASE HandlerReturns
  <2>1. PICK h \in handlers : HandlerReturns!(h)
    BY <1>1 DEF HandlerReturns
  <2>2. ConnTypes' /\ SubTypes' /\ FlowTypes' /\ WireTypes' /\ StreamTypes' /\ BoundTypes'
    BY <2>1, Same DEF linkVars
  <2>3. offset' \in Nat
    BY <2>1, HandlerFacts DEF Types, PlaceTypes
  <2>4. CASE MoreRecovered(h)
    <3>0. session # 0
      BY <2>4 DEF MoreRecovered, SessionCurrent, Types, SubTypes
    <3>1. Hand(handlers \ {h}, h.session, h.epoch, h.offset + 1, h.last)
      BY <2>1, <2>4
    <3>2. HandlerTypes' /\ pending' \in Position /\ log' \in Seq(Publication)
      BY <3>0, <3>1, HandlerFacts, HandType
    <3> QED
      BY <2>1, <2>2, <2>3, <3>2 DEF Types, PlaceTypes, LogTypes
  <2>5. CASE ~MoreRecovered(h)
    <3>1. HandlerTypes' /\ pending' \in Position
      BY <2>1, <2>5 DEF Types, HandlerTypes, PlaceTypes, Position, NotPending
    <3> QED
      BY <2>1, <2>2, <2>3, <2>5, <3>1 DEF Types, PlaceTypes, LogTypes
  <2> QED
    BY <2>4, <2>5
<1>2. CASE HandlerRaises
  <2>1. ConnTypes' /\ SubTypes' /\ FlowTypes' /\ WireTypes'
    <3>1. CASE session # 0
      <4>1. CloseConnection /\ UNCHANGED get_state
        BY <1>2, <3>1 DEF HandlerRaises
      <4> QED
        BY <1>2, <4>1, CloseType DEF HandlerRaises
    <3>2. CASE session = 0
      <4>1. UNCHANGED <<transport_id, session, get_state>> /\ stopped' \in BOOLEAN
        BY <1>2, <3>2 DEF HandlerRaises
      <4>2. UNCHANGED <<commands, messages, held>> /\ UNCHANGED flows
            /\ UNCHANGED <<state, attempt, session>>
        BY <1>2, <3>2 DEF HandlerRaises
      <4> QED
        BY <4>1, <4>2, Same
    <3> QED
      BY <3>1, <3>2
  <2>2. HandlerTypes'
    <3>1. \A g \in Handler : [g EXCEPT !.disturbed = TRUE] \in Handler
      BY DEF Handler
    <3> QED
      BY <1>2, <3>1 DEF HandlerRaises, Types, HandlerTypes
  <2>3. PlaceTypes'
    BY <1>2, RaisesKeep DEF HandlerRaises, Types, PlaceTypes, Position, NotPending
  <2>4. BoundTypes' /\ StreamTypes' /\ LogTypes'
    BY <1>2 DEF HandlerRaises, Types, BoundTypes, StreamTypes, streamVars, LogTypes
  <2> QED
    BY <2>1, <2>2, <2>3, <2>4 DEF Types
<1> QED
  BY <1>1, <1>2

LEMMA TypeServer ==
    ASSUME Types,
           ServerSubscribes \/ ServerUnsubscribes \/ Publish \/ ServerPushes \/ HistoryLost
    PROVE  Types'
<1>0. /\ stream_epoch \in Nat \ {0} /\ top \in Nat /\ trimmed \in 0..top /\ published \in Nat
      /\ commands \in Seq(Command) /\ messages \in Seq(Answer) /\ held \in BOOLEAN
  BY DEF Types, StreamTypes, WireTypes
<1>1. CASE ServerSubscribes
  <2> DEFINE c == Head(commands)
  <2>1. commands' \in Seq(Command) /\ c \in Command
    BY <1>0, <1>1 DEF ServerSubscribes
  <2>2. c.attempt \in Nat /\ c.offset \in Nat
    BY <2>1 DEF Command
  <2>3. messages' \in Seq(Answer) /\ held' \in BOOLEAN
    <3>1. CASE Deliver("subscribed", c.attempt, stream_epoch, c.offset, top, TRUE) /\ held' = TRUE
      BY <1>0, <2>2, <3>1, DeliverType
    <3>2. CASE Deliver("unrecoverable", c.attempt, Unknown, 0, 0, FALSE) /\ UNCHANGED held
      BY <1>0, <2>2, <3>2, DeliverType DEF Unknown
    <3>3. CASE Deliver("subscribed", c.attempt, stream_epoch, top, top, FALSE) /\ held' = TRUE
      BY <1>0, <2>2, <3>3, DeliverType
    <3> QED
      BY <1>1, <3>1, <3>2, <3>3 DEF ServerSubscribes
  <2>4. WireTypes'
    BY <2>1, <2>3 DEF WireTypes
  <2>5. SubTypes' /\ PlaceTypes' /\ ConnTypes'
    BY <1>1, Same DEF ServerSubscribes, subVars, linkVars
  <2> QED
    BY <1>1, <2>4, <2>5, Same DEF ServerSubscribes, Types
<1>2. CASE ServerUnsubscribes
  <2>1. commands # <<>> /\ commands' = Tail(commands) /\ held' = FALSE /\ messages' = messages
    BY <1>2 DEF ServerUnsubscribes
  <2>2. WireTypes'
    <3>1. commands' \in Seq(Command)
      BY <1>0, <2>1
    <3> QED
      BY <1>0, <2>1, <3>1 DEF WireTypes
  <2>3. SubTypes' /\ PlaceTypes' /\ ConnTypes'
    BY <1>2, Same DEF ServerUnsubscribes, subVars, linkVars
  <2> QED
    BY <1>2, <2>2, <2>3, Same DEF ServerUnsubscribes, Types
<1>3. CASE Publish
  <2>1. top + 1 \in Nat /\ top + 1 # 0
    BY <1>0
  <2>2. messages' \in Seq(Answer)
    BY <1>0, <1>3, <2>1, DeliverType DEF Publish
  <2>3. WireTypes'
    BY <1>0, <1>3, <2>2 DEF Publish, WireTypes
  <2>4. StreamTypes'
    BY <1>0, <1>3 DEF Publish, StreamTypes
  <2>5. SubTypes' /\ PlaceTypes' /\ ConnTypes'
    BY <1>3, Same DEF Publish, subVars, linkVars
  <2> QED
    BY <1>3, <2>3, <2>4, <2>5, Same DEF Publish, Types
<1>4. CASE ServerPushes
  <2>1. \E op \in {"again", "invalidated"} : Deliver(op, 0, Unknown, 0, 0, FALSE)
    BY <1>4 DEF ServerPushes
  <2>2. messages' \in Seq(Answer)
    BY <2>1, DeliverType DEF Unknown
  <2>3. commands' = commands /\ held' = FALSE
    BY <1>4 DEF ServerPushes
  <2>4. WireTypes'
    BY <1>0, <2>2, <2>3 DEF WireTypes
  <2>5. StreamTypes'
    <3>1. \/ UNCHANGED streamVars
          \/ stream_epoch' = stream_epoch + 1 /\ top' = 0 /\ trimmed' = 0 /\ UNCHANGED published
      BY <1>4 DEF ServerPushes
    <3> QED
      BY <1>0, <3>1, Same DEF StreamTypes
  <2>6. SubTypes' /\ PlaceTypes' /\ ConnTypes'
    BY <1>4, Same DEF ServerPushes, subVars, linkVars
  <2>7. BoundTypes'
    BY <1>4, FaultType DEF ServerPushes, Types, BoundTypes
  <2> QED
    BY <1>4, <2>4, <2>5, <2>6, <2>7, Same DEF ServerPushes, Types
<1>5. CASE HistoryLost
  <2>1. StreamTypes'
    BY <1>0, <1>5 DEF HistoryLost, StreamTypes
  <2>2. SubTypes' /\ PlaceTypes' /\ ConnTypes'
    BY <1>5, Same DEF HistoryLost, subVars, linkVars
  <2>3. BoundTypes'
    BY <1>5, FaultType DEF HistoryLost, Types, BoundTypes
  <2> QED
    BY <1>5, <2>1, <2>2, <2>3, Same DEF HistoryLost, Types
<1> QED
  BY <1>1, <1>2, <1>3, <1>4, <1>5

LEMMA TypeInit == Init => Types
<1> SUFFICES ASSUME Init PROVE Types
  OBVIOUS
<1>1. ConnTypes /\ SubTypes /\ PlaceTypes
  <2>1. stopped \in BOOLEAN /\ get_state \in BOOLEAN
    BY ConfigAssumption DEF Init
  <2>2. transport_id \in Nat \ {0} /\ session \in {0, transport_id}
    BY DEF Init
  <2>3. SubTypes
    BY DEF Init, SubTypes
  <2>4. recover \in BOOLEAN /\ epoch \in Nat /\ offset \in Nat
    BY DEF Init, Unknown
  <2>5. pending \in Position
    BY DEF Init, Position, NotPending
  <2> QED
    BY <2>1, <2>2, <2>3, <2>4, <2>5 DEF ConnTypes, PlaceTypes
<1>2. FlowTypes /\ HandlerTypes
  BY DEF Init, FlowTypes, HandlerTypes
<1>3. WireTypes
  <2>1. <<>> \in Seq(Command) /\ <<>> \in Seq(Answer) /\ FALSE \in BOOLEAN
    OBVIOUS
  <2>2. commands = <<>> /\ messages = <<>> /\ held = FALSE
    BY DEF Init
  <2> QED
    BY <2>1, <2>2 DEF WireTypes
<1>4. StreamTypes /\ LogTypes
  <2>1. StreamTypes
    BY DEF Init, StreamTypes
  <2>2. <<>> \in Seq(Publication)
    OBVIOUS
  <2>3. log = <<>> /\ origin = 0
    BY DEF Init
  <2> QED
    BY <2>1, <2>2, <2>3 DEF LogTypes
<1>5. BoundTypes
  <2>1. MaxCalls \in Nat /\ MaxFaults \in Nat /\ MaxRaises \in Nat
    BY BoundsAssumption
  <2> QED
    BY <2>1 DEF Init, BoundTypes
<1> QED
  BY <1>1, <1>2, <1>3, <1>4, <1>5 DEF Types

LEMMA TypeStep == Types /\ [Next]_vars => Types'
<1>1. ASSUME Types, UNCHANGED vars PROVE Types'
  <2>1. /\ UNCHANGED linkVars /\ UNCHANGED <<state, attempt, session>>
        /\ UNCHANGED <<recover, epoch, offset, pending>> /\ UNCHANGED <<commands, messages, held>>
    BY <1>1 DEF vars, linkVars, subVars
  <2>2. UNCHANGED <<flows, handlers, streamVars, historyVars, calls, faults, raises>>
    BY <1>1 DEF vars
  <2> QED
    BY <1>1, <2>1, <2>2, Same DEF Types
<1>2. ASSUME Types, Next PROVE Types'
  BY <1>2, TypeApplication, TypeConnection, TypeFlows, TypeReply, TypePublication, TypePushed,
     TypeHandlers, TypeServer DEF Next, Wire, Server
<1> QED
  BY <1>1, <1>2

\* Every variable of the subscription, its stream and its messages keeps its type.
THEOREM PositionTypes == Spec => []Types
BY TypeInit, TypeStep, PTL DEF Spec

\* The types of StreamPositions hold in every state of every run.
THEOREM PositionTypeOK == Spec => []TypeOK
BY PositionTypes, TypesGiveTypeOK, PTL

-----------------------------------------------------------------------------
(***************************************************************************)
(* Attempt numbers: a flow, a command with its reply, and a session have   *)
(* each their own, and what has the present one is the last on its way.    *)
(***************************************************************************)

Replies == {"subscribed", "unrecoverable"}
Pushes == {"again", "invalidated"}

Sent(i) == commands[i].op = "subscribe" /\ commands[i].attempt = attempt
Answered(i) == messages[i].op \in Replies /\ messages[i].attempt = attempt

FlowNumbers ==
    /\ \A f \in flows : f.attempt <= attempt
    /\ \A f, g \in flows : f.attempt = g.attempt => f = g

SessionNumbers ==
    /\ \A h \in handlers : h.session <= attempt
    /\ pending.session <= attempt

WireNumbers ==
    /\ \A i \in 1..Len(commands) : commands[i].op = "subscribe" => commands[i].attempt <= attempt
    /\ \A i \in 1..Len(messages) : messages[i].op \in Replies => messages[i].attempt <= attempt

\* A flow in get_state has sent nothing.
Unsent ==
    \A f \in flows : f.pc = "getState" =>
        /\ f.attempt = attempt => state = "subscribing"
        /\ \A i \in 1..Len(commands) : commands[i].op = "subscribe"
                                       => commands[i].attempt # f.attempt
        /\ \A i \in 1..Len(messages) : messages[i].op \in Replies
                                       => messages[i].attempt # f.attempt

SentLast ==
    \A i \in 1..Len(commands) : Sent(i) => i = Len(commands) /\ state = "subscribing"

AnsweredLast ==
    \A i \in 1..Len(messages) : Answered(i) =>
        /\ commands = <<>> /\ state = "subscribing"
        /\ \A j \in (i + 1)..Len(messages) : messages[j].op \notin Replies

SubscribedLast == state = "subscribed" => commands = <<>>

Orderly ==
    /\ FlowNumbers /\ SessionNumbers /\ WireNumbers
    /\ Unsent /\ SentLast /\ AnsweredLast /\ SubscribedLast

LEMMA Facts ==
    ASSUME Types
    PROVE  /\ attempt \in Nat /\ pending.session \in Nat /\ pending.offset \in Nat
           /\ epoch \in Nat /\ offset \in Nat /\ origin \in Nat
           /\ stream_epoch \in Nat \ {0} /\ top \in Nat /\ trimmed \in 0..top
           /\ flows \subseteq Flow /\ \A f \in flows : f.attempt \in Nat \ {0} /\ f.conn \in Nat \ {0}
           /\ \A h \in handlers : h.session \in Nat
           /\ commands \in Seq(Command) /\ messages \in Seq(Answer)
           /\ Len(commands) \in Nat /\ Len(messages) \in Nat
           /\ \A i \in 1..Len(commands) : commands[i] \in Command /\ commands[i].attempt \in Nat
           /\ \A i \in 1..Len(messages) : messages[i] \in Answer /\ messages[i].attempt \in Nat
<1> USE DEF Types
<1>1. /\ attempt \in Nat /\ epoch \in Nat /\ offset \in Nat /\ origin \in Nat
      /\ stream_epoch \in Nat \ {0} /\ top \in Nat /\ trimmed \in 0..top
  BY DEF SubTypes, PlaceTypes, LogTypes, StreamTypes
<1>2. pending.session \in Nat /\ pending.offset \in Nat
  BY DEF PlaceTypes, Position
<1>3. flows \subseteq Flow /\ \A f \in flows : f.attempt \in Nat \ {0} /\ f.conn \in Nat \ {0}
  BY DEF FlowTypes, Flow
<1>4. \A h \in handlers : h.session \in Nat
  BY DEF HandlerTypes, Handler
<1>5. /\ commands \in Seq(Command) /\ messages \in Seq(Answer)
      /\ Len(commands) \in Nat /\ Len(messages) \in Nat
      /\ \A i \in 1..Len(commands) : commands[i] \in Command
      /\ \A i \in 1..Len(messages) : messages[i] \in Answer
  BY DEF WireTypes
<1>6. \A c \in Command : c.attempt \in Nat
  BY DEF Command
<1>7. \A m \in Answer : m.attempt \in Nat
  BY DEF Answer, Message
<1> QED
  BY <1>1, <1>2, <1>3, <1>4, <1>5, <1>6, <1>7

\* Nothing new on the wire: what is left is what was there, maybe one place ahead.
NoNewCommand ==
    \E d \in {0, 1} : \A i \in 1..Len(commands') : commands'[i].op = "subscribe" =>
        i + d \in 1..Len(commands) /\ commands'[i] = commands[i + d]
NoNewReply ==
    \E d \in {0, 1} : \A i \in 1..Len(messages') : messages'[i].op \in Replies =>
        i + d \in 1..Len(messages) /\ messages'[i] = messages[i + d]

\* The present attempt is over.
LEMMA NumberLeft ==
    ASSUME Types, Orderly, attempt' = attempt + 1, flows' \subseteq flows,
           NoNewCommand, NoNewReply, SessionNumbers', state' = "subscribed" => commands' = <<>>
    PROVE  Orderly'
<1>1. FlowNumbers'
  BY Facts DEF Orderly, FlowNumbers
<1>2. /\ \A i \in 1..Len(commands') : commands'[i].op = "subscribe" =>
            \E j \in 1..Len(commands) : commands'[i] = commands[j]
      /\ \A i \in 1..Len(messages') : messages'[i].op \in Replies =>
            \E j \in 1..Len(messages) : messages'[i] = messages[j]
  BY DEF NoNewCommand, NoNewReply
<1>3. /\ \A i \in 1..Len(commands') : commands'[i].op = "subscribe"
                                      => commands'[i].attempt <= attempt
      /\ \A i \in 1..Len(messages') : messages'[i].op \in Replies
                                      => messages'[i].attempt <= attempt
  BY <1>2 DEF Orderly, WireNumbers
<1>4. WireNumbers'
  <2>1. \A n \in Nat : n <= attempt => n <= attempt'
    BY Facts
  <2>2. /\ \A i \in 1..Len(commands') : commands'[i].op = "subscribe"
                                        => commands'[i].attempt \in Nat
        /\ \A i \in 1..Len(messages') : messages'[i].op \in Replies
                                        => messages'[i].attempt \in Nat
    BY <1>2, Facts
  <2> QED
    BY <1>3, <2>1, <2>2 DEF WireNumbers
<1>5. Unsent'
  <2>1. \A f \in flows' : f.attempt # attempt'
    BY Facts DEF Orderly, FlowNumbers
  <2> QED
    BY <1>2, <2>1 DEF Orderly, Unsent
<1>6. SentLast' /\ AnsweredLast'
  <2>1. ~(attempt' <= attempt)
    BY Facts
  <2> QED
    BY <1>3, <2>1 DEF SentLast, AnsweredLast, Sent, Answered
<1> QED
  BY <1>1, <1>4, <1>5, <1>6 DEF Orderly, SubscribedLast

\* The attempt goes on, and nothing new is on the wire.
LEMMA NumberStays ==
    ASSUME Types, Orderly, attempt' = attempt, flows' \subseteq flows,
           state = "subscribing" => state' = "subscribing",
           state' = "subscribed" => state = "subscribed",
           \/ UNCHANGED commands
           \/ commands' = <<>>
           \/ commands # <<>> /\ commands' = Tail(commands),
           NoNewReply, SessionNumbers'
    PROVE  Orderly'
<1>1. FlowNumbers'
  BY DEF Orderly, FlowNumbers
<1>2. PICK d \in {0, 1} : \A i \in 1..Len(commands') :
          /\ i + d \in 1..Len(commands) /\ commands'[i] = commands[i + d]
          /\ i + d = Len(commands) => i = Len(commands')
  <2>1. CASE UNCHANGED commands
    BY <2>1
  <2>2. CASE commands' = <<>>
    BY <2>2
  <2>3. CASE commands # <<>> /\ commands' = Tail(commands)
    <3>1. /\ Len(commands') = Len(commands) - 1
          /\ \A i \in 1..Len(commands') : commands'[i] = commands[i + 1]
      BY <2>3, Facts
    <3> QED
      BY <3>1, Facts
  <2> QED
    BY <2>1, <2>2, <2>3
<1>3. commands = <<>> => commands' = <<>>
  BY Facts
<1>4. PICK e \in {0, 1} : \A i \in 1..Len(messages') : messages'[i].op \in Replies =>
          i + e \in 1..Len(messages) /\ messages'[i] = messages[i + e]
  BY DEF NoNewReply
<1>5. WireNumbers'
  BY <1>2, <1>4 DEF Orderly, WireNumbers
<1>6. Unsent'
  <2>1. \A f \in flows' : f.pc = "getState" =>
          \A i \in 1..Len(commands') : commands'[i].op = "subscribe"
                                       => commands'[i].attempt # f.attempt
    BY <1>2 DEF Orderly, Unsent
  <2>2. \A f \in flows' : f.pc = "getState" =>
          \A i \in 1..Len(messages') : messages'[i].op \in Replies
                                       => messages'[i].attempt # f.attempt
    BY <1>4 DEF Orderly, Unsent
  <2>3. \A f \in flows' : f.pc = "getState" /\ f.attempt = attempt' => state' = "subscribing"
    BY DEF Orderly, Unsent
  <2> QED
    BY <2>1, <2>2, <2>3 DEF Unsent
<1>7. SentLast'
  BY <1>2 DEF Orderly, SentLast, Sent
<1>8. AnsweredLast'
  <2> SUFFICES ASSUME NEW i \in 1..Len(messages'), Answered(i)'
               PROVE  /\ commands' = <<>> /\ state' = "subscribing"
                      /\ \A j \in (i + 1)..Len(messages') : messages'[j].op \notin Replies
    BY DEF AnsweredLast
  <2>1. i + e \in 1..Len(messages) /\ Answered(i + e)
    BY <1>4 DEF Answered
  <2>2. /\ commands = <<>> /\ state = "subscribing"
        /\ \A j \in (i + e + 1)..Len(messages) : messages[j].op \notin Replies
    BY <2>1 DEF Orderly, AnsweredLast
  <2>3. ASSUME NEW j \in (i + 1)..Len(messages'), messages'[j].op \in Replies PROVE FALSE
    <3>1. j \in 1..Len(messages')
      BY <2>3
    <3>2. j + e \in 1..Len(messages) /\ messages'[j] = messages[j + e]
      BY <1>4, <2>3, <3>1
    <3>3. j + e \in (i + e + 1)..Len(messages)
      BY <3>2, <2>3
    <3> QED
      BY <2>2, <2>3, <3>2, <3>3
  <2> QED
    BY <1>3, <2>2, <2>3
<1>9. SubscribedLast'
  BY <1>3 DEF Orderly, SubscribedLast
<1> QED
  BY <1>1, <1>5, <1>6, <1>7, <1>8, <1>9 DEF Orderly

LEMMA CommandsKept ==
    ASSUME Types
    PROVE  /\ UNCHANGED commands => NoNewCommand
           /\ commands' = <<>> => NoNewCommand
           /\ commands # <<>> /\ commands' = Tail(commands) => NoNewCommand
           /\ \A c \in Command : c.op # "subscribe" /\ commands' = Append(commands, c)
                                 => NoNewCommand
<1>1. ASSUME UNCHANGED commands \/ commands' = <<>> PROVE NoNewCommand
  <2>1. \A i \in 1..Len(commands') : i + 0 \in 1..Len(commands) /\ commands'[i] = commands[i + 0]
    BY <1>1, Facts
  <2> QED
    BY <2>1 DEF NoNewCommand
<1>2. ASSUME commands # <<>>, commands' = Tail(commands) PROVE NoNewCommand
  <2>1. \A i \in 1..Len(commands') : i + 1 \in 1..Len(commands) /\ commands'[i] = commands[i + 1]
    BY <1>2, Facts
  <2> QED
    BY <2>1 DEF NoNewCommand
<1>3. ASSUME NEW c \in Command, c.op # "subscribe", commands' = Append(commands, c)
      PROVE  NoNewCommand
  <2>1. \A i \in 1..Len(commands') : commands'[i].op = "subscribe" =>
            i + 0 \in 1..Len(commands) /\ commands'[i] = commands[i + 0]
    BY <1>3, Facts
  <2> QED
    BY <2>1 DEF NoNewCommand
<1> QED
  BY <1>1, <1>2, <1>3

LEMMA MessagesKept ==
    ASSUME Types
    PROVE  /\ UNCHANGED messages => NoNewReply
           /\ messages' = <<>> => NoNewReply
           /\ messages # <<>> /\ messages' = Tail(messages) => NoNewReply
           /\ \A m : m.op \notin Replies /\ messages' = Append(messages, m) => NoNewReply
<1>1. ASSUME UNCHANGED messages \/ messages' = <<>> PROVE NoNewReply
  <2>1. \A i \in 1..Len(messages') : i + 0 \in 1..Len(messages) /\ messages'[i] = messages[i + 0]
    BY <1>1, Facts
  <2> QED
    BY <2>1 DEF NoNewReply
<1>2. ASSUME messages # <<>>, messages' = Tail(messages) PROVE NoNewReply
  <2>1. \A i \in 1..Len(messages') : i + 1 \in 1..Len(messages) /\ messages'[i] = messages[i + 1]
    BY <1>2, Facts
  <2> QED
    BY <2>1 DEF NoNewReply
<1>3. ASSUME NEW m, m.op \notin Replies, messages' = Append(messages, m) PROVE NoNewReply
  <2>1. \A i \in 1..Len(messages') : messages'[i].op \in Replies =>
            i + 0 \in 1..Len(messages) /\ messages'[i] = messages[i + 0]
    BY <1>3, Facts
  <2> QED
    BY <2>1 DEF NoNewReply
<1> QED
  BY <1>1, <1>2, <1>3

\* A subscribe command goes out.
SubscribeCommand(i, r, e, o) ==
    [op |-> "subscribe", attempt |-> i, recover |-> r, epoch |-> IF r THEN e ELSE Unknown,
     offset |-> IF r THEN o ELSE 0]

LEMMA SubscribeFacts ==
    ASSUME Types, NEW i, NEW r, NEW e, NEW o, SendSubscribe(i, r, e, o)
    PROVE  /\ Len(commands') = Len(commands) + 1
           /\ \A j \in 1..Len(commands) : commands'[j] = commands[j]
           /\ commands'[Len(commands')] = SubscribeCommand(i, r, e, o)
           /\ \A j \in 1..Len(commands') : j \in 1..Len(commands) \/ j = Len(commands')
           /\ SubscribeCommand(i, r, e, o).attempt = i
<1>1. commands' = Append(commands, SubscribeCommand(i, r, e, o))
  BY DEF SendSubscribe, Send, SubscribeCommand
<1>2. SubscribeCommand(i, r, e, o).attempt = i
  BY DEF SubscribeCommand
<1> HIDE DEF SubscribeCommand
<1> QED
  BY <1>1, <1>2, Facts

LEMMA NumberUnsubscribe == ASSUME Types, Orderly, Unsubscribe PROVE Orderly'
<1>1. /\ attempt' = attempt + 1 /\ flows' = flows /\ messages' = messages
      /\ handlers' = handlers /\ state' # "subscribed"
  BY DEF Unsubscribe
<1>2. NoNewCommand
  <2>1. UNCHANGED commands \/ Send("unsubscribe", 0, FALSE, Unknown, 0)
    BY DEF Unsubscribe
  <2>2. [op |-> "unsubscribe", attempt |-> 0, recover |-> FALSE, epoch |-> Unknown,
         offset |-> 0] \in Command
    BY DEF Command, Unknown
  <2> QED
    BY <2>1, <2>2, CommandsKept DEF Send
<1>3. pending' \in {pending, NotPending}
  BY DEF Unsubscribe, KeepPosition
<1>4. SessionNumbers'
  BY <1>1, <1>3, Facts DEF Orderly, SessionNumbers, NotPending
<1>5. NoNewReply
  BY <1>1, MessagesKept
<1> QED
  BY <1>1, <1>2, <1>4, <1>5, NumberLeft

\* The connection is closed: the wire is empty, and a subscribed session is over.
LEMMA NumberClose ==
    ASSUME Types, Orderly, CloseConnection, pending' \in {pending, NotPending},
           \A h \in handlers' : \E g \in handlers : g.session = h.session
    PROVE  Orderly'
<1>1. /\ commands' = <<>> /\ messages' = <<>> /\ flows' \subseteq flows
      /\ attempt' \in {attempt, attempt + 1} /\ state' # "subscribed"
      /\ attempt' = attempt => state' = state
  BY Facts DEF CloseConnection
<1>2. SessionNumbers'
  <2>1. \A h \in handlers' : h.session <= attempt /\ h.session \in Nat
    BY Facts DEF Orderly, SessionNumbers
  <2>2. pending'.session <= attempt /\ pending'.session \in Nat
    BY Facts DEF Orderly, SessionNumbers, NotPending
  <2> QED
    BY <1>1, <2>1, <2>2, Facts DEF SessionNumbers
<1>3. NoNewCommand /\ NoNewReply
  BY <1>1, CommandsKept, MessagesKept
<1> QED
  BY <1>1, <1>2, <1>3, NumberLeft, NumberStays

LEMMA NumberStartFlow == ASSUME Types, Orderly, StartFlow PROVE Orderly'
<1>1. /\ attempt' = attempt + 1 /\ state = "subscribing" /\ state' = state
      /\ messages' = messages /\ handlers' = handlers /\ pending' = pending
  BY DEF StartFlow, NextAttempt
<1>2. PICK f : /\ flows' = flows \cup {f} /\ f.attempt = attempt + 1
               /\ \/ UNCHANGED commands
                  \/ f.pc = "reply" /\ SendSubscribe(attempt + 1, recover, epoch, offset)
  <2> DEFINE f == [conn |-> session, attempt |-> NextAttempt, pc |-> "reply"]
             g == [f EXCEPT !.pc = "getState"]
  <2>1. f.attempt = attempt + 1 /\ f.pc = "reply" /\ g.attempt = attempt + 1
    BY DEF NextAttempt
  <2>2. \/ flows' = flows \cup {g} /\ UNCHANGED commands
        \/ flows' = flows \cup {f} /\ SendSubscribe(attempt + 1, recover, epoch, offset)
    BY DEF StartFlow, NextAttempt
  <2> HIDE DEF f, g
  <2> QED
    BY <2>1, <2>2
<1>3. SessionNumbers'
  BY <1>1, Facts DEF Orderly, SessionNumbers
<1>4. FlowNumbers'
  BY <1>1, <1>2, Facts DEF Orderly, FlowNumbers
<1>5. \A i \in 1..Len(commands') : commands'[i].op = "subscribe" =>
          \/ i \in 1..Len(commands) /\ commands'[i] = commands[i]
          \/ i = Len(commands') /\ commands'[i].attempt = attempt + 1 /\ f.pc = "reply"
  <2>1. CASE UNCHANGED commands
    BY <2>1
  <2>2. CASE f.pc = "reply" /\ SendSubscribe(attempt + 1, recover, epoch, offset)
    BY <2>2, SubscribeFacts
  <2> QED
    BY <1>2, <2>1, <2>2
<1>6. WireNumbers'
  <2>1. \A i \in 1..Len(commands') : commands'[i].op = "subscribe"
                                     => commands'[i].attempt <= attempt'
    <3>1. \A i \in 1..Len(commands) : commands[i].op = "subscribe"
                                      => commands[i].attempt <= attempt + 1
      BY Facts DEF Orderly, WireNumbers
    <3>2. attempt + 1 <= attempt + 1
      BY Facts
    <3> QED
      BY <1>1, <1>5, <3>1, <3>2
  <2>2. \A i \in 1..Len(messages) : messages[i].op \in Replies
                                    => messages[i].attempt <= attempt + 1
    BY Facts DEF Orderly, WireNumbers
  <2> QED
    BY <1>1, <2>1, <2>2 DEF WireNumbers
<1>7. Unsent'
  <2> SUFFICES ASSUME NEW g \in flows', g.pc = "getState"
               PROVE  /\ \A i \in 1..Len(commands') : commands'[i].op = "subscribe"
                                                      => commands'[i].attempt # g.attempt
                      /\ \A i \in 1..Len(messages) : messages[i].op \in Replies
                                                     => messages[i].attempt # g.attempt
    BY <1>1 DEF Unsent
  <2>1. CASE g \in flows
    <3>1. g.attempt # attempt + 1
      BY <2>1, Facts DEF Orderly, FlowNumbers
    <3> QED
      BY <1>5, <2>1, <3>1 DEF Orderly, Unsent
  <2>2. CASE g = f
    <3>1. \A n \in Nat : n <= attempt => n # g.attempt
      BY <1>2, <2>2, Facts
    <3> QED
      BY <1>5, <2>2, <3>1, Facts DEF Orderly, WireNumbers
  <2> QED
    BY <1>2, <2>1, <2>2
<1>8. SentLast'
  <2>1. \A i \in 1..Len(commands) : commands[i].op = "subscribe"
                                    => commands[i].attempt # attempt + 1
    BY Facts DEF Orderly, WireNumbers
  <2> QED
    BY <1>1, <1>5, <2>1 DEF SentLast, Sent
<1>9. AnsweredLast'
  BY <1>1, Facts DEF Orderly, WireNumbers, AnsweredLast, Answered
<1> QED
  BY <1>1, <1>3, <1>4, <1>6, <1>7, <1>8, <1>9 DEF Orderly, SubscribedLast

LEMMA NumberGetState == ASSUME Types, Orderly, GetStateReturns PROVE Orderly'
<1>1. PICK f \in flows, o \in 0..top : GetStateReturns!(f, o)
  BY DEF GetStateReturns
<1>2. /\ attempt' = attempt /\ state' = state /\ messages' = messages
      /\ handlers' = handlers /\ pending' = pending /\ f.pc = "getState"
  BY <1>1
<1>3. SessionNumbers'
  BY <1>2 DEF Orderly, SessionNumbers
<1>4. CASE flows' = flows \ {f} /\ UNCHANGED commands
  BY <1>2, <1>3, <1>4, NumberStays, MessagesKept
<1>5. CASE /\ Loads(f) /\ flows' = (flows \ {f}) \cup {[f EXCEPT !.pc = "reply"]}
           /\ SendSubscribe(f.attempt, TRUE, stream_epoch, o)
  <2> DEFINE g == [f EXCEPT !.pc = "reply"]
  <2>1. g.attempt = f.attempt /\ g.pc = "reply" /\ f.attempt = attempt /\ state = "subscribing"
    BY <1>5, Facts DEF Loads, Flow
  <2>2. flows' = (flows \ {f}) \cup {g} /\ SendSubscribe(attempt, TRUE, stream_epoch, o)
    BY <1>5, <2>1
  <2> HIDE DEF g
  <2>3. FlowNumbers'
    BY <1>2, <2>1, <2>2 DEF Orderly, FlowNumbers
  <2>4. \A i \in 1..Len(commands') : commands'[i].op = "subscribe" =>
            \/ i \in 1..Len(commands) /\ commands'[i] = commands[i]
            \/ i = Len(commands') /\ commands'[i].attempt = attempt
    BY <2>2, SubscribeFacts
  <2>5. WireNumbers'
    <3>1. attempt <= attempt
      BY Facts
    <3> QED
      BY <1>2, <2>4, <3>1 DEF Orderly, WireNumbers
  <2>6. Unsent'
    <3> SUFFICES ASSUME NEW h \in flows', h.pc = "getState"
                 PROVE  /\ h.attempt = attempt => state = "subscribing"
                        /\ \A i \in 1..Len(commands') : commands'[i].op = "subscribe"
                                                        => commands'[i].attempt # h.attempt
                        /\ \A i \in 1..Len(messages) : messages[i].op \in Replies
                                                       => messages[i].attempt # h.attempt
      BY <1>2 DEF Unsent
    <3>1. h \in flows /\ h # f
      BY <2>1, <2>2
    <3>2. h.attempt # attempt
      BY <2>1, <3>1 DEF Orderly, FlowNumbers
    <3> QED
      BY <2>4, <3>1, <3>2 DEF Orderly, Unsent
  <2>7. \A i \in 1..Len(commands) : commands[i].op = "subscribe" => commands[i].attempt # attempt
    BY <1>2, <2>1 DEF Orderly, Unsent
  <2>8. \A i \in 1..Len(messages) : messages[i].op \in Replies => messages[i].attempt # attempt
    BY <1>2, <2>1 DEF Orderly, Unsent
  <2>9. SentLast'
    BY <1>2, <2>1, <2>4, <2>7 DEF SentLast, Sent
  <2>10. AnsweredLast'
    BY <1>2, <2>8 DEF AnsweredLast, Answered
  <2> QED
    BY <1>2, <1>3, <2>1, <2>3, <2>5, <2>6, <2>9, <2>10 DEF Orderly, SubscribedLast
<1> QED
  BY <1>1, <1>4, <1>5

LEMMA NumberReply == ASSUME Types, Orderly, ReplyArrives PROVE Orderly'
<1> DEFINE m == Head(messages)
<1>1. /\ messages # <<>> /\ messages' = Tail(messages) /\ m.op \in Replies /\ m = messages[1]
      /\ 1 \in 1..Len(messages) /\ NoNewReply /\ commands' = commands
  <2>1. Receives({"subscribed", "unrecoverable"})
    BY DEF ReplyArrives
  <2> QED
    BY <2>1, ReceiveFacts, MessagesKept DEF Receives, Replies
<1>2. flows' \subseteq flows
  BY DEF ReplyArrives
<1>3. CASE attempt = m.attempt /\ MoveSubscribed(m)
  <2>1. commands = <<>>
    BY <1>1, <1>3 DEF Orderly, AnsweredLast, Answered
  <2>2. attempt' = attempt + 1 /\ pending' = pending
    BY <1>3 DEF MoveSubscribed
  <2>3. SessionNumbers'
    <3>1. \A h \in handlers' : h \in handlers \/ h.session = attempt + 1
      BY <1>3 DEF MoveSubscribed
    <3>2. attempt + 1 <= attempt + 1
      BY Facts
    <3>3. (\A h \in handlers : h.session <= attempt + 1) /\ pending.session <= attempt + 1
      BY Facts DEF Orderly, SessionNumbers
    <3> QED
      BY <2>2, <3>1, <3>2, <3>3 DEF SessionNumbers
  <2>4. NoNewCommand
    BY <1>1, CommandsKept
  <2> QED
    BY <1>1, <1>2, <2>1, <2>2, <2>3, <2>4, NumberLeft
<1>4. CASE UNCHANGED <<state, attempt, pending, handlers>>
  <2>1. SessionNumbers'
    BY <1>4 DEF Orderly, SessionNumbers
  <2> QED
    BY <1>1, <1>2, <1>4, <2>1, NumberStays
<1> QED
  BY <1>3, <1>4 DEF ReplyArrives, subVars

LEMMA NumberPushed == ASSUME Types, Orderly, UnsubscribedByServer PROVE Orderly'
<1>1. /\ NoNewReply /\ NoNewCommand /\ commands' = commands
      /\ flows' = flows /\ handlers' = handlers
  <2>1. Receives({"again", "invalidated"})
    BY DEF UnsubscribedByServer
  <2> QED
    BY <2>1, ReceiveFacts, MessagesKept, CommandsKept DEF Receives, UnsubscribedByServer
<1>2. CASE UNCHANGED subVars
  <2>1. SessionNumbers' /\ state' = state /\ attempt' = attempt
    BY <1>1, <1>2 DEF Orderly, SessionNumbers, subVars
  <2> QED
    BY <1>1, <2>1, NumberStays
<1>3. CASE state' = "subscribing" /\ attempt' = attempt + 1
  <2>1. pending' \in {pending, NotPending}
    BY <1>3 DEF UnsubscribedByServer, subVars, KeepPosition, ForgetPosition
  <2>2. SessionNumbers'
    BY <1>1, <1>3, <2>1, Facts DEF Orderly, SessionNumbers, NotPending
  <2> QED
    BY <1>1, <1>3, <2>2, NumberLeft
<1> QED
  BY <1>2, <1>3 DEF UnsubscribedByServer

LEMMA HandNumbers ==
    ASSUME Types, Orderly, NEW others \in SUBSET handlers, NEW s, s <= attempt, NEW e, NEW o,
           NEW last, Hand(others, s, e, o, last), attempt' = attempt
    PROVE  SessionNumbers'
<1>1. \A h \in handlers' : h \in handlers \/ h.session = s
  BY DEF Hand
<1>2. pending'.session = s
  BY DEF Hand
<1> QED
  BY <1>1, <1>2 DEF Orderly, SessionNumbers

LEMMA NumberPublication == ASSUME Types, Orderly, PublicationArrives PROVE Orderly'
<1>1. NoNewReply /\ commands' = commands
  <2>1. Receives({"publication"})
    BY DEF PublicationArrives
  <2> QED
    BY <2>1, ReceiveFacts, MessagesKept DEF Receives
<1>2. UNCHANGED <<state, attempt, flows>>
  BY DEF PublicationArrives
<1>3. SessionNumbers'
  <2>1. CASE Hand(handlers, attempt, Head(messages).epoch, Head(messages).offset, 0)
    BY <1>2, <2>1, HandNumbers, Facts
  <2>2. CASE UNCHANGED <<handlers, pending, log>>
    BY <1>2, <2>2 DEF Orderly, SessionNumbers
  <2> QED
    BY <2>1, <2>2 DEF PublicationArrives
<1> QED
  BY <1>1, <1>2, <1>3, NumberStays

LEMMA NumberHandlers == ASSUME Types, Orderly, HandlerReturns \/ HandlerRaises PROVE Orderly'
<1>1. CASE HandlerReturns
  <2>1. PICK h \in handlers : HandlerReturns!(h)
    BY <1>1 DEF HandlerReturns
  <2>2. UNCHANGED <<state, attempt, flows, commands, messages>>
    BY <2>1
  <2>3. SessionNumbers'
    <3>1. CASE Hand(handlers \ {h}, h.session, h.epoch, h.offset + 1, h.last)
      BY <2>2, <3>1, HandNumbers DEF Orderly, SessionNumbers
    <3>2. CASE handlers' = handlers \ {h} /\ pending' \in {NotPending, pending}
      BY <2>2, <3>2, Facts DEF Orderly, SessionNumbers, NotPending
    <3> QED
      BY <2>1, <3>1, <3>2
  <2> QED
    BY <2>2, <2>3, NumberStays, MessagesKept
<1>2. CASE HandlerRaises
  <2>1. \A h \in handlers' : \E g \in handlers : g.session = h.session
    <3>1. \A g \in handlers : [g EXCEPT !.disturbed = TRUE].session = g.session
      BY DEF Types, HandlerTypes, Handler
    <3> QED
      BY <1>2, <3>1 DEF HandlerRaises
  <2>2. pending' = NotPending
    BY <1>2 DEF HandlerRaises
  <2>3. CASE session # 0
    BY <1>2, <2>1, <2>2, <2>3, NumberClose DEF HandlerRaises
  <2>4. CASE session = 0
    <3>1. UNCHANGED <<state, attempt, flows, commands, messages>>
      BY <1>2, <2>4 DEF HandlerRaises
    <3>2. SessionNumbers'
      BY <2>1, <2>2, <3>1, Facts DEF Orderly, SessionNumbers, NotPending
    <3> QED
      BY <3>1, <3>2, NumberStays, MessagesKept
  <2> QED
    BY <2>3, <2>4
<1> QED
  BY <1>1, <1>2

LEMMA NumberServerSubscribes == ASSUME Types, Orderly, ServerSubscribes PROVE Orderly'
<1>1. /\ commands # <<>> /\ commands[1].op = "subscribe" /\ 1 \in 1..Len(commands)
      /\ Len(commands') = Len(commands) - 1
      /\ \A i \in 1..Len(commands') : i + 1 \in 1..Len(commands) /\ commands'[i] = commands[i + 1]
      /\ UNCHANGED <<state, attempt, flows, handlers, pending>>
  BY Facts DEF ServerSubscribes, subVars
<1>2. /\ Len(messages') = Len(messages) + 1
      /\ \A i \in 1..Len(messages) : messages'[i] = messages[i]
      /\ \A i \in 1..Len(messages') : i \in 1..Len(messages) \/ i = Len(messages')
      /\ messages'[Len(messages')].op \in Replies
      /\ messages'[Len(messages')].attempt = commands[1].attempt
  <2> DEFINE Reply(op, e, o, l, r) == [op |-> op, attempt |-> commands[1].attempt, epoch |-> e,
                                        offset |-> o, last |-> l, recovered |-> r]
  <2>1. \/ messages' = Append(messages, Reply("subscribed", stream_epoch, commands[1].offset,
                                             top, TRUE))
        \/ messages' = Append(messages, Reply("unrecoverable", Unknown, 0, 0, FALSE))
        \/ messages' = Append(messages, Reply("subscribed", stream_epoch, top, top, FALSE))
    <3>1. Head(commands) = commands[1]
      BY <1>1, Facts
    <3> QED
      BY <3>1 DEF ServerSubscribes, Deliver
  <2>2. \A op \in Replies : \A e, o, l, r :
            Reply(op, e, o, l, r).op \in Replies
            /\ Reply(op, e, o, l, r).attempt = commands[1].attempt
    OBVIOUS
  <2>3. "subscribed" \in Replies /\ "unrecoverable" \in Replies
    BY DEF Replies
  <2> HIDE DEF Reply
  <2>4. ASSUME NEW op \in Replies, NEW e, NEW o, NEW l, NEW r,
               messages' = Append(messages, Reply(op, e, o, l, r))
        PROVE  \E m : /\ messages' = Append(messages, m)
                      /\ m.op \in Replies /\ m.attempt = commands[1].attempt
    BY <2>2, <2>4
  <2>5. PICK m : messages' = Append(messages, m) /\ m.op \in Replies
                 /\ m.attempt = commands[1].attempt
    BY <2>1, <2>3, <2>4
  <2> QED
    BY <2>5, Facts
<1>3. FlowNumbers' /\ SessionNumbers'
  BY <1>1 DEF Orderly, FlowNumbers, SessionNumbers
<1>4. WireNumbers'
  BY <1>1, <1>2 DEF Orderly, WireNumbers
<1>5. Unsent'
  <2> SUFFICES ASSUME NEW f \in flows, f.pc = "getState"
               PROVE  /\ f.attempt = attempt => state = "subscribing"
                      /\ \A i \in 1..Len(commands') : commands'[i].op = "subscribe"
                                                      => commands'[i].attempt # f.attempt
                      /\ \A i \in 1..Len(messages') : messages'[i].op \in Replies
                                                      => messages'[i].attempt # f.attempt
    BY <1>1 DEF Unsent
  <2>1. f.attempt = attempt => state = "subscribing"
    BY DEF Orderly, Unsent
  <2>2. \A i \in 1..Len(commands) : commands[i].op = "subscribe"
                                    => commands[i].attempt # f.attempt
    BY DEF Orderly, Unsent
  <2>3. \A i \in 1..Len(messages) : messages[i].op \in Replies
                                    => messages[i].attempt # f.attempt
    BY DEF Orderly, Unsent
  <2>4. \A i \in 1..Len(commands') : commands'[i].op = "subscribe"
                                     => commands'[i].attempt # f.attempt
    BY <1>1, <2>2
  <2>5. \A i \in 1..Len(messages') : messages'[i].op \in Replies
                                     => messages'[i].attempt # f.attempt
    BY <1>1, <1>2, <2>2, <2>3
  <2> QED
    BY <2>1, <2>4, <2>5
<1>6. SentLast'
  <2>1. \A i \in 1..Len(commands') : i + 1 = Len(commands) => i = Len(commands')
    BY <1>1, Facts
  <2> QED
    BY <1>1, <2>1 DEF Orderly, SentLast, Sent
<1>7. AnsweredLast'
  <2> SUFFICES ASSUME NEW i \in 1..Len(messages'), Answered(i)'
               PROVE  /\ commands' = <<>> /\ state = "subscribing"
                      /\ \A j \in (i + 1)..Len(messages') : messages'[j].op \notin Replies
    BY <1>1 DEF AnsweredLast
  <2>1. i = Len(messages')
    BY <1>1, <1>2 DEF Orderly, AnsweredLast, Answered
  <2>2. Sent(1)
    BY <1>1, <1>2, <2>1 DEF Sent, Answered
  <2>3. Len(commands) = 1 /\ state = "subscribing"
    BY <1>1, <2>2 DEF Orderly, SentLast
  <2>4. commands' = <<>>
    BY <1>1, <2>3, TypeServer, Facts DEF Types, WireTypes
  <2> QED
    BY <2>1, <2>3, <2>4, <1>2, Facts
<1> QED
  BY <1>1, <1>3, <1>4, <1>5, <1>6, <1>7 DEF Orderly, SubscribedLast

LEMMA NumberServer ==
    ASSUME Types, Orderly,
           ServerSubscribes \/ ServerUnsubscribes \/ Publish \/ ServerPushes \/ HistoryLost
    PROVE  Orderly'
<1>1. ASSUME ServerUnsubscribes \/ Publish \/ ServerPushes \/ HistoryLost PROVE Orderly'
  <2>1. UNCHANGED <<state, attempt, flows, handlers, pending>>
    BY <1>1 DEF ServerUnsubscribes, Publish, ServerPushes, HistoryLost, subVars
  <2>2. SessionNumbers'
    BY <2>1 DEF Orderly, SessionNumbers
  <2>3. NoNewReply
    <3>1. \/ UNCHANGED messages
          \/ \E m : m.op \notin Replies /\ messages' = Append(messages, m)
      BY <1>1 DEF ServerUnsubscribes, Publish, ServerPushes, HistoryLost, Deliver, Replies
    <3> QED
      BY <3>1, MessagesKept
  <2>4. UNCHANGED commands \/ (commands # <<>> /\ commands' = Tail(commands))
    BY <1>1 DEF ServerUnsubscribes, Publish, ServerPushes, HistoryLost
  <2> QED
    BY <2>1, <2>2, <2>3, <2>4, NumberStays
<1> QED
  BY <1>1, NumberServerSubscribes

LEMMA NumberOther ==
    ASSUME Types, Orderly, Subscribe \/ Connect \/ Connected \/ LoseConnection \/ GetStateFails
    PROVE  Orderly'
<1>1. CASE LoseConnection
  <2>1. pending' \in {pending, NotPending} /\ handlers' = handlers
    BY <1>1 DEF LoseConnection, KeepPosition, ForgetPosition
  <2> QED
    BY <1>1, <2>1, NumberClose DEF LoseConnection
<1>2. CASE Subscribe \/ Connect \/ Connected \/ GetStateFails
  <2>1. /\ UNCHANGED <<attempt, pending, handlers, commands, messages>> /\ flows' \subseteq flows
        /\ state' = state \/ state' = "subscribing"
    BY <1>2 DEF Subscribe, Connect, Connected, GetStateFails, subVars
  <2>2. SessionNumbers'
    BY <2>1 DEF Orderly, SessionNumbers
  <2> QED
    BY <2>1, <2>2, NumberStays, MessagesKept
<1> QED
  BY <1>1, <1>2

LEMMA NumberStep == Types /\ Orderly /\ [Next]_vars => Orderly'
<1>1. ASSUME Types, Orderly, UNCHANGED vars PROVE Orderly'
  BY <1>1 DEF vars, subVars, Orderly, FlowNumbers, SessionNumbers, WireNumbers, Unsent, SentLast,
     Sent, AnsweredLast, Answered, SubscribedLast
<1>2. ASSUME Types, Orderly, Next PROVE Orderly'
  BY <1>2, NumberUnsubscribe, NumberStartFlow, NumberGetState, NumberReply, NumberPushed,
     NumberPublication, NumberHandlers, NumberServer, NumberOther
     DEF Next, Application, Wire, Server
<1> QED
  BY <1>1, <1>2

LEMMA NumberInit == Init => Orderly
BY DEF Init, Orderly, FlowNumbers, SessionNumbers, WireNumbers, Unsent, SentLast, AnsweredLast,
   SubscribedLast, NotPending

-----------------------------------------------------------------------------
(***************************************************************************)
(* Places: the position is never ahead of the stream; a command or reply   *)
(* on the way carries the subscription's; the messages of a session go on  *)
(* where its position, or that of its handler, is.                         *)
(***************************************************************************)

NoPosition ==
    /\ ~recover => epoch = Unknown
    /\ epoch = Unknown => offset = 0

\* A flow in get_state has no position yet.
NoneYet == \A f \in flows : f.pc = "getState" /\ f.attempt = attempt => ~recover

\* Not ahead of the stream with epoch `now' that ends with `end'.
Known(e, o, now, end) == e <= now /\ (e = now => o <= end)

KnownPlace ==
    /\ Known(epoch, offset, stream_epoch, top)
    /\ state = "subscribed" /\ pending.session = attempt
       => Known(epoch, pending.offset, stream_epoch, top)
KnownMessages ==
    \A i \in 1..Len(messages) :
        /\ Known(messages[i].epoch, messages[i].offset, stream_epoch, top)
        /\ Known(messages[i].epoch, messages[i].last, stream_epoch, top)
KnownHandlers ==
    \A h \in handlers :
        /\ Known(h.epoch, h.offset, stream_epoch, top)
        /\ Known(h.epoch, h.last, stream_epoch, top)

\* The epoch that is published to this client.
Live == IF held THEN stream_epoch ELSE Unknown

\* The messages from the n-th on are the publications after o, up to a push that ends
\* them; without one they reach the end of the stream.
Feed(ms, n, e, o, live, end) ==
    /\ \A i \in n..Len(ms) :
         \/ ms[i].op = "publication" /\ ms[i].epoch = e /\ ms[i].offset + n = o + i + 1
         \/ ms[i].op \in Pushes /\ i = Len(ms) /\ live = Unknown
    /\ live # Unknown => live = e /\ end + n = o + Len(ms) + 1

\* The application has the publications after a, up to b.
HasAll(lg, e, a, b) ==
    \A p \in (a + 1)..b : \E i \in 1..Len(lg) : lg[i] = [epoch |-> e, offset |-> p]

Waiting ==
    \A i \in 1..Len(commands) : Sent(i) =>
        /\ commands[i].recover <=> recover
        /\ recover => commands[i].epoch = epoch /\ commands[i].offset = offset

Answers ==
    \A i \in 1..Len(messages) : Answered(i) /\ messages[i].op = "subscribed" =>
        /\ messages[i].offset <= messages[i].last
        /\ Feed(messages, i + 1, messages[i].epoch, messages[i].last, Live, top)
        /\ messages[i].recovered
           => recover /\ messages[i].epoch = epoch /\ messages[i].offset = offset
        /\ ~messages[i].recovered /\ messages[i].epoch = epoch => offset <= messages[i].offset

\* The last publication a handler's loop goes on to.
Ahead(h) == IF h.offset < h.last THEN h.last ELSE h.offset

SessionPlace == state = "subscribed" => recover /\ epoch # Unknown

SessionPending ==
    state = "subscribed" /\ pending.session = attempt =>
        offset <= pending.offset /\ HasAll(log, epoch, origin, pending.offset)

SessionHandler ==
    state = "subscribed" => \A h \in handlers : h.session = attempt =>
        /\ h.conn = session /\ h.epoch = epoch /\ ~h.disturbed
        /\ \A g \in handlers : g.session = attempt => g = h
        /\ h.kind = "subscribed" => h.offset = offset
        /\ h.kind = "publication" => offset < h.offset
        /\ offset <= h.offset /\ HasAll(log, epoch, origin, h.offset)
        /\ Feed(messages, 1, epoch, Ahead(h), Live, top)

SessionIdle ==
    state = "subscribed" /\ (\A h \in handlers : h.session # attempt) =>
        Feed(messages, 1, epoch, offset, Live, top)

InSession == SessionPlace /\ SessionPending /\ SessionHandler /\ SessionIdle

Places ==
    /\ NoPosition /\ NoneYet /\ KnownPlace /\ KnownMessages /\ KnownHandlers
    /\ Waiting /\ Answers /\ InSession /\ PositionReached

PlaceInv == Types /\ Orderly /\ Places

LEMMA KnownStays ==
    ASSUME NEW now \in Nat, NEW end \in Nat, NEW now1 \in Nat, NEW end1 \in Nat,
           NEW e \in Nat, NEW o \in Nat, Known(e, o, now, end),
           (now1 = now /\ end <= end1) \/ now1 = now + 1
    PROVE  Known(e, o, now1, end1)
BY DEF Known

\* One message is taken off: the feed starts with the next one.
LEMMA FeedTail ==
    ASSUME NEW ms \in Seq(Answer), ms # <<>>, NEW n \in Nat \ {0}, NEW e \in Nat, NEW o \in Nat,
           NEW live, NEW end \in Nat, Feed(ms, n + 1, e, o, live, end)
    PROVE  Feed(Tail(ms), n, e, o, live, end)
<1>1. PICK rest : /\ rest = Tail(ms) /\ Len(rest) \in Nat /\ Len(ms) = Len(rest) + 1
                  /\ \A i \in 1..Len(rest) : rest[i] = ms[i + 1] /\ ms[i + 1].offset \in Nat
  <2>1. /\ Len(Tail(ms)) \in Nat /\ Len(ms) = Len(Tail(ms)) + 1
        /\ \A i \in 1..Len(Tail(ms)) : Tail(ms)[i] = ms[i + 1] /\ ms[i + 1] \in Answer
    OBVIOUS
  <2>2. \A m \in Answer : m.offset \in Nat
    BY DEF Answer, Message
  <2> QED
    BY <2>1, <2>2
<1>2. ASSUME NEW i \in n..Len(rest)
      PROVE  \/ rest[i].op = "publication" /\ rest[i].epoch = e /\ rest[i].offset + n = o + i + 1
             \/ rest[i].op \in Pushes /\ i = Len(rest) /\ live = Unknown
  <2>1. /\ i \in 1..Len(rest) /\ i + 1 \in (n + 1)..Len(ms) /\ i \in Nat
        /\ i + 1 = Len(ms) => i = Len(rest)
    BY <1>1
  <2>2. \/ /\ ms[i + 1].op = "publication" /\ ms[i + 1].epoch = e
           /\ ms[i + 1].offset + (n + 1) = o + (i + 1) + 1
        \/ ms[i + 1].op \in Pushes /\ i + 1 = Len(ms) /\ live = Unknown
    BY <2>1 DEF Feed
  <2>3. \A x \in Nat : x + (n + 1) = o + (i + 1) + 1 => x + n = o + i + 1
    BY <2>1
  <2> QED
    BY <1>1, <2>1, <2>2, <2>3
<1>3. end + (n + 1) = o + Len(ms) + 1 => end + n = o + Len(rest) + 1
  <2>1. \A x \in Nat : end + (n + 1) = o + (x + 1) + 1 => end + n = o + x + 1
    OBVIOUS
  <2> QED
    BY <1>1, <2>1
<1> QED
  BY <1>1, <1>2, <1>3 DEF Feed

\* The next publication is the one after o.
LEMMA FeedTaken ==
    ASSUME NEW ms \in Seq(Answer), ms # <<>>, ms[1].op = "publication", NEW e \in Nat,
           NEW o \in Nat, NEW live, NEW end \in Nat, Feed(ms, 1, e, o, live, end)
    PROVE  /\ ms[1].epoch = e /\ ms[1].offset = o + 1
           /\ Feed(Tail(ms), 1, e, o + 1, live, end)
<1>1. /\ Len(ms) \in Nat \ {0} /\ 1 \in 1..Len(ms) /\ ms[1] \in Answer
      /\ \A i \in 2..Len(ms) : ms[i] \in Answer
  OBVIOUS
<1>2. \A m \in Answer : m.offset \in Nat
  BY DEF Answer, Message
<1>3. ms[1].epoch = e /\ ms[1].offset + 1 = o + 1 + 1
  BY <1>1 DEF Feed, Pushes
<1>4. ms[1].offset = o + 1
  BY <1>1, <1>2, <1>3
<1>5. ASSUME NEW i \in 2..Len(ms)
      PROVE  \/ ms[i].op = "publication" /\ ms[i].epoch = e
                /\ ms[i].offset + (1 + 1) = (o + 1) + i + 1
             \/ ms[i].op \in Pushes /\ i = Len(ms) /\ live = Unknown
  <2>1. i \in 1..Len(ms) /\ i \in Nat
    BY <1>1
  <2>2. \/ ms[i].op = "publication" /\ ms[i].epoch = e /\ ms[i].offset + 1 = o + i + 1
        \/ ms[i].op \in Pushes /\ i = Len(ms) /\ live = Unknown
    BY <2>1 DEF Feed
  <2>3. ms[i].offset + 1 = o + i + 1 => ms[i].offset + (1 + 1) = (o + 1) + i + 1
    <3>1. ms[i].offset \in Nat
      BY <1>1, <1>2
    <3>2. \A x \in Nat : x + 1 = o + i + 1 => x + (1 + 1) = (o + 1) + i + 1
      BY <2>1
    <3> QED
      BY <3>1, <3>2
  <2> QED
    BY <2>2, <2>3
<1>6. end + 1 = o + Len(ms) + 1 => end + (1 + 1) = (o + 1) + Len(ms) + 1
  BY <1>1
<1>7. Feed(ms, 1 + 1, e, o + 1, live, end)
  BY <1>5, <1>6 DEF Feed
<1>8. Feed(Tail(ms), 1, e, o + 1, live, end)
  BY <1>7, FeedTail
<1> QED
  BY <1>3, <1>4, <1>8

\* What is appended to a feed: the next publication, or a push that ends it.
LEMMA FeedGrows ==
    ASSUME NEW ms \in Seq(Answer), NEW m \in Answer, NEW n \in Nat \ {0}, n <= Len(ms) + 1,
           NEW e \in Nat, NEW o \in Nat, NEW live \in Nat, live # Unknown, NEW end \in Nat,
           Feed(ms, n, e, o, live, end)
    PROVE  /\ m.op = "publication" /\ m.epoch = live /\ m.offset = end + 1
              => Feed(Append(ms, m), n, e, o, live, end + 1)
           /\ \A end1 : m.op \in Pushes => Feed(Append(ms, m), n, e, o, Unknown, end1)
<1> DEFINE more == Append(ms, m)
<1>1. /\ Len(more) = Len(ms) + 1 /\ more[Len(more)] = m
      /\ \A i \in 1..Len(ms) : more[i] = ms[i]
      /\ Len(ms) \in Nat /\ m.offset \in Nat
  BY DEF Answer, Message
<1>2. live = e /\ end + n = o + Len(ms) + 1
  BY DEF Feed
<1>3. ASSUME NEW i \in n..Len(ms)
      PROVE  more[i].op = "publication" /\ more[i].epoch = e /\ more[i].offset + n = o + i + 1
  BY <1>1, <1>3 DEF Feed
<1>4. \A i \in n..Len(more) : i \in n..Len(ms) \/ i = Len(more)
  BY <1>1
<1> HIDE DEF more
<1>5. ASSUME m.op = "publication", m.epoch = live, m.offset = end + 1
      PROVE  Feed(more, n, e, o, live, end + 1)
  <2>1. m.offset + n = o + Len(more) + 1 /\ (end + 1) + n = o + Len(more) + 1
    BY <1>1, <1>2, <1>5
  <2> QED
    BY <1>1, <1>2, <1>3, <1>4, <1>5, <2>1 DEF Feed
<1>6. ASSUME NEW end1, m.op \in Pushes PROVE Feed(more, n, e, o, Unknown, end1)
  BY <1>1, <1>3, <1>4, <1>6 DEF Feed
<1> QED
  BY <1>5, <1>6 DEF more

\* The server stops publishing to the client, or its stream is replaced after that.
LEMMA FeedEnds ==
    ASSUME NEW ms, NEW n, NEW e, NEW o, NEW live, NEW end, NEW end1,
           Feed(ms, n, e, o, live, end)
    PROVE  Feed(ms, n, e, o, Unknown, end1)
BY DEF Feed

LEMMA HasAllSame ==
    ASSUME NEW lg, NEW e, NEW a \in Nat
    PROVE  HasAll(lg, e, a, a)
BY DEF HasAll

LEMMA HasAllMore ==
    ASSUME NEW lg \in Seq(Publication), NEW e, NEW a \in Nat, NEW b \in Nat, NEW x \in Publication,
           HasAll(lg, e, a, b)
    PROVE  /\ HasAll(Append(lg, x), e, a, b)
           /\ x = [epoch |-> e, offset |-> b + 1] => HasAll(Append(lg, x), e, a, b + 1)
<1>1. /\ Len(lg) \in Nat /\ Len(Append(lg, x)) = Len(lg) + 1
      /\ \A i \in 1..Len(lg) : i \in 1..(Len(lg) + 1) /\ Append(lg, x)[i] = lg[i]
      /\ Len(lg) + 1 \in 1..(Len(lg) + 1) /\ Append(lg, x)[Len(lg) + 1] = x
  OBVIOUS
<1>2. HasAll(Append(lg, x), e, a, b)
  BY <1>1 DEF HasAll
<1>3. ASSUME x = [epoch |-> e, offset |-> b + 1] PROVE HasAll(Append(lg, x), e, a, b + 1)
  <2>1. \A p \in (a + 1)..(b + 1) : p \in (a + 1)..b \/ p = b + 1
    OBVIOUS
  <2> QED
    BY <1>1, <1>2, <1>3, <2>1 DEF HasAll
<1> QED
  BY <1>2, <1>3

LEMMA Reached ==
    /\ PositionReached <=> (recover /\ epoch # Unknown => HasAll(log, epoch, origin, offset))
    /\ PositionReached' <=>
         (recover' /\ epoch' # Unknown => HasAll(log', epoch', origin', offset'))
BY DEF PositionReached, Given, HasAll

-----------------------------------------------------------------------------
(* What the server and the wire leave of the places *)

\* The stream is the same and not shorter, or a new one.
StreamGoesOn == (stream_epoch' = stream_epoch /\ top <= top') \/ stream_epoch' = stream_epoch + 1

\* Messages are appended, no reply among them.
MessagesGoOn ==
    /\ Len(messages) <= Len(messages')
    /\ \A i \in 1..Len(messages') :
         (i \in 1..Len(messages) /\ messages'[i] = messages[i]) \/ messages'[i].op \notin Replies

FeedsGoOn ==
    \A n \in 1..(Len(messages) + 1), e \in Nat, o \in Nat :
        Feed(messages, n, e, o, Live, top) => Feed(messages', n, e, o, Live', top')

LEMMA LiveFacts == ASSUME Types PROVE Live \in Nat
BY Facts DEF Live, Unknown

LEMMA MessageFacts ==
    ASSUME Types, NEW i \in 1..Len(messages)
    PROVE  /\ messages[i].epoch \in Nat /\ messages[i].offset \in Nat /\ messages[i].last \in Nat
           /\ messages[i].attempt \in Nat /\ messages[i].recovered \in BOOLEAN
           /\ messages[i].op \in {"subscribed", "publication"} => messages[i].epoch # 0
<1>1. messages[i] \in Answer
  BY Facts
<1> QED
  BY <1>1 DEF Answer, Message

LEMMA KnownLater ==
    ASSUME Types, StreamGoesOn, top' \in Nat
    PROVE  \A e, o \in Nat : Known(e, o, stream_epoch, top) => Known(e, o, stream_epoch', top')
<1>1. stream_epoch \in Nat /\ top \in Nat /\ stream_epoch' \in Nat
  BY Facts DEF StreamGoesOn
<1> QED
  BY <1>1, KnownStays DEF StreamGoesOn

LEMMA KnownMessagesGoOn ==
    ASSUME Types, KnownMessages, StreamGoesOn, top' \in Nat,
           \A i \in 1..Len(messages') :
             \/ \E j \in 1..Len(messages) : messages'[i] = messages[j]
             \/ /\ Known(messages'[i].epoch, messages'[i].offset, stream_epoch', top')
                /\ Known(messages'[i].epoch, messages'[i].last, stream_epoch', top')
    PROVE  KnownMessages'
<1>1. ASSUME NEW j \in 1..Len(messages)
      PROVE  /\ Known(messages[j].epoch, messages[j].offset, stream_epoch', top')
             /\ Known(messages[j].epoch, messages[j].last, stream_epoch', top')
  <2>1. messages[j].epoch \in Nat /\ messages[j].offset \in Nat /\ messages[j].last \in Nat
    BY MessageFacts
  <2>2. /\ Known(messages[j].epoch, messages[j].offset, stream_epoch, top)
        /\ Known(messages[j].epoch, messages[j].last, stream_epoch, top)
    BY DEF KnownMessages
  <2> QED
    BY <2>1, <2>2, KnownLater
<1> QED
  BY <1>1 DEF KnownMessages

LEMMA KnownHandlersGoOn ==
    ASSUME Types, KnownHandlers, StreamGoesOn, top' \in Nat,
           \A h \in handlers' :
             \/ \E g \in handlers : g.epoch = h.epoch /\ g.offset = h.offset /\ g.last = h.last
             \/ /\ Known(h.epoch, h.offset, stream_epoch', top')
                /\ Known(h.epoch, h.last, stream_epoch', top')
    PROVE  KnownHandlers'
<1>1. ASSUME NEW h \in handlers
      PROVE  /\ Known(h.epoch, h.offset, stream_epoch', top')
             /\ Known(h.epoch, h.last, stream_epoch', top')
  <2>1. h.epoch \in Nat /\ h.offset \in Nat /\ h.last \in Nat
    BY HandlerFacts
  <2>2. Known(h.epoch, h.offset, stream_epoch, top) /\ Known(h.epoch, h.last, stream_epoch, top)
    BY DEF KnownHandlers
  <2> QED
    BY <2>1, <2>2, KnownLater
<1> QED
  BY <1>1 DEF KnownHandlers

\* Nothing happens at the server or on the way from it.
LEMMA Still ==
    ASSUME Types, UNCHANGED <<messages, held, stream_epoch, top>>
    PROVE  StreamGoesOn /\ MessagesGoOn /\ FeedsGoOn /\ (KnownMessages => KnownMessages')
<1>1. StreamGoesOn /\ MessagesGoOn
  BY Facts DEF StreamGoesOn, MessagesGoOn
<1>2. Live' = Live
  BY DEF Live
<1> QED
  BY <1>1, <1>2 DEF FeedsGoOn, KnownMessages

LEMMA ServerGoesOn ==
    ASSUME Types, Types', KnownMessages,
           ServerUnsubscribes \/ Publish \/ ServerPushes \/ HistoryLost
    PROVE  StreamGoesOn /\ MessagesGoOn /\ FeedsGoOn /\ KnownMessages'
<1> USE Facts
<1>1. top' \in Nat
  BY DEF Types, StreamTypes
<1>2. StreamGoesOn
  <2>1. \/ UNCHANGED <<stream_epoch, top>>
        \/ stream_epoch' = stream_epoch /\ top' = top + 1
        \/ stream_epoch' = stream_epoch + 1
    BY DEF ServerUnsubscribes, Publish, ServerPushes, HistoryLost, streamVars
  <2> QED
    BY <2>1 DEF StreamGoesOn
<1>3. CASE UNCHANGED messages
  <2>1. MessagesGoOn
    BY <1>3 DEF MessagesGoOn
  <2>2. KnownMessages'
    BY <1>1, <1>2, <1>3, KnownMessagesGoOn
  <2>3. Live' = Unknown \/ UNCHANGED <<Live, top>>
    BY <1>3 DEF ServerUnsubscribes, Publish, ServerPushes, HistoryLost, streamVars, Live, Deliver
  <2>4. FeedsGoOn
    BY <1>3, <2>3, FeedEnds DEF FeedsGoOn
  <2> QED
    BY <1>2, <2>1, <2>2, <2>4
<1>4. CASE Publish /\ held
  <2> DEFINE m == [op |-> "publication", attempt |-> 0, epoch |-> stream_epoch,
                   offset |-> top + 1, last |-> 0, recovered |-> FALSE]
  <2>1. messages' = Append(messages, m) /\ top' = top + 1 /\ stream_epoch' = stream_epoch
        /\ held' = held
    BY <1>4 DEF Publish, Deliver
  <2>2. m \in Answer /\ m.op = "publication" /\ m.epoch = stream_epoch /\ m.offset = top + 1
        /\ m.last = 0
    BY DEF Answer, Message
  <2> HIDE DEF m
  <2>3. Live = stream_epoch /\ Live' = Live /\ Live # Unknown /\ Live \in Nat
    BY <1>4, <2>1 DEF Live, Unknown
  <2>4. /\ Len(messages') = Len(messages) + 1 /\ messages'[Len(messages')] = m
        /\ \A i \in 1..Len(messages) : messages'[i] = messages[i]
        /\ \A i \in 1..Len(messages') : i \in 1..Len(messages) \/ i = Len(messages')
    BY <2>1
  <2>5. MessagesGoOn
    BY <2>2, <2>4 DEF MessagesGoOn, Replies
  <2>6. Known(m.epoch, m.offset, stream_epoch', top') /\ Known(m.epoch, m.last, stream_epoch', top')
    BY <2>1, <2>2 DEF Known
  <2>7. KnownMessages'
    BY <1>1, <1>2, <2>4, <2>6, KnownMessagesGoOn
  <2>8. FeedsGoOn
    BY <2>1, <2>2, <2>3, FeedGrows DEF FeedsGoOn
  <2> QED
    BY <1>2, <2>5, <2>7, <2>8
<1>5. CASE ServerPushes
  <2>1. PICK op \in Pushes : Deliver(op, 0, Unknown, 0, 0, FALSE)
    BY <1>5 DEF ServerPushes, Pushes
  <2> DEFINE m == [op |-> op, attempt |-> 0, epoch |-> Unknown,
                   offset |-> 0, last |-> 0, recovered |-> FALSE]
  <2>2. messages' = Append(messages, m)
    BY <2>1 DEF Deliver
  <2>3. m \in Answer /\ m.op \in Pushes /\ m.epoch = Unknown /\ m.offset = 0 /\ m.last = 0
    BY DEF Answer, Message, Pushes, Unknown
  <2> HIDE DEF m
  <2>4. Live \in Nat /\ Live # Unknown /\ Live' = Unknown
    BY <1>5 DEF ServerPushes, Live, Unknown
  <2>5. /\ Len(messages') = Len(messages) + 1 /\ messages'[Len(messages')] = m
        /\ \A i \in 1..Len(messages) : messages'[i] = messages[i]
        /\ \A i \in 1..Len(messages') : i \in 1..Len(messages) \/ i = Len(messages')
    BY <2>2
  <2>6. MessagesGoOn
    BY <2>3, <2>5 DEF MessagesGoOn, Replies, Pushes
  <2>7. stream_epoch' \in Nat \ {0}
    BY DEF Types, StreamTypes
  <2>8. Known(m.epoch, m.offset, stream_epoch', top') /\ Known(m.epoch, m.last, stream_epoch', top')
    BY <2>3, <2>7 DEF Known, Unknown
  <2>9. KnownMessages'
    BY <1>1, <1>2, <2>5, <2>8, KnownMessagesGoOn
  <2>10. FeedsGoOn
    BY <2>2, <2>3, <2>4, FeedGrows DEF FeedsGoOn
  <2> QED
    BY <1>2, <2>6, <2>9, <2>10
<1> QED
  BY <1>3, <1>4, <1>5 DEF ServerUnsubscribes, Publish, HistoryLost

-----------------------------------------------------------------------------
(* What steps have in common *)

\* Replies and commands of the present attempt belong to a subscribing subscription.
LEMMA NothingSent == ASSUME Orderly, state # "subscribing" PROVE Waiting /\ Answers
BY DEF Orderly, SentLast, AnsweredLast, Waiting, Answers

\* The answer that is on the way goes on to be one.
LEMMA AnswersGoOn ==
    ASSUME Types, Answers, MessagesGoOn, FeedsGoOn, UNCHANGED <<attempt, recover, epoch, offset>>
    PROVE  Answers'
<1> SUFFICES ASSUME NEW i \in 1..Len(messages'), Answered(i)', messages'[i].op = "subscribed"
             PROVE  /\ messages'[i].offset <= messages'[i].last
                    /\ Feed(messages', i + 1, messages'[i].epoch, messages'[i].last, Live', top')
                    /\ messages'[i].recovered
                       => recover' /\ messages'[i].epoch = epoch' /\ messages'[i].offset = offset'
                    /\ ~messages'[i].recovered /\ messages'[i].epoch = epoch'
                       => offset' <= messages'[i].offset
  BY DEF Answers
<1>1. i \in 1..Len(messages) /\ messages'[i] = messages[i]
  BY DEF MessagesGoOn, Answered
<1>2. Answered(i)
  BY <1>1 DEF Answered
<1>3. /\ messages[i].offset <= messages[i].last
      /\ Feed(messages, i + 1, messages[i].epoch, messages[i].last, Live, top)
      /\ messages[i].recovered
         => recover /\ messages[i].epoch = epoch /\ messages[i].offset = offset
      /\ ~messages[i].recovered /\ messages[i].epoch = epoch => offset <= messages[i].offset
  BY <1>1, <1>2 DEF Answers
<1>4. i + 1 \in 1..(Len(messages) + 1) /\ messages[i].epoch \in Nat /\ messages[i].last \in Nat
  BY <1>1, Facts, MessageFacts
<1>5. Feed(messages', i + 1, messages[i].epoch, messages[i].last, Live', top')
  BY <1>3, <1>4 DEF FeedsGoOn
<1> QED
  BY <1>1, <1>3, <1>5

LEMMA TailMoves ==
    ASSUME NEW S, NEW s \in Seq(S), s # <<>>
    PROVE  \A i \in 1..Len(Tail(s)) : /\ i + 1 \in 2..Len(s) /\ i + 1 \in 1..Len(s)
                                     /\ Tail(s)[i] = s[i + 1]
  OBVIOUS

LEMMA AnswersTail ==
    ASSUME Types, Answers, messages # <<>>, messages' = Tail(messages),
           UNCHANGED <<attempt, recover, epoch, offset, held, stream_epoch, top>>
    PROVE  Answers'
<1> SUFFICES ASSUME NEW i \in 1..Len(messages'), Answered(i)', messages'[i].op = "subscribed"
             PROVE  /\ messages'[i].offset <= messages'[i].last
                    /\ Feed(messages', i + 1, messages'[i].epoch, messages'[i].last, Live', top')
                    /\ messages'[i].recovered
                       => recover' /\ messages'[i].epoch = epoch' /\ messages'[i].offset = offset'
                    /\ ~messages'[i].recovered /\ messages'[i].epoch = epoch'
                       => offset' <= messages'[i].offset
  BY DEF Answers
<1>1. i + 1 \in 1..Len(messages) /\ messages'[i] = messages[i + 1] /\ i \in Nat
  BY Facts
<1>2. Answered(i + 1)
  BY <1>1 DEF Answered
<1>3. /\ messages[i + 1].offset <= messages[i + 1].last
      /\ Feed(messages, (i + 1) + 1, messages[i + 1].epoch, messages[i + 1].last, Live, top)
      /\ messages[i + 1].recovered
         => recover /\ messages[i + 1].epoch = epoch /\ messages[i + 1].offset = offset
      /\ ~messages[i + 1].recovered /\ messages[i + 1].epoch = epoch
         => offset <= messages[i + 1].offset
  BY <1>1, <1>2 DEF Answers
<1>4. messages[i + 1].epoch \in Nat /\ messages[i + 1].last \in Nat /\ i + 1 \in Nat \ {0}
      /\ messages \in Seq(Answer) /\ top \in Nat
  BY <1>1, MessageFacts, Facts
<1>5. Feed(Tail(messages), i + 1, messages[i + 1].epoch, messages[i + 1].last, Live, top)
  BY <1>3, <1>4, FeedTail
<1>6. Live' = Live
  BY DEF Live
<1> QED
  BY <1>1, <1>3, <1>5, <1>6

\* Only the server and the rest of the client move; the session, if there is one, goes on.
LEMMA SessionGoesOn ==
    ASSUME Types, InSession, FeedsGoOn, state' # "subscribed" \/ UNCHANGED <<state, session>>,
           UNCHANGED <<attempt, recover, epoch, offset, pending, handlers, log, origin>>
    PROVE  InSession'
<1>1. SessionPlace' /\ SessionPending'
  BY DEF InSession, SessionPlace, SessionPending
<1>2. ASSUME NEW o \in Nat, Feed(messages, 1, epoch, o, Live, top)
      PROVE  Feed(messages', 1, epoch, o, Live', top')
  <2>1. 1 \in 1..(Len(messages) + 1) /\ epoch \in Nat
    BY Facts
  <2> QED
    BY <1>2, <2>1 DEF FeedsGoOn
<1>3. \A h \in handlers : Ahead(h) \in Nat
  BY HandlerFacts DEF Ahead
<1>4. SessionHandler'
  BY <1>2, <1>3 DEF InSession, SessionHandler
<1>5. offset \in Nat
  BY Facts
<1>6. SessionIdle'
  BY <1>2, <1>5 DEF InSession, SessionIdle
<1> QED
  BY <1>1, <1>4, <1>6 DEF InSession

LEMMA PlaceQuiet ==
    ASSUME PlaceInv, top' \in Nat, StreamGoesOn, MessagesGoOn, FeedsGoOn, KnownMessages',
           state' # "subscribed" \/ UNCHANGED <<state, session>>, flows' \subseteq flows,
           UNCHANGED commands \/ (commands # <<>> /\ commands' = Tail(commands)),
           UNCHANGED <<attempt, recover, epoch, offset, pending, handlers, log, origin>>
    PROVE  Places'
<1> USE DEF PlaceInv, Places
<1>1. NoPosition' /\ PositionReached'
  BY Reached DEF NoPosition
<1>2. NoneYet'
  BY DEF NoneYet
<1>3. KnownPlace'
  BY KnownLater, Facts DEF KnownPlace
<1>4. KnownHandlers'
  BY KnownHandlersGoOn
<1>5. Waiting'
  <2>1. CASE UNCHANGED commands
    BY <2>1 DEF Waiting, Sent
  <2>2. CASE commands # <<>> /\ commands' = Tail(commands)
    <3>1. \A i \in 1..Len(commands') : i + 1 \in 1..Len(commands) /\ commands'[i] = commands[i + 1]
      BY <2>2, Facts
    <3> QED
      BY <3>1 DEF Waiting, Sent
  <2> QED
    BY <2>1, <2>2
<1>6. Answers' /\ InSession'
  BY AnswersGoOn, SessionGoesOn
<1> QED
  BY <1>1, <1>2, <1>3, <1>4, <1>5, <1>6

LEMMA PlaceServer ==
    ASSUME PlaceInv, Types', ServerUnsubscribes \/ Publish \/ ServerPushes \/ HistoryLost
    PROVE  Places'
<1>1. StreamGoesOn /\ MessagesGoOn /\ FeedsGoOn /\ KnownMessages'
  BY ServerGoesOn DEF PlaceInv, Places
<1>2. top' \in Nat
  BY DEF Types, StreamTypes
<1>3. UNCHANGED <<state, session, flows, attempt, recover, epoch, offset, pending, handlers,
                  log, origin>>
  BY DEF ServerUnsubscribes, Publish, ServerPushes, HistoryLost, linkVars, subVars, historyVars
<1>4. UNCHANGED commands \/ (commands # <<>> /\ commands' = Tail(commands))
  BY DEF ServerUnsubscribes, Publish, ServerPushes, HistoryLost
<1> QED
  BY <1>1, <1>2, <1>3, <1>4, PlaceQuiet

LEMMA PlaceOther ==
    ASSUME PlaceInv, Subscribe \/ Connect \/ Connected \/ GetStateFails
    PROVE  Places'
<1>1. StreamGoesOn /\ MessagesGoOn /\ FeedsGoOn /\ KnownMessages'
  <2>1. UNCHANGED <<messages, held, stream_epoch, top>>
    BY DEF Subscribe, Connect, Connected, GetStateFails, streamVars
  <2> QED
    BY <2>1, Still DEF PlaceInv, Places
<1>2. top' \in Nat /\ flows' \subseteq flows
  BY Facts DEF PlaceInv, Subscribe, Connect, Connected, GetStateFails, streamVars
<1>3. UNCHANGED <<attempt, recover, epoch, offset, pending, handlers, log, origin, commands>>
  BY DEF Subscribe, Connect, Connected, GetStateFails, subVars, historyVars
<1>4. state' # "subscribed" \/ UNCHANGED <<state, session>>
  <2>1. Connected => state' # "subscribed"
    BY DEF Connected, Link!Open, subVars, PlaceInv, Types, SubTypes
  <2> QED
    BY <2>1 DEF Subscribe, Connect, GetStateFails, subVars, linkVars
<1> QED
  BY <1>1, <1>2, <1>3, <1>4, PlaceQuiet

-----------------------------------------------------------------------------
(* The end of a session *)

\* What is committed is a place like the position.
LEMMA CommittedPlace ==
    ASSUME PlaceInv, state = "subscribed"
    PROVE  /\ Committed \in Nat /\ offset <= Committed
           /\ Known(epoch, Committed, stream_epoch, top)
           /\ HasAll(log, epoch, origin, Committed)
           /\ recover /\ epoch # Unknown
<1> USE DEF PlaceInv, Places
<1>1. recover /\ epoch # Unknown
  BY DEF InSession, SessionPlace
<1>2. HasAll(log, epoch, origin, offset) /\ Known(epoch, offset, stream_epoch, top)
  BY <1>1, Reached DEF KnownPlace
<1>3. pending.session = attempt =>
         /\ offset <= pending.offset /\ HasAll(log, epoch, origin, pending.offset)
         /\ Known(epoch, pending.offset, stream_epoch, top)
  BY DEF InSession, SessionPending, KnownPlace
<1> QED
  BY <1>1, <1>2, <1>3, Facts DEF Committed, EndsWith

\* How the position may be left.
PlaceLeft ==
    \/ UNCHANGED <<recover, epoch, offset, log, origin>>
    \/ state = "subscribed" /\ offset' = Committed /\ UNCHANGED <<recover, epoch, log, origin>>
    \/ offset' = 0 /\ epoch' = Unknown /\ UNCHANGED <<log, origin>>

LEMMA PlaceOver ==
    ASSUME PlaceInv, PlaceLeft, state' # "subscribed", flows' \subseteq flows,
           attempt' = attempt + 1 \/ (attempt' = attempt /\ UNCHANGED recover),
           \A h \in handlers' :
               \E g \in handlers : g.epoch = h.epoch /\ g.offset = h.offset /\ g.last = h.last,
           messages' = messages \/ messages' = <<>>
              \/ (messages # <<>> /\ messages' = Tail(messages)),
           UNCHANGED <<stream_epoch, top>>, Waiting', Answers'
    PROVE  Places'
<1> USE DEF PlaceInv, Places
<1>1. NoPosition' /\ PositionReached'
  <2>1. CASE UNCHANGED <<recover, epoch, offset, log, origin>>
    BY <2>1, Reached DEF NoPosition
  <2>2. CASE state = "subscribed" /\ offset' = Committed /\ UNCHANGED <<recover, epoch, log, origin>>
    BY <2>2, CommittedPlace, Reached DEF NoPosition
  <2>3. CASE offset' = 0 /\ epoch' = Unknown
    BY <2>3, Reached DEF NoPosition
  <2> QED
    BY <2>1, <2>2, <2>3 DEF PlaceLeft
<1>2. NoneYet'
  <2>1. attempt' = attempt + 1 => \A f \in flows' : f.attempt # attempt'
    BY Facts DEF Orderly, FlowNumbers
  <2> QED
    BY <2>1 DEF NoneYet
<1>3. KnownPlace'
  <2>1. Known(Unknown, 0, stream_epoch, top)
    BY Facts DEF Known, Unknown
  <2>2. Known(epoch', offset', stream_epoch, top)
    BY <2>1, CommittedPlace DEF PlaceLeft, KnownPlace
  <2> QED
    BY <2>2 DEF KnownPlace
<1>4. StreamGoesOn /\ top' \in Nat
  BY Facts DEF StreamGoesOn
<1>5. KnownHandlers'
  BY <1>4, KnownHandlersGoOn
<1>6. KnownMessages'
  <2>1. \A i \in 1..Len(messages') : \E j \in 1..Len(messages) : messages'[i] = messages[j]
    <3>1. CASE messages' = messages \/ messages' = <<>>
      BY <3>1
    <3>2. CASE messages # <<>> /\ messages' = Tail(messages)
      <4>1. \A i \in 1..Len(messages') : i + 1 \in 1..Len(messages)
                                         /\ messages'[i] = messages[i + 1]
        BY <3>2, Facts
      <4> QED
        BY <4>1
    <3> QED
      BY <3>1, <3>2
  <2> QED
    BY <1>4, <2>1, KnownMessagesGoOn
<1>7. InSession'
  BY DEF InSession, SessionPlace, SessionPending, SessionHandler, SessionIdle
<1> QED
  BY <1>1, <1>2, <1>3, <1>5, <1>6, <1>7

LEMMA WireEmpty == ASSUME commands' = <<>>, messages' = <<>> PROVE Waiting' /\ Answers'
BY DEF Waiting, Answers

LEMMA KeepLeaves ==
    ASSUME Types, KeepPosition(Committed) \/ ForgetPosition, UNCHANGED <<recover, historyVars>>
    PROVE  PlaceLeft
BY DEF KeepPosition, ForgetPosition, PlaceLeft, historyVars

LEMMA PlaceUnsubscribe == ASSUME PlaceInv, Orderly', Unsubscribe PROVE Places'
<1>1. /\ state' # "subscribed" /\ state' # "subscribing" /\ flows' \subseteq flows
      /\ attempt' = attempt + 1 /\ handlers' = handlers /\ messages' = messages
      /\ UNCHANGED <<stream_epoch, top>>
  BY DEF Unsubscribe, streamVars
<1>2. PlaceLeft
  BY KeepLeaves DEF Unsubscribe, PlaceInv
<1>3. Waiting' /\ Answers'
  BY <1>1 DEF Orderly, SentLast, AnsweredLast, Waiting, Answers
<1> QED
  BY <1>1, <1>2, <1>3, PlaceOver

LEMMA PlaceClosed ==
    ASSUME PlaceInv, CloseConnection, PlaceLeft, UNCHANGED <<recover, stream_epoch, top>>,
           \A h \in handlers' :
               \E g \in handlers : g.epoch = h.epoch /\ g.offset = h.offset /\ g.last = h.last
    PROVE  Places'
<1>1. /\ state' # "subscribed" /\ flows' \subseteq flows
      /\ commands' = <<>> /\ messages' = <<>>
      /\ attempt' = attempt + 1 \/ attempt' = attempt
  BY DEF CloseConnection
<1> QED
  BY <1>1, WireEmpty, PlaceOver

LEMMA PlaceLost == ASSUME PlaceInv, LoseConnection PROVE Places'
<1>1. PlaceLeft
  BY KeepLeaves DEF LoseConnection, historyVars, PlaceLeft, KeepPosition, ForgetPosition
<1>2. CloseConnection /\ UNCHANGED <<recover, stream_epoch, top>> /\ handlers' = handlers
  BY DEF LoseConnection, streamVars
<1> QED
  BY <1>1, <1>2, PlaceClosed

LEMMA PlaceRaises == ASSUME PlaceInv, HandlerRaises PROVE Places'
<1>1. /\ UNCHANGED <<recover, epoch, offset, log, origin, stream_epoch, top>>
      /\ PlaceLeft
  BY RaisesKeep DEF HandlerRaises, streamVars, PlaceLeft
<1>2. \A h \in handlers' :
          \E g \in handlers : g.epoch = h.epoch /\ g.offset = h.offset /\ g.last = h.last
  <2>1. ASSUME NEW g \in Handler
        PROVE  /\ [g EXCEPT !.disturbed = TRUE].epoch = g.epoch
               /\ [g EXCEPT !.disturbed = TRUE].offset = g.offset
               /\ [g EXCEPT !.disturbed = TRUE].last = g.last
    <3>2. [g EXCEPT !.disturbed = TRUE].epoch = g.epoch
      BY DEF Handler
    <3>3. [g EXCEPT !.disturbed = TRUE].offset = g.offset
      BY DEF Handler
    <3>4. [g EXCEPT !.disturbed = TRUE].last = g.last
      BY DEF Handler
    <3> QED
      BY <3>2, <3>3, <3>4
  <2>2. handlers \subseteq Handler
    BY DEF PlaceInv, Types, HandlerTypes
  <2>3. \A k \in handlers' : \E g \in handlers : k = [g EXCEPT !.disturbed = TRUE]
    BY DEF HandlerRaises
  <2> SUFFICES ASSUME NEW k \in handlers'
               PROVE  \E g \in handlers :
                          g.epoch = k.epoch /\ g.offset = k.offset /\ g.last = k.last
    OBVIOUS
  <2>4. PICK g \in handlers : k = [g EXCEPT !.disturbed = TRUE]
    BY <2>3
  <2>5. g.epoch = k.epoch /\ g.offset = k.offset /\ g.last = k.last
    BY <2>1, <2>2, <2>4
  <2> QED
    BY <2>5
<1>3. CASE session # 0
  BY <1>1, <1>2, <1>3, PlaceClosed DEF HandlerRaises
<1>4. CASE session = 0
  <2>1. UNCHANGED <<commands, messages, held, flows, state, attempt>> /\ state # "subscribed"
    BY <1>4 DEF HandlerRaises, PlaceInv, Types, SubTypes
  <2>2. Waiting'
    BY <1>1, <2>1 DEF PlaceInv, Places, Waiting, Sent
  <2>3. Answers'
    <3>1. MessagesGoOn /\ FeedsGoOn
      BY <1>1, <2>1, Still DEF PlaceInv
    <3> QED
      BY <1>1, <2>1, <3>1, AnswersGoOn DEF PlaceInv, Places
  <2> QED
    BY <1>1, <1>2, <2>1, <2>2, <2>3, PlaceOver
<1> QED
  BY <1>3, <1>4

LEMMA PlacePushed == ASSUME PlaceInv, UnsubscribedByServer PROVE Places'
<1>1. /\ messages # <<>> /\ messages' = Tail(messages) /\ flows' = flows /\ handlers' = handlers
      /\ UNCHANGED <<log, origin, commands, held, stream_epoch, top, session>>
  BY DEF UnsubscribedByServer, Receives, linkVars, streamVars, historyVars
<1>2. CASE state # "subscribed"
  <2>1. UNCHANGED <<state, attempt, recover, epoch, offset, pending>>
    BY <1>2 DEF UnsubscribedByServer, subVars
  <2>2. Waiting' /\ Answers'
    BY <1>1, <2>1, AnswersTail DEF PlaceInv, Places, Waiting, Sent
  <2>3. PlaceLeft
    BY <1>1, <2>1 DEF PlaceLeft
  <2> QED
    BY <1>1, <1>2, <2>1, <2>2, <2>3, PlaceOver
<1>3. CASE state = "subscribed"
  <2>1. state' # "subscribed" /\ attempt' = attempt + 1 /\ UNCHANGED recover
    BY <1>3 DEF UnsubscribedByServer
  <2>2. PlaceLeft
    BY <1>1, <1>3, <2>1 DEF UnsubscribedByServer, KeepPosition, ForgetPosition, PlaceLeft
  <2>3. Waiting'
    BY <1>1, <1>3, Facts DEF PlaceInv, Orderly, SubscribedLast, Waiting
  <2>4. Answers'
    <3>1. \A i \in 1..Len(messages') : i + 1 \in 1..Len(messages) /\ messages'[i] = messages[i + 1]
      BY <1>1, Facts DEF PlaceInv
    <3>2. ~(attempt + 1 <= attempt)
      BY Facts DEF PlaceInv
    <3>3. \A i \in 1..Len(messages') : ~Answered(i)'
      BY <2>1, <3>1, <3>2 DEF PlaceInv, Orderly, WireNumbers, Answered
    <3> QED
      BY <3>3 DEF Answers
  <2> QED
    BY <1>1, <2>1, <2>2, <2>3, <2>4, PlaceOver
<1> QED
  BY <1>2, <1>3

-----------------------------------------------------------------------------
(* A subscribe flow carries the position *)

LEMMA SubscribeCarries ==
    ASSUME NEW i, NEW r \in BOOLEAN, NEW e, NEW o
    PROVE  /\ SubscribeCommand(i, r, e, o).recover <=> r
           /\ r => /\ SubscribeCommand(i, r, e, o).epoch = e
                   /\ SubscribeCommand(i, r, e, o).offset = o
BY DEF SubscribeCommand

LEMMA PlaceStartFlow == ASSUME PlaceInv, StartFlow PROVE Places'
<1> USE DEF PlaceInv
<1>1. /\ attempt' = attempt + 1 /\ state' = "subscribing"
      /\ UNCHANGED <<recover, epoch, offset, pending, handlers, messages, held, stream_epoch, top,
                     log, origin>>
  BY DEF StartFlow, NextAttempt, streamVars, historyVars
<1>2. NextAttempt = attempt + 1 /\ ~(attempt' <= attempt)
  BY <1>1, Facts DEF NextAttempt
<1>3. NoPosition' /\ PositionReached'
  BY <1>1, Reached DEF Places, NoPosition
<1>4. NoneYet'
  <2>1. \A f \in flows : f.attempt # attempt'
    BY <1>2 DEF Orderly, FlowNumbers
  <2>2. \A f \in flows' : f \in flows \/ f.pc # "getState" \/ ~recover
    BY DEF StartFlow
  <2> QED
    BY <1>1, <2>1, <2>2 DEF NoneYet
<1>5. KnownPlace' /\ KnownHandlers'
  BY <1>1 DEF Places, KnownPlace, KnownHandlers
<1>6. KnownMessages'
  BY <1>1, Still DEF Places
<1>7. Waiting'
  <2>1. \A i \in 1..Len(commands) : commands[i].op = "subscribe" => commands[i].attempt # attempt'
    BY <1>2 DEF Orderly, WireNumbers
  <2>2. CASE UNCHANGED commands
    BY <2>1, <2>2 DEF Waiting, Sent
  <2>3. CASE SendSubscribe(NextAttempt, recover, epoch, offset)
    <3> DEFINE c == SubscribeCommand(NextAttempt, recover, epoch, offset)
    <3>1. /\ \A i \in 1..Len(commands) : commands'[i] = commands[i]
          /\ commands'[Len(commands')] = c
          /\ \A i \in 1..Len(commands') : i \in 1..Len(commands) \/ i = Len(commands')
      BY <2>3, SubscribeFacts
    <3>2. (c.recover <=> recover) /\ (recover => c.epoch = epoch /\ c.offset = offset)
      BY SubscribeCarries DEF Types, PlaceTypes
    <3> HIDE DEF c
    <3>3. ASSUME NEW i \in 1..Len(commands'), Sent(i)' PROVE commands'[i] = c
      BY <2>1, <3>1, <3>3 DEF Sent
    <3> QED
      BY <1>1, <3>2, <3>3 DEF Waiting
  <2> QED
    BY <2>2, <2>3 DEF StartFlow
<1>8. Answers'
  <2>1. \A i \in 1..Len(messages') : ~Answered(i)'
    BY <1>1, <1>2 DEF Orderly, WireNumbers, Answered
  <2> QED
    BY <2>1 DEF Answers
<1>9. InSession'
  BY <1>1 DEF InSession, SessionPlace, SessionPending, SessionHandler, SessionIdle
<1> QED
  BY <1>3, <1>4, <1>5, <1>6, <1>7, <1>8, <1>9 DEF Places

LEMMA PlaceGetState == ASSUME PlaceInv, GetStateReturns PROVE Places'
<1> USE DEF PlaceInv
<1>1. PICK f \in flows, o \in 0..top : GetStateReturns!(f, o)
  BY DEF GetStateReturns
<1>2. /\ f.pc = "getState" /\ o \in Nat /\ stream_epoch \in Nat \ {0} /\ top' \in Nat
      /\ UNCHANGED <<state, attempt, session, pending, handlers, messages, held, stream_epoch, top,
                     log>>
  BY <1>1, Facts DEF linkVars, streamVars
<1>3. StreamGoesOn /\ MessagesGoOn /\ FeedsGoOn /\ KnownMessages'
  BY <1>2, Still DEF Places
<1>4. CASE ~Loads(f)
  <2>1. UNCHANGED <<recover, epoch, offset, origin, commands>> /\ flows' \subseteq flows
    BY <1>1, <1>4
  <2> QED
    BY <1>2, <1>3, <2>1, PlaceQuiet
<1>5. CASE Loads(f)
  <2>1. /\ attempt = f.attempt /\ state = "subscribing"
        /\ recover' = TRUE /\ epoch' = stream_epoch /\ offset' = o /\ origin' = o
    BY <1>1, <1>5 DEF Loads
  <2>2. NoPosition'
    BY <1>2, <2>1 DEF NoPosition, Unknown
  <2>3. PositionReached'
    BY <1>2, <2>1, Reached, HasAllSame
  <2>4. NoneYet'
    <3>0. [f EXCEPT !.pc = "reply"].pc = "reply"
      BY DEF Types, FlowTypes, Flow
    <3>1. \A g \in flows' : g.pc = "getState" => g \in flows /\ g # f
      BY <1>1, <3>0
    <3>2. \A g \in flows : g.attempt = attempt => g = f
      BY <2>1 DEF Orderly, FlowNumbers
    <3> QED
      BY <1>2, <3>1, <3>2 DEF NoneYet
  <2>5. KnownPlace'
    <3>1. Known(stream_epoch, o, stream_epoch, top)
      BY <1>2, Facts DEF Known
    <3> QED
      BY <1>2, <2>1, <3>1 DEF KnownPlace
  <2>6. KnownHandlers'
    BY <1>2 DEF Places, KnownHandlers
  <2>7. /\ \A i \in 1..Len(commands) : ~Sent(i)
        /\ \A i \in 1..Len(messages) : ~Answered(i)
    BY <1>2, <2>1 DEF Orderly, Unsent, Sent, Answered
  <2>8. Waiting'
    <3>1. CASE UNCHANGED commands
      BY <1>2, <2>7, <3>1 DEF Waiting, Sent
    <3>2. CASE SendSubscribe(f.attempt, TRUE, stream_epoch, o)
      <4> DEFINE c == SubscribeCommand(f.attempt, TRUE, stream_epoch, o)
      <4>1. /\ \A i \in 1..Len(commands) : commands'[i] = commands[i]
            /\ commands'[Len(commands')] = c
            /\ \A i \in 1..Len(commands') : i \in 1..Len(commands) \/ i = Len(commands')
        <5>1. PICK r : r = TRUE
          OBVIOUS
        <5>2. PICK i : i = f.attempt
          OBVIOUS
        <5>3. Types /\ SendSubscribe(i, r, stream_epoch, o)
          BY <3>2, <5>1, <5>2 DEF PlaceInv
        <5>4. c = SubscribeCommand(i, r, stream_epoch, o)
          BY <5>1, <5>2
        <5> HIDE DEF c, PlaceInv
        <5> QED
          BY <5>3, <5>4, SubscribeFacts
      <4>2. c.recover /\ c.epoch = stream_epoch /\ c.offset = o
        BY DEF SubscribeCommand
      <4> HIDE DEF c
      <4>3. ASSUME NEW i \in 1..Len(commands'), Sent(i)' PROVE commands'[i] = c
        BY <1>2, <2>7, <4>1, <4>3 DEF Sent
      <4> QED
        BY <2>1, <4>2, <4>3 DEF Waiting
    <3> QED
      BY <1>1, <1>5, <3>1, <3>2
  <2>9. Answers'
    BY <1>2, <2>7 DEF Answers, Answered
  <2>10. InSession'
    BY <1>2, <2>1 DEF InSession, SessionPlace, SessionPending, SessionHandler, SessionIdle
  <2> QED
    BY <1>3, <2>2, <2>3, <2>4, <2>5, <2>6, <2>8, <2>9, <2>10 DEF Places
<1> QED
  BY <1>4, <1>5

\* The reply to a subscribe command.
Reply(op, e, o, last, r) ==
    [op |-> op, attempt |-> commands[1].attempt, epoch |-> e, offset |-> o, last |-> last,
     recovered |-> r]

LEMMA PlaceServerSubscribes == ASSUME PlaceInv, Types', ServerSubscribes PROVE Places'
<1> USE DEF PlaceInv
<1>1. /\ commands # <<>> /\ commands[1].op = "subscribe" /\ 1 \in 1..Len(commands)
      /\ \A i \in 1..Len(commands') : i + 1 \in 1..Len(commands) /\ commands'[i] = commands[i + 1]
      /\ UNCHANGED <<state, attempt, recover, epoch, offset, pending, flows, handlers,
                     stream_epoch, top, log, origin>>
      /\ Head(commands) = commands[1] /\ commands[1] \in Command
  BY Facts DEF ServerSubscribes, subVars, streamVars, historyVars
<1>2. state # "subscribed" /\ \A i \in 1..Len(messages) : ~Answered(i)
  BY <1>1 DEF Orderly, SubscribedLast, AnsweredLast
<1>3. commands[1].epoch \in Nat /\ commands[1].offset \in Nat
  BY <1>1 DEF Command
<1>4. NoPosition' /\ NoneYet' /\ PositionReached'
  BY <1>1, Reached DEF Places, NoPosition, NoneYet
<1>5. KnownPlace' /\ KnownHandlers'
  BY <1>1 DEF Places, KnownPlace, KnownHandlers
<1>6. Waiting'
  BY <1>1 DEF Places, Waiting, Sent
<1>7. InSession'
  BY <1>1, <1>2 DEF InSession, SessionPlace, SessionPending, SessionHandler, SessionIdle
<1>8. StreamGoesOn /\ top' \in Nat
  BY <1>1, Facts DEF StreamGoesOn
<1>9. ASSUME NEW m, messages' = Append(messages, m),
             Known(m.epoch, m.offset, stream_epoch, top), Known(m.epoch, m.last, stream_epoch, top),
             m.op = "subscribed" /\ m.attempt = attempt =>
                 /\ held' /\ m.epoch = stream_epoch /\ m.offset <= m.last /\ m.last = top
                 /\ m.recovered => recover /\ m.epoch = epoch /\ m.offset = offset
                 /\ ~m.recovered /\ m.epoch = epoch => offset <= m.offset
      PROVE  KnownMessages' /\ Answers'
  <2>1. /\ Len(messages') = Len(messages) + 1 /\ messages'[Len(messages')] = m
        /\ \A i \in 1..Len(messages) : messages'[i] = messages[i]
        /\ \A i \in 1..Len(messages') : i \in 1..Len(messages) \/ i = Len(messages')
        /\ Len(messages) \in Nat
    BY <1>9, Facts
  <2>2. KnownMessages'
    BY <1>1, <1>8, <1>9, <2>1, KnownMessagesGoOn DEF Places
  <2>3. \A i \in 1..Len(messages') : Answered(i)' => i = Len(messages')
    BY <1>1, <1>2, <2>1 DEF Answered
  <2>4. held' => Feed(messages', Len(messages') + 1, stream_epoch, top, Live', top')
    <3>1. \A i \in (Len(messages') + 1)..Len(messages') : FALSE
      BY <2>1
    <3>2. top' + (Len(messages') + 1) = top + Len(messages') + 1
      BY <1>1, <2>1, Facts
    <3>3. held' => Live' = stream_epoch
      BY <1>1 DEF Live
    <3> QED
      BY <3>1, <3>2, <3>3 DEF Feed
  <2>5. ASSUME NEW i \in 1..Len(messages'), Answered(i)', messages'[i].op = "subscribed"
        PROVE  /\ messages'[i].offset <= messages'[i].last
               /\ Feed(messages', i + 1, messages'[i].epoch, messages'[i].last, Live', top')
               /\ messages'[i].recovered
                  => recover' /\ messages'[i].epoch = epoch' /\ messages'[i].offset = offset'
               /\ ~messages'[i].recovered /\ messages'[i].epoch = epoch'
                  => offset' <= messages'[i].offset
    <3>1. i = Len(messages') /\ messages'[i] = m
      BY <2>1, <2>3, <2>5
    <3>2. m.attempt = attempt /\ m.op = "subscribed"
      BY <1>1, <2>5, <3>1 DEF Answered
    <3>3. /\ held' /\ m.epoch = stream_epoch /\ m.offset <= m.last /\ m.last = top
          /\ m.recovered => recover /\ m.epoch = epoch /\ m.offset = offset
          /\ ~m.recovered /\ m.epoch = epoch => offset <= m.offset
      BY <1>9, <3>2
    <3>4. Feed(messages', i + 1, m.epoch, m.last, Live', top')
      BY <2>4, <3>1, <3>3
    <3> QED
      BY <1>1, <3>1, <3>3, <3>4
  <2> QED
    BY <2>2, <2>5 DEF Answers
<1>10. CASE commands[1].recover /\ Recovers(commands[1])
  <2> DEFINE m == Reply("subscribed", stream_epoch, commands[1].offset, top, TRUE)
  <2>1. messages' = Append(messages, m) /\ held'
    BY <1>1, <1>10 DEF ServerSubscribes, Deliver, Reply
  <2>2. /\ m.op = "subscribed" /\ m.epoch = stream_epoch /\ m.offset = commands[1].offset
        /\ m.last = top /\ m.recovered /\ m.attempt = commands[1].attempt
    BY DEF Reply
  <2>3. commands[1].epoch = stream_epoch /\ commands[1].offset <= top
    BY <1>3, <1>10, Facts DEF Recovers
  <2>4. commands[1].attempt = attempt
        => recover /\ commands[1].epoch = epoch /\ commands[1].offset = offset
    <3>1. commands[1].attempt = attempt => Sent(1)
      BY <1>1 DEF Sent
    <3>2. Sent(1) => (commands[1].recover <=> recover)
      BY <1>1 DEF Places, Waiting
    <3>3. Sent(1) /\ recover => commands[1].epoch = epoch /\ commands[1].offset = offset
      BY <1>1 DEF Places, Waiting
    <3> QED
      BY <1>10, <3>1, <3>2, <3>3
  <2> HIDE DEF m
  <2>5. Known(m.epoch, m.offset, stream_epoch, top) /\ Known(m.epoch, m.last, stream_epoch, top)
    <3>1. Known(stream_epoch, commands[1].offset, stream_epoch, top)
          /\ Known(stream_epoch, top, stream_epoch, top)
      BY <1>3, <2>3, Facts DEF Known
    <3> QED
      BY <2>2, <3>1
  <2> QED
    BY <1>4, <1>5, <1>6, <1>7, <1>9, <2>1, <2>2, <2>3, <2>4, <2>5 DEF Places
<1>11. CASE ~(commands[1].recover /\ Recovers(commands[1])) /\ commands[1].recover /\ get_state
  <2> DEFINE m == Reply("unrecoverable", Unknown, 0, 0, FALSE)
  <2>1. messages' = Append(messages, m)
    BY <1>1, <1>11 DEF ServerSubscribes, Deliver, Reply
  <2>2. m.op = "unrecoverable" /\ m.epoch = Unknown /\ m.offset = 0 /\ m.last = 0
    BY DEF Reply
  <2> HIDE DEF m
  <2>3. Known(m.epoch, m.offset, stream_epoch, top) /\ Known(m.epoch, m.last, stream_epoch, top)
    <3>1. Known(Unknown, 0, stream_epoch, top)
      BY Facts DEF Known, Unknown
    <3> QED
      BY <2>2, <3>1
  <2> QED
    BY <1>4, <1>5, <1>6, <1>7, <1>9, <2>1, <2>2, <2>3 DEF Places
<1>12. CASE ~(commands[1].recover /\ Recovers(commands[1])) /\ ~(commands[1].recover /\ get_state)
  <2> DEFINE m == Reply("subscribed", stream_epoch, top, top, FALSE)
  <2>1. messages' = Append(messages, m) /\ held'
    BY <1>1, <1>12 DEF ServerSubscribes, Deliver, Reply
  <2>2. /\ m.op = "subscribed" /\ m.epoch = stream_epoch /\ m.offset = top
        /\ m.last = top /\ ~m.recovered /\ m.attempt = commands[1].attempt
    BY DEF Reply
  <2>3. epoch = stream_epoch => offset <= top
    BY Facts DEF Places, KnownPlace, Known
  <2> HIDE DEF m
  <2>4. Known(m.epoch, m.offset, stream_epoch, top) /\ Known(m.epoch, m.last, stream_epoch, top)
        /\ m.offset <= m.last
    <3>1. Known(stream_epoch, top, stream_epoch, top) /\ top <= top
      BY Facts DEF Known
    <3> QED
      BY <2>2, <3>1
  <2> QED
    BY <1>4, <1>5, <1>6, <1>7, <1>9, <2>1, <2>2, <2>3, <2>4 DEF Places
<1> QED
  BY <1>10, <1>11, <1>12

-----------------------------------------------------------------------------
(* Messages and handlers *)

\* While it is subscribed no reply to an attempt of this subscription is on the way.
LEMMA NoReplyInSession ==
    ASSUME PlaceInv, state = "subscribed", messages # <<>>
    PROVE  messages[1].op \notin Replies
<1>1. 1 \in 1..Len(messages)
  BY Facts DEF PlaceInv
<1>2. \E o : Feed(messages, 1, epoch, o, Live, top)
  BY DEF PlaceInv, Places, InSession, SessionHandler, SessionIdle
<1> QED
  BY <1>1, <1>2 DEF Feed, Replies, Pushes

LEMMA PlaceReply == ASSUME PlaceInv, ReplyArrives PROVE Places'
<1> USE DEF PlaceInv
<1> DEFINE m == Head(messages)
<1>1. /\ messages # <<>> /\ messages' = Tail(messages) /\ m = messages[1]
      /\ m.op \in Replies /\ 1 \in 1..Len(messages) /\ flows' \subseteq flows
      /\ UNCHANGED <<commands, held, stream_epoch, top, session>>
  BY Facts DEF ReplyArrives, Receives, Replies, linkVars, streamVars
<1>2. state # "subscribed"
  BY <1>1, NoReplyInSession
<1>3. \A i \in 1..Len(messages') : /\ i + 1 \in 2..Len(messages) /\ i + 1 \in 1..Len(messages)
                                  /\ messages'[i] = messages[i + 1]
  <2>1. messages \in Seq(Answer)
    BY Facts
  <2> HIDE DEF m
  <2> QED
    BY <1>1, <2>1, TailMoves
<1>4. CASE UNCHANGED subVars /\ UNCHANGED <<handlers, historyVars>>
  <2>1. UNCHANGED <<state, attempt, recover, epoch, offset, pending, handlers, log, origin>>
    BY <1>4 DEF subVars, historyVars
  <2>2. PlaceLeft
    BY <2>1 DEF PlaceLeft
  <2>3. Waiting' /\ Answers'
    BY <1>1, <2>1, AnswersTail DEF Places, Waiting, Sent
  <2> QED
    BY <1>1, <1>2, <2>1, <2>2, <2>3, PlaceOver
<1>5. CASE /\ attempt = m.attempt /\ m.op = "unrecoverable"
           /\ recover' = FALSE /\ offset' = 0 /\ epoch' = Unknown
           /\ UNCHANGED <<state, attempt, pending, handlers, historyVars>>
  <2>1. /\ offset' = 0 /\ epoch' = Unknown /\ ~recover'
        /\ UNCHANGED <<state, attempt, pending, handlers, log, origin>>
    BY <1>5 DEF historyVars
  <2>2. commands = <<>> /\ \A j \in 2..Len(messages) : messages[j].op \notin Replies
    BY <1>1, <1>5 DEF Orderly, AnsweredLast, Answered
  <2>3. Waiting'
    BY <1>1, <2>2 DEF Waiting
  <2>4. Answers'
    BY <1>3, <2>2 DEF Answers, Answered
  <2>5. NoPosition' /\ PositionReached' /\ NoneYet'
    BY <2>1, Reached DEF NoPosition, NoneYet
  <2>6. KnownPlace'
    <3>1. Known(Unknown, 0, stream_epoch, top)
      BY Facts DEF Known, Unknown
    <3> QED
      BY <1>1, <1>2, <2>1, <3>1 DEF KnownPlace
  <2>7. KnownHandlers'
    BY <1>1, <2>1 DEF Places, KnownHandlers
  <2>8. KnownMessages'
    BY <1>1, <1>3 DEF Places, KnownMessages
  <2>9. InSession'
    BY <1>2, <2>1 DEF InSession, SessionPlace, SessionPending, SessionHandler, SessionIdle
  <2> QED
    BY <2>3, <2>4, <2>5, <2>6, <2>7, <2>8, <2>9 DEF Places
<1>6. CASE attempt = m.attempt /\ m.op = "subscribed" /\ MoveSubscribed(m)
  <2> DEFINE h == [conn |-> session, session |-> attempt + 1, kind |-> "subscribed",
                   epoch |-> m.epoch, offset |-> m.offset, last |-> m.last, disturbed |-> FALSE]
  <2>1. /\ state' = "subscribed" /\ attempt' = attempt + 1 /\ recover' = TRUE
        /\ epoch' = m.epoch /\ offset' = m.offset
        /\ origin' = IF m.recovered THEN origin ELSE m.offset
        /\ handlers' = handlers \cup {h} /\ UNCHANGED <<pending, log>>
    BY <1>6 DEF MoveSubscribed, Start
  <2>2. /\ h.conn = session /\ h.session = attempt + 1 /\ h.kind = "subscribed"
        /\ h.epoch = m.epoch /\ h.offset = m.offset /\ h.last = m.last /\ ~h.disturbed
    OBVIOUS
  <2>3. /\ m.epoch \in Nat /\ m.epoch # 0 /\ m.offset \in Nat /\ m.last \in Nat
        /\ m.recovered \in BOOLEAN
    BY <1>1, <1>6, MessageFacts
  <2>4. Answered(1)
    BY <1>1, <1>6 DEF Answered
  <2>5. /\ m.offset <= m.last
        /\ Feed(messages, 1 + 1, m.epoch, m.last, Live, top)
        /\ m.recovered => recover /\ m.epoch = epoch /\ m.offset = offset
        /\ ~m.recovered /\ m.epoch = epoch => offset <= m.offset
    BY <1>1, <1>6, <2>4 DEF Places, Answers
  <2>6. commands = <<>> /\ \A j \in 2..Len(messages) : messages[j].op \notin Replies
    BY <1>1, <2>4 DEF Orderly, AnsweredLast
  <2>7. /\ Known(m.epoch, m.offset, stream_epoch, top)
        /\ Known(m.epoch, m.last, stream_epoch, top)
    BY <1>1 DEF Places, KnownMessages
  <2>8. /\ ~(attempt + 1 <= attempt)
        /\ \A g \in handlers : g.session # attempt + 1
        /\ pending.session # attempt + 1
        /\ \A f \in flows : f.attempt # attempt + 1
    BY Facts DEF Orderly, SessionNumbers, FlowNumbers
  <2>9. HasAll(log, m.epoch, origin', m.offset)
    <3>1. CASE m.recovered
      BY <2>1, <2>3, <2>5, <3>1, Reached DEF Places, Unknown
    <3>2. CASE ~m.recovered
      BY <2>1, <2>3, <3>2, HasAllSame
    <3> QED
      BY <3>1, <3>2
  <2>10. Feed(messages', 1, m.epoch, m.last, Live', top')
    <3>1. Live' = Live /\ top' = top
      BY <1>1 DEF Live
    <3>2. Feed(Tail(messages), 1, m.epoch, m.last, Live, top)
      BY <1>1, <2>3, <2>5, FeedTail, Facts
    <3> QED
      BY <1>1, <3>1, <3>2
  <2> HIDE DEF h, m
  <2>11. Ahead(h) = m.last
    BY <2>2, <2>3, <2>5 DEF Ahead
  <2>12. NoPosition' /\ PositionReached' /\ NoneYet'
    <3>1. NoneYet'
      BY <1>1, <2>1, <2>8 DEF NoneYet
    <3> QED
      BY <2>1, <2>3, <2>9, <3>1, Reached DEF NoPosition, Unknown
  <2>13. KnownPlace' /\ KnownHandlers'
    BY <1>1, <2>1, <2>2, <2>7, <2>8 DEF Places, KnownPlace, KnownHandlers
  <2>15. KnownMessages'
    BY <1>1, <1>3 DEF Places, KnownMessages
  <2>16. Waiting' /\ Answers'
    BY <1>1, <2>6, <1>3 DEF Waiting, Answers, Answered
  <2>17. SessionPlace' /\ SessionPending'
    BY <2>1, <2>3, <2>8 DEF SessionPlace, SessionPending, Unknown
  <2>18. \A g \in handlers' : g.session = attempt' => g = h
    BY <2>1, <2>8
  <2>19. SessionHandler'
    <3>1. offset' <= h.offset /\ HasAll(log', epoch', origin', h.offset)
      BY <2>1, <2>2, <2>3, <2>9
    <3>2. Feed(messages', 1, epoch', Ahead(h), Live', top')
      BY <2>1, <2>10, <2>11
    <3> QED
      BY <1>1, <2>1, <2>2, <2>18, <3>1, <3>2 DEF SessionHandler
  <2>20. SessionIdle'
    BY <2>1, <2>2 DEF SessionIdle
  <2> QED
    BY <2>12, <2>13, <2>15, <2>16, <2>17, <2>19, <2>20 DEF Places, InSession
<1> QED
  BY <1>4, <1>5, <1>6 DEF ReplyArrives, historyVars

\* The publication after o is handed to the application; o is the position.
LEMMA PlaceHand ==
    ASSUME PlaceInv, Orderly', state = "subscribed",
           UNCHANGED <<session, state, attempt, recover, epoch, origin, flows, held, stream_epoch,
                       top>>,
           NEW others \in SUBSET handlers, \A g \in others : g.session # attempt,
           NEW o \in Nat, NEW last \in Nat,
           Hand(others, attempt, epoch, o + 1, last), offset' = o, offset <= o,
           HasAll(log, epoch, origin, o),
           Known(epoch, o, stream_epoch, top), Known(epoch, o + 1, stream_epoch, top),
           Known(epoch, last, stream_epoch, top),
           Feed(messages', 1, epoch, IF o + 1 < last THEN last ELSE o + 1, Live', top'),
           KnownMessages'
    PROVE  Places'
<1> USE DEF PlaceInv
<1> DEFINE h == [conn |-> session, session |-> attempt, kind |-> "publication", epoch |-> epoch,
                 offset |-> o + 1, last |-> last, disturbed |-> FALSE]
           x == [epoch |-> epoch, offset |-> o + 1]
<1>1. /\ handlers' = others \cup {h} /\ pending' = [session |-> attempt, offset |-> o + 1]
      /\ log' = Append(log, x)
  BY DEF Hand
<1>2. /\ h.conn = session /\ h.session = attempt /\ h.kind = "publication" /\ h.epoch = epoch
      /\ h.offset = o + 1 /\ h.last = last /\ ~h.disturbed
  OBVIOUS
<1>3. pending'.session = attempt /\ pending'.offset = o + 1
  BY <1>1
<1>4. recover /\ epoch # Unknown
  BY DEF Places, InSession, SessionPlace
<1>5. x \in Publication
  BY <1>4, Facts DEF Publication, Unknown
<1>6. HasAll(log', epoch, origin, o) /\ HasAll(log', epoch, origin, o + 1)
  <2>1. log \in Seq(Publication) /\ origin \in Nat
    BY DEF Types, LogTypes
  <2>2. /\ HasAll(Append(log, x), epoch, origin, o)
        /\ HasAll(Append(log, x), epoch, origin, o + 1)
    BY <1>5, <2>1, HasAllMore
  <2> QED
    BY <1>1, <2>2
<1> HIDE DEF h, x
<1>7. NoPosition' /\ PositionReached' /\ NoneYet'
  <2>1. NoneYet'
    BY DEF Places, NoneYet
  <2> QED
    BY <1>4, <1>6, <2>1, Reached DEF NoPosition
<1>8. KnownPlace'
  BY <1>3 DEF KnownPlace
<1>9. KnownHandlers'
  BY <1>1, <1>2 DEF Places, KnownHandlers
<1>10. Waiting' /\ Answers'
  BY DEF Orderly, SentLast, AnsweredLast, Waiting, Answers
<1>11. SessionPlace'
  BY <1>4 DEF SessionPlace
<1>12. offset' <= o + 1
  OBVIOUS
<1>13. SessionPending'
  BY <1>3, <1>6, <1>12 DEF SessionPending
<1>14. \A g \in handlers' : g.session = attempt => g = h
  BY <1>1
<1>15. Ahead(h) = IF o + 1 < last THEN last ELSE o + 1
  BY <1>2 DEF Ahead
<1>16. SessionHandler'
  BY <1>2, <1>6, <1>12, <1>14, <1>15 DEF SessionHandler
<1>17. SessionIdle'
  BY <1>1, <1>2 DEF SessionIdle
<1> QED
  BY <1>7, <1>8, <1>9, <1>10, <1>11, <1>13, <1>16, <1>17 DEF Places, InSession

LEMMA PlacePublication == ASSUME PlaceInv, Orderly', PublicationArrives PROVE Places'
<1> USE DEF PlaceInv
<1>1. /\ messages # <<>> /\ messages' = Tail(messages) /\ Head(messages) = messages[1]
      /\ 1 \in 1..Len(messages) /\ messages[1].op = "publication" /\ ~Busy
      /\ UNCHANGED <<commands, held, stream_epoch, top, session, state, attempt, recover, epoch,
                     offset, origin, flows>>
  BY Facts DEF PublicationArrives, Receives, linkVars, streamVars
<1>2. KnownMessages'
  <2>1. \A i \in 1..Len(messages') : i + 1 \in 1..Len(messages) /\ messages'[i] = messages[i + 1]
    BY <1>1, Facts
  <2> QED
    BY <1>1, <2>1 DEF Places, KnownMessages
<1>3. CASE state # "subscribed"
  <2>1. UNCHANGED <<handlers, pending, log>>
    BY <1>3 DEF PublicationArrives
  <2>2. PlaceLeft
    BY <1>1, <2>1 DEF PlaceLeft
  <2>3. Waiting' /\ Answers'
    BY <1>1, <2>1, AnswersTail DEF Places, Waiting, Sent
  <2> QED
    BY <1>1, <1>3, <2>1, <2>2, <2>3, PlaceOver
<1>4. CASE state = "subscribed"
  <2>1. \A g \in handlers : g.session # attempt
    BY <1>1, <1>4 DEF Places, InSession, SessionHandler, Busy
  <2>2. Feed(messages, 1, epoch, offset, Live, top)
    BY <1>4, <2>1 DEF Places, InSession, SessionIdle
  <2>3. /\ messages[1].epoch = epoch /\ messages[1].offset = offset + 1
        /\ Feed(Tail(messages), 1, epoch, offset + 1, Live, top)
    BY <1>1, <2>2, FeedTaken, Facts
  <2>4. Hand(handlers, attempt, epoch, offset + 1, 0)
    BY <1>1, <1>4, <2>3 DEF PublicationArrives
  <2>5. Feed(messages', 1, epoch, IF offset + 1 < 0 THEN 0 ELSE offset + 1, Live', top')
    <3>1. Live' = Live /\ ~(offset + 1 < 0)
      BY <1>1, Facts DEF Live
    <3> QED
      BY <1>1, <2>3, <3>1
  <2>6. /\ Known(epoch, offset, stream_epoch, top)
        /\ Known(epoch, offset + 1, stream_epoch, top)
        /\ Known(epoch, 0, stream_epoch, top)
    <3>1. Known(epoch, messages[1].offset, stream_epoch, top)
      BY <1>1, <2>3 DEF Places, KnownMessages
    <3>2. Known(epoch, offset, stream_epoch, top)
      BY DEF Places, KnownPlace
    <3>3. Known(epoch, 0, stream_epoch, top)
      BY <3>2, Facts DEF Known
    <3> QED
      BY <2>3, <3>1, <3>2, <3>3
  <2>7. HasAll(log, epoch, origin, offset) /\ offset <= offset /\ offset \in Nat
    BY <1>4, Reached, Facts DEF Places, InSession, SessionPlace
  <2> QED
    BY <1>1, <1>2, <1>4, <2>1, <2>4, <2>5, <2>6, <2>7, PlaceHand
<1> QED
  BY <1>3, <1>4

LEMMA PlaceReturns == ASSUME PlaceInv, Orderly', HandlerReturns PROVE Places'
<1> USE DEF PlaceInv
<1>1. PICK h \in handlers : HandlerReturns!(h)
  BY DEF HandlerReturns
<1>2. UNCHANGED <<session, state, attempt, recover, epoch, origin, flows, commands, messages, held,
                  stream_epoch, top>>
  BY <1>1 DEF linkVars, streamVars
<1>3. KnownMessages' /\ Live' = Live
  BY <1>2, Still DEF Places, Live
<1>4. CASE ~(state = "subscribed" /\ h.session = attempt)
  <2>1. ~SessionCurrent(h.session) /\ ~MoreRecovered(h)
    BY <1>4 DEF SessionCurrent, MoreRecovered
  <2>2. offset' = offset /\ handlers' = handlers \ {h} /\ UNCHANGED log
    BY <1>1, <2>1
  <2>3. pending' = pending \/ (pending' = NotPending /\ pending.session = h.session)
    BY <1>1, <2>1
  <2>4. CASE state # "subscribed"
    <3>1. PlaceLeft
      BY <1>2, <2>2 DEF PlaceLeft
    <3>2. Waiting' /\ Answers'
      <4>1. MessagesGoOn /\ FeedsGoOn
        BY <1>2, Still
      <4> QED
        BY <1>2, <2>2, <4>1, AnswersGoOn DEF Places, Waiting, Sent
    <3>3. NoneYet' /\ NoPosition' /\ PositionReached'
      BY <1>2, <2>2, Reached DEF Places, NoneYet, NoPosition
    <3>4. KnownPlace' /\ KnownHandlers'
      BY <1>2, <2>2, <2>4 DEF Places, KnownPlace, KnownHandlers
    <3>5. InSession'
      BY <1>2, <2>4 DEF InSession, SessionPlace, SessionPending, SessionHandler, SessionIdle
    <3> QED
      BY <1>3, <3>2, <3>3, <3>4, <3>5 DEF Places
  <2>5. CASE state = "subscribed" /\ h.session # attempt
    <3>1. attempt \in Nat /\ attempt # 0
      BY <2>5 DEF Types, SubTypes
    <3>2. pending'.session = attempt => pending' = pending
      BY <2>3, <2>5, <3>1 DEF NotPending
    <3>3. NoneYet' /\ NoPosition' /\ PositionReached'
      BY <1>2, <2>2, Reached DEF Places, NoneYet, NoPosition
    <3>4. KnownPlace' /\ KnownHandlers'
      BY <1>2, <2>2, <3>2 DEF Places, KnownPlace, KnownHandlers
    <3>5. Waiting' /\ Answers'
      BY <1>2, <2>5 DEF Orderly, SentLast, AnsweredLast, Waiting, Answers
    <3>6. SessionPlace' /\ SessionPending'
      BY <1>2, <2>2, <3>2 DEF Places, InSession, SessionPlace, SessionPending
    <3>7. SessionHandler' /\ SessionIdle'
      BY <1>2, <1>3, <2>2, <2>5 DEF Places, InSession, SessionHandler, SessionIdle
    <3> QED
      BY <1>3, <3>3, <3>4, <3>5, <3>6, <3>7 DEF Places, InSession
  <2> QED
    BY <1>4, <2>4, <2>5
<1>5. CASE state = "subscribed" /\ h.session = attempt
  <2>1. /\ h.conn = session /\ h.epoch = epoch /\ ~h.disturbed
        /\ \A g \in handlers : g.session = attempt => g = h
        /\ h.kind = "subscribed" => h.offset = offset
        /\ h.kind = "publication" => offset < h.offset
        /\ offset <= h.offset /\ HasAll(log, epoch, origin, h.offset)
        /\ Feed(messages, 1, epoch, Ahead(h), Live, top)
    BY <1>5 DEF Places, InSession, SessionHandler
  <2>2. /\ h.offset \in Nat /\ h.last \in Nat /\ h.kind \in {"subscribed", "publication"}
    BY HandlerFacts
  <2>3. SessionCurrent(h.session)
    BY <1>5 DEF SessionCurrent
  <2>4. offset' = h.offset
    BY <1>1, <2>1, <2>2, <2>3
  <2>5. /\ Known(epoch, h.offset, stream_epoch, top)
        /\ Known(epoch, h.last, stream_epoch, top)
    BY <2>1 DEF Places, KnownHandlers
  <2>6. CASE MoreRecovered(h)
    <3>1. Hand(handlers \ {h}, attempt, epoch, h.offset + 1, h.last)
      BY <1>1, <1>5, <2>1, <2>6
    <3>2. h.offset < h.last /\ h.offset + 1 <= h.last
      BY <2>2, <2>6 DEF MoreRecovered
    <3>3. Known(epoch, h.offset + 1, stream_epoch, top)
      BY <2>2, <2>5, <3>2, Facts DEF Known
    <3>4. (IF h.offset + 1 < h.last THEN h.last ELSE h.offset + 1) = h.last /\ Ahead(h) = h.last
      BY <2>2, <3>2 DEF Ahead
    <3>5. Feed(messages', 1, epoch, IF h.offset + 1 < h.last THEN h.last ELSE h.offset + 1, Live', top')
      BY <1>2, <1>3, <2>1, <3>4
    <3>6. \A g \in handlers \ {h} : g.session # attempt
      BY <2>1
    <3> QED
      BY <1>2, <1>3, <1>5, <2>1, <2>2, <2>4, <2>5, <3>1, <3>3, <3>5, <3>6, PlaceHand
  <2>7. CASE ~MoreRecovered(h)
    <3>1. handlers' = handlers \ {h} /\ UNCHANGED log
      BY <1>1, <2>7
    <3>2. /\ h.kind = "subscribed" => pending' = pending
          /\ pending' = pending \/ pending' = NotPending
          /\ h.kind = "publication" /\ pending.session = attempt => pending' = NotPending
      BY <1>1, <1>5, <2>7
    <3>3. ~(h.offset < h.last) /\ Ahead(h) = h.offset
      BY <2>3, <2>7 DEF MoreRecovered, Ahead
    <3>4. attempt \in Nat /\ attempt # 0
      BY <1>5 DEF Types, SubTypes
    <3>5. pending'.session = attempt => pending' = pending /\ offset' = offset
      BY <2>1, <2>2, <2>4, <3>2, <3>4 DEF NotPending
    <3>6. recover /\ epoch # Unknown
      BY <1>5 DEF Places, InSession, SessionPlace
    <3>7. NoneYet' /\ NoPosition' /\ PositionReached'
      <4>1. NoneYet'
        BY <1>2 DEF Places, NoneYet
      <4> QED
        BY <1>2, <2>1, <2>4, <3>1, <3>6, <4>1, Reached DEF NoPosition
    <3>8. KnownPlace' /\ KnownHandlers'
      BY <1>2, <2>4, <2>5, <3>1, <3>5 DEF Places, KnownPlace, KnownHandlers
    <3>9. Waiting' /\ Answers'
      BY <1>2, <1>5 DEF Orderly, SentLast, AnsweredLast, Waiting, Answers
    <3>10. SessionPlace' /\ SessionPending'
      BY <1>2, <3>1, <3>5 DEF Places, InSession, SessionPlace, SessionPending
    <3>11. SessionHandler'
      BY <1>2, <2>1, <3>1 DEF SessionHandler
    <3>12. SessionIdle'
      BY <1>2, <1>3, <2>1, <2>4, <3>3 DEF SessionIdle
    <3> QED
      BY <1>3, <3>7, <3>8, <3>9, <3>10, <3>11, <3>12 DEF Places, InSession
  <2> QED
    BY <2>6, <2>7
<1> QED
  BY <1>4, <1>5

LEMMA PlaceStep == PlaceInv /\ [Next]_vars => PlaceInv'
<1>1. ASSUME PlaceInv, [Next]_vars PROVE Types' /\ Orderly'
  BY <1>1, TypeStep, NumberStep DEF PlaceInv
<1>2. ASSUME PlaceInv, UNCHANGED vars PROVE Places'
  <2> USE DEF PlaceInv
  <2>1. /\ UNCHANGED <<session, state, attempt, recover, epoch, offset, pending, flows, handlers,
                       commands, messages, held, stream_epoch, top, log, origin>>
        /\ top' \in Nat
    BY <1>2, Facts DEF vars, linkVars, subVars, streamVars, historyVars
  <2>2. StreamGoesOn /\ MessagesGoOn /\ FeedsGoOn /\ KnownMessages'
    BY <1>2, <2>1, Still DEF Places
  <2> QED
    BY <1>2, <2>1, <2>2, PlaceQuiet
<1>3. ASSUME PlaceInv, Types', Orderly', Next PROVE Places'
  BY <1>3, PlaceUnsubscribe, PlaceLost, PlaceRaises, PlacePushed, PlaceStartFlow, PlaceGetState,
     PlaceServerSubscribes, PlaceServer, PlaceOther, PlaceReply, PlacePublication, PlaceReturns
     DEF Next, Application, Wire, Server
<1> QED
  BY <1>1, <1>2, <1>3 DEF PlaceInv

LEMMA PlaceInit == Init => PlaceInv
<1> SUFFICES ASSUME Init PROVE PlaceInv
  OBVIOUS
<1>1. Types /\ Orderly
  BY TypeInit, NumberInit
<1>2. NoPosition /\ NoneYet /\ KnownPlace /\ KnownMessages /\ KnownHandlers
  BY DEF Init, NoPosition, NoneYet, KnownPlace, KnownMessages, KnownHandlers, Known, Unknown
<1>3. Waiting /\ Answers /\ PositionReached
  BY DEF Init, Waiting, Answers, PositionReached
<1>4. InSession
  BY DEF Init, InSession, SessionPlace, SessionPending, SessionHandler, SessionIdle
<1> QED
  BY <1>1, <1>2, <1>3, <1>4 DEF PlaceInv, Places

\* The inductive invariant about attempt numbers and places holds in every reachable
\* state: positions never run ahead of the stream, and what is on the wire continues
\* the position of the session without a gap.
THEOREM PositionPlaces == Spec => []PlaceInv
<1>1. Init => PlaceInv
  BY PlaceInit
<1>2. PlaceInv /\ [Next]_vars => PlaceInv'
  BY PlaceStep
<1> QED
  BY <1>1, <1>2, PTL DEF Spec

\* Nothing is skipped: the application was given every publication between the position
\* it was told to start from and the one the subscription recovers from.
THEOREM PositionIsReached == Spec => []PositionReached
<1>1. PlaceInv => PositionReached
  BY DEF PlaceInv, Places
<1> QED
  BY <1>1, PositionPlaces, PTL

LEMMA BackStep ==
    ASSUME PlaceInv, [Next]_vars
    PROVE  epoch' = epoch => offset' >= offset
<1> USE DEF PlaceInv
<1>1. CASE UNCHANGED offset
  BY <1>1, Facts
<1>2. CASE \/ state = "subscribed" /\ offset' = Committed
           \/ offset' = 0 /\ epoch' = Unknown
  BY <1>2, CommittedPlace, Facts DEF Places, NoPosition
<1>3. ASSUME Unsubscribe \/ LoseConnection \/ UnsubscribedByServer
      PROVE  epoch' = epoch => offset' >= offset
  <2>1. \/ UNCHANGED offset
        \/ state = "subscribed" /\ offset' = Committed
        \/ offset' = 0 /\ epoch' = Unknown
    BY <1>3 DEF Unsubscribe, LoseConnection, UnsubscribedByServer, KeepPosition, ForgetPosition,
       subVars
  <2> QED
    BY <1>1, <1>2, <2>1
<1>4. ASSUME GetStateReturns PROVE epoch' = epoch => offset' >= offset
  <2>1. PICK f \in flows, o \in 0..top : GetStateReturns!(f, o)
    BY <1>4 DEF GetStateReturns
  <2>2. CASE ~Loads(f)
    BY <1>1, <2>1, <2>2
  <2>3. CASE Loads(f)
    <3>1. epoch = Unknown
      BY <2>1, <2>3 DEF Loads, Places, NoneYet, NoPosition
    <3>2. epoch' = stream_epoch /\ stream_epoch # Unknown
      BY <2>1, <2>3, Facts DEF Unknown
    <3> QED
      BY <3>1, <3>2
  <2> QED
    BY <2>2, <2>3
<1>5. ASSUME ReplyArrives PROVE epoch' = epoch => offset' >= offset
  <2> DEFINE m == messages[1]
  <2>1. messages # <<>> /\ m = Head(messages) /\ 1 \in 1..Len(messages)
    BY <1>5, Facts DEF ReplyArrives, Receives
  <2>2. CASE attempt = m.attempt /\ m.op = "subscribed" /\ epoch' = m.epoch /\ offset' = m.offset
    <3>1. Answered(1)
      BY <2>2 DEF Answered, Replies
    <3>2. /\ m.recovered => m.epoch = epoch /\ m.offset = offset
          /\ ~m.recovered /\ m.epoch = epoch => offset <= m.offset
      BY <2>1, <2>2, <3>1 DEF Places, Answers
    <3>3. m.recovered \in BOOLEAN /\ m.offset \in Nat
      BY <2>1, MessageFacts
    <3> HIDE DEF m
    <3>4. CASE m.recovered
      BY <2>2, <3>2, <3>4, Facts
    <3>5. CASE ~m.recovered
      BY <2>2, <3>2, <3>3, <3>5, Facts
    <3> QED
      BY <3>4, <3>5
  <2>3. CASE UNCHANGED offset \/ (offset' = 0 /\ epoch' = Unknown)
    BY <1>1, <1>2, <2>3
  <2> QED
    BY <1>5, <2>1, <2>2, <2>3 DEF ReplyArrives, MoveSubscribed, Start, subVars
<1>6. ASSUME HandlerReturns PROVE epoch' = epoch => offset' >= offset
  <2>1. PICK h \in handlers : HandlerReturns!(h)
    BY <1>6 DEF HandlerReturns
  <2>2. CASE UNCHANGED offset
    BY <1>1, <2>2
  <2>3. CASE SessionCurrent(h.session) /\ offset' = h.offset
    <3>1. offset <= h.offset
      BY <2>3 DEF SessionCurrent, Places, InSession, SessionHandler
    <3> QED
      BY <2>3, <3>1, HandlerFacts, Facts
  <2> QED
    BY <2>1, <2>2, <2>3
<1>7. ASSUME \/ Subscribe \/ Connect \/ Connected \/ StartFlow \/ GetStateFails
             \/ PublicationArrives \/ HandlerRaises \/ Server
             \/ Publish \/ ServerPushes \/ HistoryLost
             \/ UNCHANGED vars
      PROVE  UNCHANGED offset
  BY <1>7, RaisesKeep DEF Subscribe, Connect, Connected, StartFlow, GetStateFails,
     PublicationArrives, Server, ServerSubscribes, ServerUnsubscribes, Publish, ServerPushes,
     HistoryLost, vars, subVars
<1> QED
  BY <1>1, <1>3, <1>4, <1>5, <1>6, <1>7 DEF Next, Application, Wire

\* The position never moves back within an epoch.
THEOREM PositionNeverBack == Spec => NeverBack
<1>1. PlaceInv /\ [Next]_vars => [epoch' = epoch => offset' >= offset]_vars
  BY BackStep
<1> QED
  BY <1>1, PositionPlaces, PTL DEF Spec, NeverBack

\* What RaisedComesAgain says of one step: of the handlers of a session, only the one
\* that raises is gone, and its publication is after the position, which stays.
LEMMA RaisedStep ==
    ASSUME PlaceInv, [Next]_vars, NEW h \in handlers, Raises(h), SessionCurrent(h.session)
    PROVE  recover' /\ epoch' = h.epoch /\ offset' < h.offset
<1> USE DEF PlaceInv
<1>1. raises' # raises
  BY DEF Raises
<1>2. HandlerRaises
  BY <1>1 DEF Next, Application, Wire, Server, Subscribe, Unsubscribe, Connect, Connected,
     LoseConnection, StartFlow, GetStateReturns, GetStateFails, ReplyArrives, PublicationArrives,
     UnsubscribedByServer, Receives, HandlerReturns, ServerSubscribes, ServerUnsubscribes,
     Publish, ServerPushes, HistoryLost, vars
<1>3. PICK g \in handlers :
          /\ g.kind = "publication"
          /\ handlers' = {[k EXCEPT !.disturbed = TRUE] : k \in handlers \ {g}}
  BY <1>2 DEF HandlerRaises
<1>4. h = g
  BY <1>3 DEF Raises
<1>5. UNCHANGED <<recover, epoch, offset>>
  BY <1>2, RaisesKeep DEF HandlerRaises
<1>6. state = "subscribed" /\ h.session = attempt
  BY DEF SessionCurrent
<1> QED
  BY <1>3, <1>4, <1>5, <1>6 DEF Places, InSession, SessionPlace, SessionHandler

\* A publication whose handler raises in its session stays after the position the
\* subscription recovers from, so that it comes again (_publication_failed()).
THEOREM RaisedStaysAhead == Spec => RaisedComesAgain
<1>1. ASSUME PlaceInv, [Next]_vars
      PROVE  [\A h \in handlers :
                Raises(h) /\ SessionCurrent(h.session)
                => recover' /\ epoch' = h.epoch /\ offset' < h.offset]_vars
  BY <1>1, RaisedStep
<1> QED
  BY <1>1, PositionPlaces, PTL DEF Spec, RaisedComesAgain

-----------------------------------------------------------------------------
(***************************************************************************)
(* Order: what was delivered of an epoch is not past the position that     *)
(* will be committed, nor past the one a reply on the way brings.          *)
(***************************************************************************)

\* Where the subscription would leave the session.
Limit == IF state = "subscribed" THEN Committed ELSE offset

\* Nothing of epoch e after o was delivered.
Behind(lg, e, o) == \A i \in 1..Len(lg) : lg[i].epoch = e => lg[i].offset <= o

InOrder(lg) ==
    \A i, j \in 1..Len(lg) : i < j /\ lg[i].epoch = lg[j].epoch => lg[i].offset < lg[j].offset

KnownLog == \A i \in 1..Len(log) : Known(log[i].epoch, log[i].offset, stream_epoch, top)

Bounded ==
    /\ raises <= MaxRaises
    /\ \A f \in flows : f.pc = "getState" => get_state

AnswersBehind ==
    \A i \in 1..Len(messages) : Answered(i) /\ messages[i].op = "subscribed" =>
        Behind(log, messages[i].epoch, messages[i].offset)

\* The publication being handled is pending for as long as its handler runs.
HandlerPending ==
    state = "subscribed" =>
        /\ \A h \in handlers : h.session = attempt =>
             IF h.kind = "publication"
             THEN pending = [session |-> attempt, offset |-> h.offset]
             ELSE pending.session # attempt
        /\ pending.session = attempt => \E h \in handlers : h.session = attempt

Delivered ==
    InOrder(log) /\ Behind(log, epoch, Limit) /\ AnswersBehind /\ HandlerPending

Calm == ~get_state /\ raises = MaxRaises

Deliveries == KnownLog /\ Bounded /\ (Calm => Delivered)

LEMMA LogFacts ==
    ASSUME Types
    PROVE  /\ log \in Seq(Publication) /\ Len(log) \in Nat
           /\ \A i \in 1..Len(log) : log[i].epoch \in Nat \ {0} /\ log[i].offset \in Nat \ {0}
<1>1. log \in Seq(Publication) /\ Len(log) \in Nat
  BY DEF Types, LogTypes
<1>2. \A i \in 1..Len(log) : log[i] \in Publication
  BY <1>1
<1> QED
  BY <1>1, <1>2 DEF Publication

LEMMA KnownLogGoesOn ==
    ASSUME Types, KnownLog, StreamGoesOn, top' \in Nat, UNCHANGED log
    PROVE  KnownLog'
BY KnownLater, LogFacts DEF KnownLog

\* No reply comes that was not there: it is behind as it was.
LEMMA AnswersBehindStay ==
    ASSUME Types, Orderly, AnswersBehind, NoNewReply, UNCHANGED log,
           attempt' \in {attempt, attempt + 1}
    PROVE  AnswersBehind'
<1>1. \A i \in 1..Len(messages') : messages'[i].op \in Replies =>
          \E j \in 1..Len(messages) : messages'[i] = messages[j]
  BY DEF NoNewReply
<1>2. CASE attempt' = attempt
  BY <1>1, <1>2 DEF AnswersBehind, Answered
<1>3. CASE attempt' = attempt + 1
  <2>1. ~(attempt' <= attempt)
    BY <1>3, Facts
  <2> QED
    BY <1>1, <2>1 DEF Orderly, WireNumbers, AnswersBehind, Answered
<1> QED
  BY <1>2, <1>3

\* Nothing is delivered, and the position stays or is forgotten.
LEMMA OrderKept ==
    ASSUME PlaceInv, Deliveries, UNCHANGED <<log, get_state, raises>>, StreamGoesOn, top' \in Nat,
           NoNewReply, attempt' \in {attempt, attempt + 1},
           \A f \in flows' : f.pc = "getState" => f \in flows \/ get_state,
           (epoch' = epoch /\ Limit' = Limit) \/ epoch' = Unknown,
           state' # "subscribed" \/ UNCHANGED <<state, attempt, pending, handlers>>
    PROVE  Deliveries'
<1> USE DEF PlaceInv
<1>1. KnownLog'
  BY KnownLogGoesOn DEF Deliveries
<1>2. Bounded'
  BY DEF Deliveries, Bounded
<1>3. ASSUME Calm' PROVE Delivered'
  <2>1. Delivered
    BY <1>3 DEF Deliveries, Calm
  <2>2. InOrder(log')
    BY <2>1 DEF Delivered
  <2>3. Behind(log', epoch', Limit')
    BY <2>1, LogFacts DEF Delivered, Behind, Unknown
  <2>4. AnswersBehind'
    BY <2>1, AnswersBehindStay DEF Delivered
  <2>5. HandlerPending'
    BY <2>1 DEF Delivered, HandlerPending
  <2> QED
    BY <2>2, <2>3, <2>4, <2>5 DEF Delivered
<1> QED
  BY <1>1, <1>2, <1>3 DEF Deliveries

\* What was left of the session is where it would leave it.
LEMMA LimitKept ==
    ASSUME KeepPosition(Committed) \/ ForgetPosition, state' # "subscribed"
    PROVE  (epoch' = epoch /\ Limit' = Limit) \/ epoch' = Unknown
BY DEF KeepPosition, ForgetPosition, Limit

LEMMA OrderApplication ==
    ASSUME PlaceInv, Deliveries, Application \/ Connected \/ LoseConnection \/ GetStateFails
    PROVE  Deliveries'
<1> USE DEF PlaceInv
<1>1. /\ UNCHANGED <<log, get_state, raises, stream_epoch, top>> /\ flows' \subseteq flows
      /\ attempt' \in {attempt, attempt + 1}
      /\ messages' = messages \/ messages' = <<>>
  BY DEF Application, Subscribe, Unsubscribe, Connect, Connected, LoseConnection, GetStateFails,
     CloseConnection, Link!Close, linkVars, subVars, streamVars, historyVars
<1>2. StreamGoesOn /\ top' \in Nat /\ NoNewReply
  BY <1>1, Facts, MessagesKept DEF StreamGoesOn
<1>3. ASSUME UNCHANGED <<state, attempt, pending, handlers, epoch, offset>> PROVE Deliveries'
  BY <1>1, <1>2, <1>3, OrderKept DEF Limit, Committed, EndsWith
<1>4. CASE Subscribe
  BY <1>1, <1>2, <1>4, OrderKept DEF Subscribe, Limit
<1>5. CASE Connect \/ Connected \/ GetStateFails
  BY <1>3, <1>5 DEF Connect, Connected, GetStateFails, subVars
<1>6. CASE Unsubscribe \/ LoseConnection
  <2>1. (KeepPosition(Committed) \/ ForgetPosition) /\ state' # "subscribed"
    BY <1>6 DEF Unsubscribe, LoseConnection, CloseConnection
  <2> QED
    BY <1>1, <1>2, <2>1, LimitKept, OrderKept
<1> QED
  BY <1>4, <1>5, <1>6 DEF Application

LEMMA OrderServer ==
    ASSUME PlaceInv, Types', Deliveries, ServerUnsubscribes \/ Publish \/ ServerPushes \/ HistoryLost
    PROVE  Deliveries'
<1> USE DEF PlaceInv
<1>1. StreamGoesOn /\ MessagesGoOn /\ top' \in Nat
  BY ServerGoesOn DEF Places, Types, StreamTypes
<1>2. UNCHANGED <<log, get_state, raises, state, attempt, pending, handlers, epoch, offset, flows>>
  BY DEF ServerUnsubscribes, Publish, ServerPushes, HistoryLost, linkVars, subVars, historyVars
<1>3. NoNewReply
  <2>1. \A i \in 1..Len(messages') : messages'[i].op \in Replies =>
            i + 0 \in 1..Len(messages) /\ messages'[i] = messages[i + 0]
    BY <1>1, Facts DEF MessagesGoOn
  <2> QED
    BY <2>1 DEF NoNewReply
<1>4. Limit' = Limit
  BY <1>2 DEF Limit, Committed, EndsWith
<1> QED
  BY <1>1, <1>2, <1>3, <1>4, OrderKept

LEMMA OrderFlows ==
    ASSUME PlaceInv, Types', Deliveries, StartFlow \/ GetStateReturns
    PROVE  Deliveries'
<1> USE DEF PlaceInv
<1>1. UNCHANGED <<log, get_state, raises, state, pending, handlers, messages, stream_epoch, top>>
  BY DEF StartFlow, GetStateReturns, linkVars, streamVars, historyVars
<1>2. StreamGoesOn /\ top' \in Nat /\ NoNewReply
  BY <1>1, Facts, MessagesKept DEF StreamGoesOn
<1>3. CASE StartFlow
  <2>1. /\ UNCHANGED <<epoch, offset>> /\ state' # "subscribed" /\ attempt' = attempt + 1
        /\ Limit' = Limit
    BY <1>1, <1>3 DEF StartFlow, NextAttempt, Limit
  <2>2. \A f \in flows' : f.pc = "getState" => f \in flows \/ get_state
    BY <1>3 DEF StartFlow
  <2> QED
    BY <1>1, <1>2, <2>1, <2>2, OrderKept
<1>4. CASE GetStateReturns
  <2>1. PICK f \in flows, o \in 0..top : GetStateReturns!(f, o)
    BY <1>4 DEF GetStateReturns
  <2>2. get_state
    BY <2>1 DEF Deliveries, Bounded
  <2>3. KnownLog'
    BY <1>1, <1>2, KnownLogGoesOn DEF Deliveries
  <2> QED
    BY <1>1, <2>2, <2>3 DEF Deliveries, Calm, Bounded
<1> QED
  BY <1>3, <1>4

LEMMA OrderRaises == ASSUME PlaceInv, Deliveries, HandlerRaises PROVE Deliveries'
<1> USE DEF PlaceInv
<1>1. /\ UNCHANGED <<log, get_state, stream_epoch, top>> /\ flows' \subseteq flows
      /\ raises > 0 /\ raises' = raises - 1
  BY DEF HandlerRaises, CloseConnection, streamVars
<1>2. raises' <= MaxRaises /\ raises' # MaxRaises
  <2>1. raises <= MaxRaises /\ raises \in Nat /\ MaxRaises \in Nat
    BY BoundsAssumption DEF Deliveries, Bounded, Types, BoundTypes
  <2> QED
    BY <1>1, <2>1
<1>3. StreamGoesOn /\ top' \in Nat
  BY <1>1, Facts DEF StreamGoesOn
<1>4. KnownLog'
  BY <1>1, <1>3, KnownLogGoesOn DEF Deliveries
<1>5. Bounded'
  BY <1>1, <1>2 DEF Deliveries, Bounded
<1> QED
  BY <1>2, <1>4, <1>5 DEF Deliveries, Calm

LEMMA OrderPushed == ASSUME PlaceInv, Deliveries, UnsubscribedByServer PROVE Deliveries'
<1> USE DEF PlaceInv
<1>1. /\ messages # <<>> /\ messages' = Tail(messages)
      /\ UNCHANGED <<log, get_state, raises, flows, handlers, stream_epoch, top>>
  BY DEF UnsubscribedByServer, Receives, linkVars, streamVars, historyVars
<1>2. StreamGoesOn /\ top' \in Nat /\ NoNewReply
  BY <1>1, Facts, MessagesKept DEF StreamGoesOn
<1>3. CASE UNCHANGED <<state, attempt, pending, epoch, offset>>
  <2>1. Limit' = Limit
    BY <1>3 DEF Limit, Committed, EndsWith
  <2> QED
    BY <1>1, <1>2, <1>3, <2>1, OrderKept
<1>4. CASE /\ state' = "subscribing" /\ attempt' = attempt + 1
           /\ KeepPosition(Committed) \/ ForgetPosition
  <2>1. (epoch' = epoch /\ Limit' = Limit) \/ epoch' = Unknown
    BY <1>4, LimitKept
  <2> QED
    BY <1>1, <1>2, <1>4, <2>1, OrderKept
<1> QED
  BY <1>3, <1>4 DEF UnsubscribedByServer, subVars

\* Of a reply that does not recover: nothing after the end of the stream was delivered.
LEMMA OrderServerSubscribes ==
    ASSUME PlaceInv, PlaceInv', Deliveries, ServerSubscribes
    PROVE  Deliveries'
<1> USE DEF PlaceInv
<1>1. /\ commands # <<>> /\ 1 \in 1..Len(commands) /\ Head(commands) = commands[1]
      /\ UNCHANGED <<log, get_state, raises, flows, handlers, stream_epoch, top, state, attempt,
                     pending, epoch, offset>>
  BY Facts DEF ServerSubscribes, linkVars, subVars, streamVars, historyVars
<1>2. state # "subscribed"
  BY <1>1 DEF Orderly, SubscribedLast
<1>3. StreamGoesOn /\ top' \in Nat
  BY <1>1, Facts DEF StreamGoesOn
<1>4. KnownLog' /\ Bounded'
  BY <1>1, <1>3, KnownLogGoesOn DEF Deliveries, Bounded
<1>5. ASSUME Calm' PROVE Delivered'
  <2>1. Delivered
    BY <1>1, <1>5 DEF Deliveries, Calm
  <2>2. InOrder(log') /\ Behind(log', epoch', Limit') /\ HandlerPending'
    BY <1>1, <1>2, <2>1 DEF Delivered, Limit, HandlerPending
  <2>3. ASSUME NEW i \in 1..Len(messages'), Answered(i)', messages'[i].op = "subscribed"
        PROVE  Behind(log', messages'[i].epoch, messages'[i].offset)
    <3>1. ~messages'[i].recovered =>
             messages'[i].epoch = stream_epoch /\ messages'[i].offset = top
      <4>1. ~(i \in 1..Len(messages) /\ messages'[i] = messages[i])
        BY <1>1, <2>3 DEF Orderly, AnsweredLast, Answered
      <4>2. \/ messages' = Append(messages, Reply("subscribed", stream_epoch, commands[1].offset,
                                                 top, TRUE))
            \/ messages' = Append(messages, Reply("unrecoverable", Unknown, 0, 0, FALSE))
            \/ messages' = Append(messages, Reply("subscribed", stream_epoch, top, top, FALSE))
        BY <1>1 DEF ServerSubscribes, Deliver, Reply
      <4>3. \A m : messages' = Append(messages, m) => messages'[i] = m
        BY <2>3, <4>1, Facts
      <4> QED
        BY <2>3, <4>2, <4>3 DEF Reply
    <3>2. CASE messages'[i].recovered
      <4>1. messages'[i].epoch = epoch /\ messages'[i].offset = offset
        BY <1>1, <2>3, <3>2 DEF Places, Answers
      <4> QED
        BY <1>1, <1>2, <2>1, <4>1 DEF Delivered, Limit
    <3>3. CASE ~messages'[i].recovered
      <4>1. messages'[i].epoch = stream_epoch /\ messages'[i].offset = top
        BY <3>1, <3>3
      <4>2. Behind(log, stream_epoch, top)
        BY DEF Deliveries, KnownLog, Known, Behind
      <4> QED
        BY <1>1, <4>1, <4>2
    <3> QED
      BY <3>2, <3>3
  <2> QED
    BY <2>2, <2>3 DEF Delivered, AnswersBehind
<1> QED
  BY <1>4, <1>5 DEF Deliveries

LEMMA OrderReply == ASSUME PlaceInv, Deliveries, ReplyArrives PROVE Deliveries'
<1> USE DEF PlaceInv
<1> DEFINE m == Head(messages)
<1>1. /\ messages # <<>> /\ messages' = Tail(messages) /\ m = messages[1]
      /\ m.op \in Replies /\ 1 \in 1..Len(messages) /\ flows' \subseteq flows
      /\ UNCHANGED <<get_state, raises, stream_epoch, top>>
  BY Facts DEF ReplyArrives, Receives, Replies, linkVars, streamVars
<1>2. state # "subscribed"
  BY <1>1, NoReplyInSession
<1>3. StreamGoesOn /\ top' \in Nat /\ NoNewReply
  BY <1>1, Facts, MessagesKept DEF StreamGoesOn
<1>4. CASE UNCHANGED subVars /\ UNCHANGED <<handlers, historyVars>>
  <2>1. UNCHANGED <<state, attempt, epoch, offset, pending, handlers, log>>
    BY <1>4 DEF subVars, historyVars
  <2>2. Limit' = Limit
    BY <2>1 DEF Limit, Committed, EndsWith
  <2> QED
    BY <1>1, <1>3, <2>1, <2>2, OrderKept
<1>5. CASE epoch' = Unknown /\ UNCHANGED <<state, attempt, pending, handlers, historyVars>>
  <2>1. UNCHANGED log
    BY <1>5 DEF historyVars
  <2> QED
    BY <1>1, <1>3, <1>5, <2>1, OrderKept
<1>6. CASE attempt = m.attempt /\ m.op = "subscribed" /\ MoveSubscribed(m)
  <2>1. /\ state' = "subscribed" /\ attempt' = attempt + 1
        /\ epoch' = m.epoch /\ offset' = m.offset /\ UNCHANGED <<pending, log>>
        /\ \A h \in handlers' : h \in handlers \/ (h.session = attempt + 1 /\ h.kind = "subscribed")
    BY <1>6 DEF MoveSubscribed, Start
  <2>2. /\ ~(attempt + 1 <= attempt) /\ pending.session # attempt + 1
        /\ \A h \in handlers : h.session # attempt + 1
    BY Facts DEF Orderly, SessionNumbers
  <2>3. KnownLog' /\ Bounded'
    BY <1>1, <1>3, <2>1, KnownLogGoesOn DEF Deliveries, Bounded
  <2>4. ASSUME Calm' PROVE Delivered'
    <3>1. Delivered
      BY <1>1, <2>4 DEF Deliveries, Calm
    <3>2. Answered(1)
      BY <1>1, <1>6 DEF Answered
    <3>3. Behind(log, m.epoch, m.offset)
      BY <1>1, <1>6, <3>1, <3>2 DEF Delivered, AnswersBehind
    <3>4. Limit' = m.offset
      BY <2>1, <2>2 DEF Limit, Committed, EndsWith
    <3>5. InOrder(log') /\ Behind(log', epoch', Limit')
      BY <2>1, <3>1, <3>3, <3>4 DEF Delivered
    <3>6. AnswersBehind'
      BY <1>3, <2>1, <3>1, AnswersBehindStay DEF Delivered
    <3>7. HandlerPending'
      BY <2>1, <2>2 DEF HandlerPending
    <3> QED
      BY <3>5, <3>6, <3>7 DEF Delivered
  <2> QED
    BY <2>3, <2>4 DEF Deliveries
<1> QED
  BY <1>4, <1>5, <1>6 DEF ReplyArrives, historyVars

\* The publication after o is delivered, when nothing after o was.
LEMMA OrderHand ==
    ASSUME PlaceInv, Orderly', Deliveries, state = "subscribed",
           UNCHANGED <<state, attempt, epoch, flows, get_state, raises, stream_epoch, top>>,
           NEW others \in SUBSET handlers, \A g \in others : g.session # attempt,
           NEW o \in Nat, NEW last \in Nat, Hand(others, attempt, epoch, o + 1, last),
           Known(epoch, o + 1, stream_epoch, top), Calm => Behind(log, epoch, o)
    PROVE  Deliveries'
<1> USE DEF PlaceInv
<1> DEFINE x == [epoch |-> epoch, offset |-> o + 1]
           new == [conn |-> session, session |-> attempt, kind |-> "publication", epoch |-> epoch,
                   offset |-> o + 1, last |-> last, disturbed |-> FALSE]
<1>1. /\ log' = Append(log, x) /\ pending' = [session |-> attempt, offset |-> o + 1]
      /\ \A h \in handlers' : \/ h \in others
                              \/ /\ h.session = attempt /\ h.kind = "publication"
                                 /\ h.offset = o + 1
      /\ \E h \in handlers' : h.session = attempt
  <2>1. /\ log' = Append(log, x) /\ pending' = [session |-> attempt, offset |-> o + 1]
        /\ handlers' = others \cup {new}
    BY DEF Hand
  <2>2. new.session = attempt /\ new.kind = "publication" /\ new.offset = o + 1
    OBVIOUS
  <2> HIDE DEF new, x
  <2> QED
    BY <2>1, <2>2
<1>2. x.epoch = epoch /\ x.offset = o + 1 /\ pending'.session = attempt /\ pending'.offset = o + 1
  BY <1>1
<1> HIDE DEF x
<1>3. /\ Len(log') = Len(log) + 1 /\ log'[Len(log')] = x /\ Len(log) \in Nat
      /\ \A i \in 1..Len(log) : log'[i] = log[i]
      /\ \A i \in 1..Len(log') : i \in 1..Len(log) \/ i = Len(log')
  BY <1>1, LogFacts
<1>4. KnownLog'
  BY <1>2, <1>3 DEF Deliveries, KnownLog
<1>5. Bounded'
  BY DEF Deliveries, Bounded
<1>6. ASSUME Calm' PROVE Delivered'
  <2>1. Delivered /\ Behind(log, epoch, o)
    BY <1>6 DEF Deliveries, Calm
  <2>2. Limit' = o + 1
    <3>1. pending'.offset > 0 /\ pending'.session = attempt'
      BY <1>2
    <3>2. Committed' = pending'.offset
      BY <3>1 DEF Committed, EndsWith
    <3> QED
      BY <1>2, <3>2 DEF Limit
  <2>3. ASSUME NEW i \in 1..Len(log), log[i].epoch = epoch
        PROVE  log[i].offset < o + 1
    <3>1. log[i].offset <= o /\ log[i].offset \in Nat
      BY <2>1, <2>3, LogFacts DEF Behind
    <3> QED
      BY <3>1
  <2>4. Behind(log', epoch', Limit')
    <3>1. \A i \in 1..Len(log) : log[i].epoch = epoch => log[i].offset <= o + 1
      BY <2>3, LogFacts
    <3>2. o + 1 <= o + 1
      OBVIOUS
    <3> QED
      BY <1>2, <1>3, <2>2, <3>1, <3>2 DEF Behind
  <2>5. InOrder(log')
    <3> SUFFICES ASSUME NEW i \in 1..Len(log'), NEW j \in 1..Len(log'), i < j,
                        log'[i].epoch = log'[j].epoch
                 PROVE  log'[i].offset < log'[j].offset
      BY DEF InOrder
    <3>1. i \in 1..Len(log)
      BY <1>3
    <3>2. CASE j \in 1..Len(log)
      BY <1>3, <2>1, <3>1, <3>2 DEF Delivered, InOrder
    <3>3. CASE j = Len(log')
      BY <1>2, <1>3, <2>3, <3>1, <3>3
    <3> QED
      BY <1>3, <3>2, <3>3
  <2>6. AnswersBehind'
    BY DEF Orderly, AnsweredLast, AnswersBehind
  <2>7. HandlerPending'
    BY <1>1 DEF HandlerPending
  <2> QED
    BY <2>4, <2>5, <2>6, <2>7 DEF Delivered
<1> QED
  BY <1>4, <1>5, <1>6 DEF Deliveries

LEMMA OrderPublication == ASSUME PlaceInv, Orderly', Deliveries, PublicationArrives PROVE Deliveries'
<1> USE DEF PlaceInv
<1>1. /\ messages # <<>> /\ messages' = Tail(messages) /\ Head(messages) = messages[1]
      /\ 1 \in 1..Len(messages) /\ messages[1].op = "publication" /\ ~Busy
      /\ UNCHANGED <<get_state, raises, stream_epoch, top, state, attempt, epoch, offset, flows>>
  BY Facts DEF PublicationArrives, Receives, linkVars, streamVars
<1>2. CASE state # "subscribed"
  <2>1. UNCHANGED <<handlers, pending, log>> /\ Limit' = Limit
    BY <1>1, <1>2 DEF PublicationArrives, Limit
  <2>2. StreamGoesOn /\ top' \in Nat /\ NoNewReply
    BY <1>1, Facts, MessagesKept DEF StreamGoesOn
  <2> QED
    BY <1>1, <1>2, <2>1, <2>2, OrderKept
<1>3. CASE state = "subscribed"
  <2>1. \A g \in handlers : g.session # attempt
    BY <1>1, <1>3 DEF Places, InSession, SessionHandler, Busy
  <2>2. Feed(messages, 1, epoch, offset, Live, top)
    BY <1>3, <2>1 DEF Places, InSession, SessionIdle
  <2>3. messages[1].epoch = epoch /\ messages[1].offset = offset + 1
    BY <1>1, <2>2, FeedTaken, Facts
  <2>4. Hand(handlers, attempt, epoch, offset + 1, 0)
    BY <1>1, <1>3, <2>3 DEF PublicationArrives
  <2>5. Known(epoch, offset + 1, stream_epoch, top)
    BY <1>1, <2>3 DEF Places, KnownMessages
  <2>6. Calm => Behind(log, epoch, offset)
    <3>1. Calm => pending.session # attempt
      BY <1>3, <2>1 DEF Deliveries, Delivered, HandlerPending
    <3>2. pending.session # attempt => Limit = offset
      BY DEF Limit, Committed, EndsWith
    <3> QED
      BY <3>1, <3>2 DEF Deliveries, Delivered
  <2>7. offset \in Nat
    BY Facts
  <2> QED
    BY <1>1, <1>3, <2>1, <2>4, <2>5, <2>6, <2>7, OrderHand
<1> QED
  BY <1>2, <1>3

LEMMA OrderReturns == ASSUME PlaceInv, Orderly', Deliveries, HandlerReturns PROVE Deliveries'
<1> USE DEF PlaceInv
<1>1. PICK h \in handlers : HandlerReturns!(h)
  BY DEF HandlerReturns
<1>2. UNCHANGED <<state, attempt, epoch, flows, get_state, raises, messages, stream_epoch, top>>
  BY <1>1 DEF linkVars, streamVars
<1>3. StreamGoesOn /\ top' \in Nat /\ NoNewReply
  BY <1>2, Facts, MessagesKept DEF StreamGoesOn
<1>4. CASE state # "subscribed"
  <2>1. offset' = offset /\ UNCHANGED log
    BY <1>1, <1>4 DEF SessionCurrent, MoreRecovered
  <2>2. Limit' = Limit
    BY <1>2, <1>4, <2>1 DEF Limit
  <2> QED
    BY <1>2, <1>3, <1>4, <2>1, <2>2, OrderKept
<1>5. CASE state = "subscribed" /\ h.session # attempt
  <2>1. /\ offset' = offset /\ UNCHANGED log /\ handlers' = handlers \ {h}
        /\ pending' = pending \/ (pending' = NotPending /\ pending.session = h.session)
    BY <1>1, <1>5 DEF SessionCurrent, MoreRecovered
  <2>2. attempt # 0
    BY <1>5 DEF Types, SubTypes
  <2>3. pending' = pending \/ (pending'.session # attempt /\ pending.session # attempt)
    BY <1>5, <2>1, <2>2 DEF NotPending
  <2>4. Limit' = Limit
    BY <1>2, <2>1, <2>3 DEF Limit, Committed, EndsWith
  <2>5. KnownLog' /\ Bounded'
    BY <1>2, <1>3, <2>1, KnownLogGoesOn DEF Deliveries, Bounded
  <2>6. ASSUME Calm' PROVE Delivered'
    <3>1. Delivered
      BY <1>2, <2>6 DEF Deliveries, Calm
    <3>2. InOrder(log') /\ Behind(log', epoch', Limit')
      BY <1>2, <2>1, <2>4, <3>1 DEF Delivered
    <3>3. AnswersBehind'
      BY <1>2, <1>3, <2>1, <3>1, AnswersBehindStay DEF Delivered
    <3>4. \A g \in handlers : g.session = attempt =>
            IF g.kind = "publication"
            THEN pending = [session |-> attempt, offset |-> g.offset]
            ELSE pending.session # attempt
      BY <1>5, <3>1 DEF Delivered, HandlerPending
    <3>5. pending.session = attempt => \E g \in handlers : g.session = attempt
      BY <1>5, <3>1 DEF Delivered, HandlerPending
    <3>6. ASSUME NEW g \in handlers', g.session = attempt
          PROVE  IF g.kind = "publication"
                 THEN pending' = [session |-> attempt, offset |-> g.offset]
                 ELSE pending'.session # attempt
      BY <2>1, <2>3, <3>4, <3>6
    <3>7. pending'.session = attempt => \E g \in handlers' : g.session = attempt
      BY <1>5, <2>1, <2>3, <3>5
    <3>8. HandlerPending'
      BY <1>2, <3>6, <3>7 DEF HandlerPending
    <3> QED
      BY <3>2, <3>3, <3>8 DEF Delivered
  <2> QED
    BY <2>5, <2>6 DEF Deliveries
<1>6. CASE state = "subscribed" /\ h.session = attempt
  <2>1. /\ h.epoch = epoch /\ ~h.disturbed
        /\ \A g \in handlers : g.session = attempt => g = h
        /\ h.kind = "subscribed" => h.offset = offset
        /\ offset <= h.offset
    BY <1>6 DEF Places, InSession, SessionHandler
  <2>2. /\ h.offset \in Nat /\ h.last \in Nat /\ h.kind \in {"subscribed", "publication"}
    BY HandlerFacts
  <2>3. SessionCurrent(h.session)
    BY <1>6 DEF SessionCurrent
  <2>4. offset' = h.offset
    BY <1>1, <2>1, <2>2, <2>3
  <2>5. Calm => Behind(log, epoch, h.offset)
    <3> SUFFICES ASSUME Calm PROVE Behind(log, epoch, h.offset)
      OBVIOUS
    <3>1. Delivered
      BY DEF Deliveries
    <3>2. Limit = h.offset
      <4>1. CASE h.kind = "publication"
        <5>1. pending.session = attempt /\ pending.offset = h.offset
          BY <1>6, <3>1, <4>1 DEF Delivered, HandlerPending
        <5>2. h.offset = 0 => offset = h.offset
          BY <2>1, <2>2, Facts
        <5>3. h.offset # 0 => h.offset > 0
          BY <2>2
        <5> QED
          BY <1>6, <5>1, <5>2, <5>3 DEF Limit, Committed, EndsWith
      <4>2. CASE h.kind = "subscribed"
        <5>1. pending.session # attempt
          BY <1>6, <3>1, <4>2 DEF Delivered, HandlerPending
        <5> QED
          BY <1>6, <2>1, <4>2, <5>1 DEF Limit, Committed, EndsWith
      <4> QED
        BY <2>2, <4>1, <4>2
    <3> QED
      BY <3>1, <3>2 DEF Delivered
  <2>6. CASE MoreRecovered(h)
    <3>1. Hand(handlers \ {h}, attempt, epoch, h.offset + 1, h.last)
      BY <1>1, <1>6, <2>1, <2>6
    <3>2. h.offset + 1 <= h.last
      BY <2>2, <2>6 DEF MoreRecovered
    <3>3. Known(epoch, h.last, stream_epoch, top)
      BY <2>1 DEF Places, KnownHandlers
    <3>4. Known(epoch, h.offset + 1, stream_epoch, top)
      BY <2>2, <3>2, <3>3, Facts DEF Known
    <3>5. \A g \in handlers \ {h} : g.session # attempt
      BY <2>1
    <3> QED
      BY <1>2, <1>6, <2>2, <2>5, <3>1, <3>4, <3>5, OrderHand
  <2>7. CASE ~MoreRecovered(h)
    <3>1. handlers' = handlers \ {h} /\ UNCHANGED log
      BY <1>1, <2>7
    <3>2. /\ h.kind = "subscribed" => pending' = pending
          /\ h.kind = "publication" /\ pending.session = attempt => pending' = NotPending
          /\ pending' = pending \/ pending' = NotPending
      BY <1>1, <1>6, <2>7
    <3>3. attempt # 0
      BY <1>6 DEF Types, SubTypes
    <3>4. \A g \in handlers' : g.session # attempt
      BY <2>1, <3>1
    <3>5. KnownLog' /\ Bounded'
      BY <1>2, <1>3, <3>1, KnownLogGoesOn DEF Deliveries, Bounded
    <3>6. ASSUME Calm' PROVE Delivered'
      <4>1. Delivered /\ Behind(log, epoch, h.offset)
        BY <1>2, <2>5, <3>6 DEF Deliveries, Calm
      <4>2. pending'.session # attempt
        <5>1. h.kind = "subscribed" => pending.session # attempt
          BY <1>6, <4>1 DEF Delivered, HandlerPending
        <5> QED
          BY <2>2, <3>2, <3>3, <5>1 DEF NotPending
      <4>3. Limit' = h.offset
        BY <1>2, <2>4, <4>2 DEF Limit, Committed, EndsWith
      <4>4. InOrder(log') /\ Behind(log', epoch', Limit')
        BY <1>2, <3>1, <4>1, <4>3 DEF Delivered
      <4>5. AnswersBehind'
        BY <1>2, <1>3, <3>1, <4>1, AnswersBehindStay DEF Delivered
      <4>6. HandlerPending'
        BY <1>2, <3>4, <4>2 DEF HandlerPending
      <4> QED
        BY <4>4, <4>5, <4>6 DEF Delivered
    <3> QED
      BY <3>5, <3>6 DEF Deliveries
  <2> QED
    BY <2>6, <2>7
<1> QED
  BY <1>4, <1>5, <1>6

OrderInv == PlaceInv /\ Deliveries

LEMMA OrderStep == OrderInv /\ [Next]_vars => OrderInv'
<1>1. ASSUME OrderInv, [Next]_vars PROVE PlaceInv' /\ Types' /\ Orderly'
  BY <1>1, PlaceStep DEF OrderInv, PlaceInv
<1>2. ASSUME OrderInv, UNCHANGED vars PROVE Deliveries'
  <2>1. /\ UNCHANGED <<log, get_state, raises, flows, state, attempt, epoch, offset, pending, handlers,
                       messages, stream_epoch, top>>
    BY <1>2 DEF vars, linkVars, subVars, streamVars, historyVars
  <2>2. StreamGoesOn /\ top' \in Nat /\ NoNewReply
    BY <1>2, <2>1, Facts, MessagesKept DEF StreamGoesOn, OrderInv, PlaceInv
  <2>3. Limit' = Limit
    BY <2>1 DEF Limit, Committed, EndsWith
  <2> QED
    BY <1>2, <2>1, <2>2, <2>3, OrderKept DEF OrderInv
<1>3. ASSUME PlaceInv, Deliveries, PlaceInv', Types', Orderly', Next PROVE Deliveries'
  BY <1>3, OrderApplication, OrderServer, OrderFlows, OrderRaises, OrderPushed,
     OrderServerSubscribes, OrderReply, OrderPublication, OrderReturns DEF Next, Wire, Server
<1> QED
  BY <1>1, <1>2, <1>3 DEF OrderInv

LEMMA OrderInit == Init => OrderInv
<1> SUFFICES ASSUME Init PROVE OrderInv
  OBVIOUS
<1>1. PlaceInv
  BY PlaceInit
<1>2. KnownLog /\ Bounded
  <2>1. MaxRaises \in Nat
    BY BoundsAssumption
  <2> QED
    BY <2>1 DEF Init, KnownLog, Bounded
<1>3. InOrder(log) /\ Behind(log, epoch, Limit) /\ AnswersBehind /\ HandlerPending
  BY DEF Init, InOrder, Behind, AnswersBehind, HandlerPending
<1> QED
  BY <1>1, <1>2, <1>3 DEF OrderInv, Deliveries, Delivered

\* Nothing is given twice or out of order, as long as no handler of the application
\* raises, for a subscription without get_state.
THEOREM PositionInOrderOnce == Spec => []InOrderOnce
<1>1. Init => OrderInv
  BY OrderInit
<1>2. OrderInv /\ [Next]_vars => OrderInv'
  BY OrderStep
<1>3. OrderInv => InOrderOnce
  BY DEF OrderInv, Deliveries, Delivered, Calm, InOrder, InOrderOnce
<1> QED
  BY <1>1, <1>2, <1>3, PTL DEF Spec
=============================================================================
