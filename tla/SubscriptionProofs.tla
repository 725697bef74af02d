--------------------------- MODULE SubscriptionProofs ---------------------------
(***************************************************************************)
(* Theorems about SubscriptionFlow, for every application and every number *)
(* of calls, faults and sessions: types, the future, the resubscribe timer,*)
(* the work that is under way while subscribing, and the refinement of     *)
(* ConnectionStates.  SubscriptionServerProofs adds what the server holds. *)
(***************************************************************************)
EXTENDS SubscriptionFlow, TLAPS

-----------------------------------------------------------------------------
(* Type correctness *)

\* What the server answers to a subscribe command.
Answer == {m \in Message : m.op = "subscribe" => m.out \in SubscribeError \cup {"ok"}}

FutureType == [n : Nat, st : {"pending", "result", "exception"}]

ConnTypes ==
    /\ app \in App
    /\ transport_id \in Nat \ {0} /\ session \in {0, transport_id} /\ announcing \in BOOLEAN
SubTypes ==
    /\ state \in SubscriptionState /\ attempt \in Nat
    /\ subscribed_future \in FutureType /\ resubscribe_timer \in BOOLEAN
DataTypes == token \in BOOLEAN /\ recover \in BOOLEAN
TaskTypes == callers \in Nat /\ starting \in Nat /\ scheduling \in Nat
FlowTypes == flows \subseteq Flow
MoveTypes == moving \subseteq [conn : Nat \ {0}, attempt : Nat]
WireTypes ==
    /\ commands \in Seq(Command) /\ messages \in Seq(Answer)
    /\ held \in BOOLEAN /\ refused \in {"no", "sent", "seen"}
BoundTypes == calls \in Nat /\ faults \in Nat

Types ==
    /\ ConnTypes /\ SubTypes /\ DataTypes /\ TaskTypes
    /\ FlowTypes /\ MoveTypes /\ WireTypes /\ BoundTypes

LEMMA TypesGiveTypeOK == Types => TypeOK
<1> SUFFICES ASSUME Types PROVE TypeOK
  OBVIOUS
<1>1. messages \in Seq(Message)
  BY DEF Types, WireTypes, Answer
<1> QED
  BY <1>1 DEF TypeOK, Types, FutureType, ConnTypes, SubTypes, DataTypes, TaskTypes, FlowTypes,
     MoveTypes, WireTypes, BoundTypes

\* The groups of variables that a step leaves alone keep their types.
LEMMA Unchanged ==
    ASSUME Types
    PROVE  /\ UNCHANGED linkVars => ConnTypes'
           /\ UNCHANGED subVars => SubTypes'
           /\ UNCHANGED dataVars => DataTypes'
           /\ UNCHANGED taskVars => TaskTypes'
           /\ UNCHANGED flows => FlowTypes'
           /\ UNCHANGED moving => MoveTypes'
           /\ UNCHANGED wireVars => WireTypes'
           /\ UNCHANGED <<calls, faults>> => BoundTypes'
<1> USE DEF Types
<1>1. (UNCHANGED linkVars => ConnTypes') /\ (UNCHANGED subVars => SubTypes')
  BY DEF linkVars, ConnTypes, subVars, SubTypes
<1>2. (UNCHANGED dataVars => DataTypes') /\ (UNCHANGED taskVars => TaskTypes')
  BY DEF dataVars, DataTypes, taskVars, TaskTypes
<1>3. (UNCHANGED flows => FlowTypes') /\ (UNCHANGED moving => MoveTypes')
  BY DEF FlowTypes, MoveTypes
<1>4. (UNCHANGED wireVars => WireTypes') /\ (UNCHANGED <<calls, faults>> => BoundTypes')
  BY DEF wireVars, WireTypes, BoundTypes
<1> QED
  BY <1>1, <1>2, <1>3, <1>4

LEMMA FreshFutureType ==
    ASSUME NEW f \in FutureType
    PROVE  /\ FreshFuture(f) \in FutureType
           /\ FreshFuture(f).st = "pending"
           /\ f.st = "pending" => FreshFuture(f) = f
BY DEF FreshFuture, Done, FutureType

LEMMA AtType ==
    ASSUME flows \subseteq Flow, NEW f \in flows, NEW pc \in FlowPc, NEW out \in Outcome
    PROVE  /\ [f EXCEPT !.pc = pc, !.out = out] \in Flow
           /\ At(f, pc, out) \subseteq Flow
BY DEF At, Flow

LEMMA BoundSteps ==
    ASSUME BoundTypes
    PROVE  /\ Call /\ UNCHANGED faults => BoundTypes'
           /\ Fault /\ UNCHANGED calls => BoundTypes'
BY DEF BoundTypes, Call, Fault

LEMMA MoveUnsubscribedType ==
    ASSUME SubTypes, MoveUnsubscribed
    PROVE  SubTypes'
<1>1. subscribed_future' \in FutureType
  BY FreshFutureType DEF SubTypes, MoveUnsubscribed, FutureType
<1> QED
  BY <1>1 DEF SubTypes, MoveUnsubscribed, SubscriptionState

LEMMA EnterSubscribingType ==
    ASSUME SubTypes, EnterSubscribing
    PROVE  SubTypes'
BY FreshFutureType DEF SubTypes, EnterSubscribing, SubscriptionState

LEMMA ScheduleType ==
    ASSUME SubTypes, ScheduleResubscribe, UNCHANGED <<state, attempt, subscribed_future>>
    PROVE  SubTypes'
BY DEF SubTypes, ScheduleResubscribe

LEMMA InvalidateType ==
    ASSUME ConnTypes, DataTypes, Invalidate
    PROVE  DataTypes'
<1>1. app.get_token \in BOOLEAN
  BY DEF ConnTypes, App
<1> QED
  BY <1>1 DEF DataTypes, Invalidate

LEMMA CloseType ==
    ASSUME Types, NEW rest \in SUBSET flows, CloseConnection(rest)
    PROVE  ConnTypes' /\ SubTypes' /\ FlowTypes' /\ WireTypes'
<1>1. ConnTypes'
  <2>1. /\ transport_id' = transport_id + 1 /\ session' = 0
        /\ announcing' = FALSE /\ app' = app
    BY DEF CloseConnection, Link!Close
  <2>2. app' \in App /\ announcing' \in BOOLEAN
    BY <2>1 DEF Types, ConnTypes
  <2>3. transport_id' \in Nat \ {0} /\ session' \in {0, transport_id'}
    BY <2>1 DEF Types, ConnTypes
  <2> QED
    BY <2>2, <2>3 DEF ConnTypes
<1>2. SubTypes'
  <2>1. EnterSubscribing \/ UNCHANGED subVars
    BY DEF CloseConnection
  <2> QED
    BY <2>1, EnterSubscribingType, Unchanged DEF Types
<1>3. FlowTypes'
  BY DEF FlowTypes, Types, CloseConnection
<1>4. WireTypes'
  <2>1. commands' = <<>> /\ messages' = <<>> /\ held' = FALSE /\ refused' = "no"
    BY DEF CloseConnection
  <2>2. held' \in BOOLEAN /\ refused' \in {"no", "sent", "seen"}
    BY <2>1
  <2> QED
    BY <2>1, <2>2 DEF WireTypes
<1> QED
  BY <1>1, <1>2, <1>3, <1>4

LEMMA SendType ==
    ASSUME WireTypes, NEW op \in {"subscribe", "unsubscribe"}, NEW i \in Nat, Send(op, i)
    PROVE  commands' \in Seq(Command)
BY DEF WireTypes, Send, Command

LEMMA DeliverType ==
    ASSUME WireTypes, NEW op \in {"subscribe", "unsubscribe", "push"}, NEW i \in Nat,
           NEW out \in Outcome \cup {"refused", "terminal", "again", "invalidated"},
           op = "subscribe" => out \in SubscribeError \cup {"ok"},
           Deliver(op, i, out)
    PROVE  messages' \in Seq(Answer)
<1>1. [op |-> op, attempt |-> i, out |-> out] \in Answer
  BY DEF Answer, Message
<1> QED
  BY <1>1 DEF WireTypes, Deliver

LEMMA ProceedType ==
    ASSUME Types, NEW others \in SUBSET Flow, NEW f \in Flow, Proceed(others, f)
    PROVE  FlowTypes' /\ commands' \in Seq(Command)
<1>1. [f EXCEPT !.pc = "token"] \in Flow /\ [f EXCEPT !.pc = "reply"] \in Flow
      /\ f.attempt \in Nat
  BY DEF Flow, FlowPc
<1> QED
  BY <1>1, SendType DEF Proceed, FlowTypes, Types, WireTypes

LEMMA TypeApplication ==
    ASSUME Types, Application
    PROVE  Types'
<1> USE DEF Types
<1>1. CASE Subscribe
  <2>1. SubTypes'
    BY <1>1, FreshFutureType DEF Subscribe, SubTypes, SubscriptionState
  <2>2. TaskTypes' /\ BoundTypes'
    BY <1>1, BoundSteps DEF Subscribe, TaskTypes
  <2> QED
    BY <1>1, <2>1, <2>2, Unchanged DEF Subscribe
<1>2. CASE Unsubscribe
  <2>1. commands' \in Seq(Command)
    BY <1>2, SendType DEF Unsubscribe, WireTypes
  <2>2. WireTypes' /\ BoundTypes'
    BY <1>2, <2>1, BoundSteps DEF Unsubscribe, WireTypes
  <2> QED
    BY <1>2, <2>2, MoveUnsubscribedType, Unchanged DEF Unsubscribe
<1> QED
  BY <1>1, <1>2 DEF Application

LEMMA TypeConnection ==
    ASSUME Types, Connected \/ ConnectedHandlerReturns \/ LoseConnection
    PROVE  Types'
<1> USE DEF Types
<1>1. CASE Connected
  <2>1. ConnTypes'
    BY <1>1 DEF Connected, ConnTypes, Link!Open
  <2> QED
    BY <1>1, <2>1, Unchanged DEF Connected
<1>2. CASE ConnectedHandlerReturns
  <2>1. announcing' \in BOOLEAN /\ resubscribe_timer' \in BOOLEAN
    BY <1>2 DEF ConnectedHandlerReturns, SubTypes
  <2>2. ConnTypes' /\ SubTypes'
    BY <1>2, <2>1 DEF ConnectedHandlerReturns, ConnTypes, SubTypes
  <2>3. TaskTypes'
    BY <1>2 DEF ConnectedHandlerReturns, TaskTypes
  <2> QED
    BY <1>2, <2>2, <2>3, Unchanged DEF ConnectedHandlerReturns
<1>3. CASE LoseConnection
  <2>1. ConnTypes' /\ SubTypes' /\ FlowTypes' /\ WireTypes'
    BY <1>3, CloseType DEF LoseConnection
  <2>2. DataTypes'
    BY <1>3, InvalidateType, Unchanged DEF LoseConnection
  <2> QED
    BY <1>3, <2>1, <2>2, BoundSteps, Unchanged DEF LoseConnection
<1> QED
  BY <1>1, <1>2, <1>3

\* The flow ends, or waits at another place.
LEMMA FlowSteps ==
    ASSUME Types, NEW f \in flows
    PROVE  /\ Ends(f) => FlowTypes'
           /\ \A pc \in FlowPc, out \in Outcome : flows' = At(f, pc, out) => FlowTypes'
BY AtType DEF Types, FlowTypes, Ends

LEMMA TypeStart ==
    ASSUME Types, StartFlow
    PROVE  Types'
<1> USE DEF Types
<1>1. TaskTypes'
  BY DEF StartFlow, TaskTypes
<1>2. SubTypes'
  BY DEF StartFlow, SubTypes
<1>3. FlowTypes' /\ commands' \in Seq(Command)
  <2>1. CASE UNCHANGED <<flows, commands>>
    BY <2>1 DEF FlowTypes, WireTypes
  <2>2. CASE flows' = flows \cup {NewFlow} \/ Proceed(flows, NewFlow)
    <3>1. NewFlow \in Flow
      BY DEF NewFlow, Flow, FlowPc, Outcome, ConnTypes, SubTypes
    <3>2. CASE Proceed(flows, NewFlow)
      BY <3>1, <3>2, ProceedType DEF FlowTypes
    <3>3. CASE flows' = flows \cup {NewFlow} /\ UNCHANGED commands
      BY <3>1, <3>3 DEF FlowTypes, WireTypes
    <3> QED
      BY <2>2, <3>2, <3>3 DEF StartFlow
  <2> QED
    BY <2>1, <2>2 DEF StartFlow
<1>4. WireTypes'
  BY <1>3 DEF StartFlow, WireTypes
<1> QED
  BY <1>1, <1>2, <1>3, <1>4, Unchanged DEF StartFlow

LEMMA TypeState ==
    ASSUME Types,
           GetStateReturns \/ GetStateFails \/ GetStateCancelled \/ StateHandlerReturns
             \/ Schedule
    PROVE  Types'
<1> USE DEF Types
<1>1. CASE GetStateReturns
  <2>1. PICK f \in flows : GetStateReturns!(f)
    BY <1>1 DEF GetStateReturns
  <2>2. FlowTypes' /\ commands' \in Seq(Command)
    BY <2>1, ProceedType, FlowSteps DEF FlowTypes, WireTypes
  <2>3. WireTypes'
    BY <2>1, <2>2 DEF WireTypes
  <2>4. DataTypes'
    BY <2>1 DEF DataTypes
  <2> QED
    BY <2>1, <2>2, <2>3, <2>4, Unchanged
<1>2. CASE GetStateFails
  <2>1. FlowTypes'
    BY <1>2, FlowSteps DEF GetStateFails, FlowPc, Outcome
  <2> QED
    BY <1>2, <2>1, BoundSteps, Unchanged DEF GetStateFails
<1>3. CASE GetStateCancelled
  <2>1. FlowTypes'
    BY <1>3, FlowSteps DEF GetStateCancelled
  <2> QED
    BY <1>3, <2>1, BoundSteps, Unchanged DEF GetStateCancelled
<1>4. CASE StateHandlerReturns
  <2>1. FlowTypes' /\ TaskTypes'
    BY <1>4, FlowSteps DEF StateHandlerReturns, TaskTypes
  <2> QED
    BY <1>4, <2>1, Unchanged DEF StateHandlerReturns
<1>5. CASE Schedule
  <2>1. TaskTypes' /\ SubTypes'
    BY <1>5, ScheduleType DEF Schedule, TaskTypes
  <2> QED
    BY <1>5, <2>1, Unchanged DEF Schedule
<1> QED
  BY <1>1, <1>2, <1>3, <1>4, <1>5

LEMMA TypeToken ==
    ASSUME Types, TokenReturns \/ TokenFails \/ TokenHandlerReturns
    PROVE  Types'
<1> USE DEF Types
<1>1. CASE TokenReturns
  <2>1. PICK f \in flows : TokenReturns!(f)
    BY <1>1 DEF TokenReturns
  <2>2. FlowTypes'
    BY <2>1, FlowSteps DEF FlowPc, Outcome
  <2>3. f.attempt \in Nat
    BY DEF FlowTypes, Flow
  <2>4. commands' \in Seq(Command)
    BY <2>1, <2>3, SendType DEF WireTypes
  <2>5. WireTypes'
    BY <2>1, <2>4 DEF WireTypes
  <2>6. DataTypes'
    BY <2>1 DEF DataTypes
  <2> QED
    BY <2>1, <2>2, <2>5, <2>6, Unchanged
<1>2. CASE TokenFails
  <2>1. PICK f \in flows : TokenFails!(f)
    BY <1>2 DEF TokenFails
  <2>2. FlowTypes'
    BY <2>1, FlowSteps DEF FlowPc, Outcome
  <2>3. SubTypes'
    BY <2>1, MoveUnsubscribedType, Unchanged
  <2> QED
    BY <2>1, <2>2, <2>3, BoundSteps, Unchanged
<1>3. CASE TokenHandlerReturns
  <2>1. PICK f \in flows : TokenHandlerReturns!(f)
    BY <1>3 DEF TokenHandlerReturns
  <2>2. SubTypes'
    BY <2>1, ScheduleType, Unchanged DEF subVars
  <2> QED
    BY <2>1, <2>2, FlowSteps, Unchanged
<1> QED
  BY <1>1, <1>2, <1>3

LEMMA TypeReplied ==
    ASSUME Types, RepliedResumes
    PROVE  Types'
<1> USE DEF Types
<1>1. PICK f \in flows : RepliedResumes!(f)
  BY DEF RepliedResumes
<1>2. CASE Current(f) /\ f.out = "ok" /\ MoveSubscribed(f)
  <2>1. FlowTypes'
    BY <1>2, FlowSteps DEF MoveSubscribed, FlowPc, Outcome
  <2>2. resubscribe_timer' \in BOOLEAN /\ DataTypes'
    BY <1>2 DEF MoveSubscribed, SubTypes, DataTypes
  <2>3. SubTypes'
    BY <1>2, <2>2 DEF MoveSubscribed, SubTypes, FutureType, SubscriptionState
  <2> QED
    BY <1>1, <2>1, <2>2, <2>3, Unchanged
<1>3. CASE ErrorHandler(f)
  <2>1. FlowTypes'
    BY <1>3, FlowSteps DEF ErrorHandler, FlowPc, Outcome, SubscribeError
  <2>2. token' \in BOOLEAN
    BY <1>3 DEF ErrorHandler
  <2>3. SubTypes' /\ DataTypes'
    BY <1>3, <2>2, Unchanged DEF ErrorHandler, DataTypes
  <2> QED
    BY <1>1, <2>1, <2>3, Unchanged
<1>4. CASE ResetPosition(f)
  <2>1. FlowTypes' /\ SubTypes'
    BY <1>4, FlowSteps, ScheduleType DEF ResetPosition
  <2>2. DataTypes'
    BY <1>4 DEF ResetPosition, DataTypes
  <2> QED
    BY <1>1, <2>1, <2>2, Unchanged
<1>5. CASE /\ Ends(f) \/ flows' = At(f, "timeoutHandler", f.out)
           /\ UNCHANGED subVars \/ MoveUnsubscribed
           /\ UNCHANGED dataVars
  <2>1. FlowTypes'
    BY <1>5, FlowSteps DEF FlowTypes, Flow, FlowPc
  <2>2. SubTypes' /\ DataTypes'
    BY <1>5, MoveUnsubscribedType, Unchanged
  <2> QED
    BY <1>1, <2>1, <2>2, Unchanged
<1> QED
  BY <1>1, <1>2, <1>3, <1>4, <1>5

LEMMA TypeErrorHandlers ==
    ASSUME Types,
           TimeoutHandlerReturns \/ ErrorHandlerReturns \/ ExpiredHandlerReturns
             \/ SubscribedHandlerReturns
    PROVE  Types'
<1> USE DEF Types
<1>1. CASE TimeoutHandlerReturns
  <2>1. PICK f \in flows : TimeoutHandlerReturns!(f)
    BY <1>1 DEF TimeoutHandlerReturns
  <2>2. CASE CloseConnection(flows \ {f})
    <3>1. ConnTypes' /\ SubTypes' /\ FlowTypes' /\ WireTypes'
      BY <2>2, CloseType
    <3> QED
      BY <2>1, <3>1, Unchanged
  <2>3. CASE Ends(f) /\ UNCHANGED <<linkVars, subVars, wireVars>>
    BY <2>1, <2>3, FlowSteps, Unchanged
  <2> QED
    BY <2>1, <2>2, <2>3
<1>2. CASE ErrorHandlerReturns
  BY <1>2, FlowSteps, ScheduleType, Unchanged DEF ErrorHandlerReturns
<1>3. CASE ExpiredHandlerReturns
  BY <1>3, FlowSteps, MoveUnsubscribedType, Unchanged DEF ExpiredHandlerReturns
<1>4. CASE SubscribedHandlerReturns
  <2>1. SubTypes'
    BY <1>4 DEF SubscribedHandlerReturns, SubTypes
  <2> QED
    BY <1>4, <2>1, FlowSteps, Unchanged DEF SubscribedHandlerReturns
<1> QED
  BY <1>1, <1>2, <1>3, <1>4

LEMMA TypeTasks ==
    ASSUME Types,
           SubscribeHandlerReturns \/ MoveHandlerReturns \/ ResubscribeTimerFires
             \/ ReplyTimesOut \/ UnsubscribeFails
    PROVE  Types'
<1> USE DEF Types
<1>1. CASE SubscribeHandlerReturns
  <2>1. TaskTypes'
    BY <1>1 DEF SubscribeHandlerReturns, TaskTypes
  <2> QED
    BY <1>1, <2>1, Unchanged DEF SubscribeHandlerReturns
<1>2. CASE MoveHandlerReturns
  <2>1. TaskTypes' /\ MoveTypes'
    BY <1>2 DEF MoveHandlerReturns, TaskTypes, MoveTypes
  <2> QED
    BY <1>2, <2>1, Unchanged DEF MoveHandlerReturns
<1>3. CASE ResubscribeTimerFires
  <2>1. TaskTypes'
    BY <1>3 DEF ResubscribeTimerFires, TaskTypes
  <2>2. SubTypes'
    BY <1>3 DEF ResubscribeTimerFires, SubTypes
  <2> QED
    BY <1>3, <2>1, <2>2, Unchanged DEF ResubscribeTimerFires
<1>4. CASE ReplyTimesOut
  BY <1>4, FlowSteps, BoundSteps, Unchanged DEF ReplyTimesOut, FlowPc, Outcome
<1>5. CASE UnsubscribeFails
  <2>1. ConnTypes' /\ SubTypes' /\ FlowTypes' /\ WireTypes'
    BY <1>5, CloseType DEF UnsubscribeFails
  <2>2. BoundTypes'
    BY <1>5, BoundSteps, Unchanged DEF UnsubscribeFails, BoundTypes
  <2> QED
    BY <1>5, <2>1, <2>2, Unchanged DEF UnsubscribeFails
<1> QED
  BY <1>1, <1>2, <1>3, <1>4, <1>5

LEMMA ReceiveType ==
    ASSUME WireTypes, NEW op, Receives(op)
    PROVE  messages' \in Seq(Answer) /\ Head(messages) \in Answer /\ Head(messages).op = op
BY DEF WireTypes, Receives

LEMMA TypeWire ==
    ASSUME Types, Wire
    PROVE  Types'
<1> USE DEF Types
<1>1. CASE ReplyArrives
  <2>1. messages' \in Seq(Answer) /\ Head(messages) \in Answer
        /\ Head(messages).op = "subscribe"
    BY <1>1, ReceiveType DEF ReplyArrives
  <2>2. Head(messages).out \in Outcome
    BY <2>1 DEF Answer, Outcome
  <2>3. \A f \in flows : [f EXCEPT !.pc = "replied", !.out = Head(messages).out] \in Flow
    BY <2>2, AtType DEF FlowTypes, FlowPc
  <2>4. FlowTypes'
    BY <1>1, <2>3 DEF ReplyArrives, FlowTypes
  <2>5. WireTypes'
    BY <1>1, <2>1 DEF ReplyArrives, WireTypes
  <2> QED
    BY <1>1, <2>4, <2>5, Unchanged DEF ReplyArrives
<1>2. CASE UnsubscribeReplyArrives
  <2>1. WireTypes'
    BY <1>2, ReceiveType DEF UnsubscribeReplyArrives, WireTypes
  <2> QED
    BY <1>2, <2>1, Unchanged DEF UnsubscribeReplyArrives
<1>3. CASE PushArrives
  <2>1. WireTypes'
    BY <1>3, ReceiveType DEF PushArrives, WireTypes
  <2>2. SubTypes'
    BY <1>3, MoveUnsubscribedType, EnterSubscribingType, Unchanged DEF PushArrives
  <2>3. DataTypes'
    BY <1>3, InvalidateType, Unchanged DEF PushArrives
  <2>4. MoveTypes'
    <3>1. CASE UNCHANGED moving
      BY <3>1, Unchanged
    <3>2. CASE moving' = moving \cup {[conn |-> session, attempt |-> attempt + 1]}
      <4>1. session \in Nat \ {0} /\ attempt + 1 \in Nat
        BY <1>3 DEF PushArrives, Receives, ConnTypes, SubTypes
      <4> QED
        BY <3>2, <4>1 DEF MoveTypes
    <3> QED
      BY <1>3, <3>1, <3>2 DEF PushArrives
  <2> QED
    BY <1>3, <2>1, <2>2, <2>3, <2>4, Unchanged DEF PushArrives
<1> QED
  BY <1>1, <1>2, <1>3 DEF Wire

LEMMA TypeServer ==
    ASSUME Types, Server \/ ServerPushes
    PROVE  Types'
<1> USE DEF Types
<1>1. CASE ServerSubscribes
  <2>1. Head(commands) \in Command /\ commands' \in Seq(Command)
    BY <1>1 DEF ServerSubscribes, ServerHandles, WireTypes
  <2>2. Head(commands).attempt \in Nat
    BY <2>1 DEF Command
  <2>3. messages' \in Seq(Answer)
    BY <1>1, <2>2, DeliverType DEF ServerSubscribes, SubscribeError, Outcome
  <2>4. held' \in BOOLEAN /\ BoundTypes'
    <3>1. CASE held' = TRUE /\ UNCHANGED faults
      BY <1>1, <3>1 DEF ServerSubscribes, ServerHandles, BoundTypes
    <3>2. CASE UNCHANGED held /\ Fault
      BY <1>1, <3>2, BoundSteps DEF ServerSubscribes, ServerHandles, WireTypes
    <3> QED
      BY <1>1, <3>1, <3>2 DEF ServerSubscribes
  <2>5. WireTypes'
    BY <1>1, <2>1, <2>3, <2>4 DEF ServerSubscribes, WireTypes
  <2> QED
    BY <1>1, <2>4, <2>5, Unchanged DEF ServerSubscribes, ServerHandles
<1>2. CASE ServerUnsubscribes
  <2>1. commands' \in Seq(Command)
    BY <1>2 DEF ServerUnsubscribes, ServerHandles, WireTypes
  <2>2. messages' \in Seq(Answer)
    BY <1>2, DeliverType DEF ServerUnsubscribes, Outcome
  <2>3. held' \in BOOLEAN /\ refused' \in {"no", "sent", "seen"} /\ BoundTypes'
    <3>1. CASE held' = FALSE /\ UNCHANGED <<refused, faults>>
      BY <1>2, <3>1, Unchanged DEF ServerUnsubscribes, ServerHandles, WireTypes
    <3>2. CASE /\ UNCHANGED held /\ Fault
               /\ refused' = IF refused = "no" THEN "sent" ELSE refused
      BY <1>2, <3>2, BoundSteps DEF ServerUnsubscribes, ServerHandles, WireTypes
    <3> QED
      BY <1>2, <3>1, <3>2 DEF ServerUnsubscribes
  <2>4. WireTypes'
    BY <2>1, <2>2, <2>3 DEF WireTypes
  <2> QED
    BY <1>2, <2>3, <2>4, Unchanged DEF ServerUnsubscribes, ServerHandles
<1>3. CASE ServerPushes
  <2>1. messages' \in Seq(Answer)
    BY <1>3, DeliverType DEF ServerPushes
  <2>2. held' \in BOOLEAN
    BY <1>3 DEF ServerPushes
  <2>3. WireTypes' /\ BoundTypes'
    BY <1>3, <2>1, <2>2, BoundSteps DEF ServerPushes, WireTypes
  <2> QED
    BY <1>3, <2>3, Unchanged DEF ServerPushes
<1> QED
  BY <1>1, <1>2, <1>3 DEF Server

LEMMA TypeInit == Init => Types
<1> SUFFICES ASSUME Init PROVE Types
  OBVIOUS
<1> USE DEF Init
<1>0. announcing \in BOOLEAN /\ held \in BOOLEAN /\ token \in BOOLEAN /\ recover \in BOOLEAN
  OBVIOUS
<1>1. ConnTypes
  BY <1>0, ConfigAssumption DEF ConnTypes
<1>2. SubTypes /\ TaskTypes /\ FlowTypes /\ MoveTypes
  BY DEF SubTypes, SubscriptionState, FutureType, TaskTypes, FlowTypes, MoveTypes
<1>3. DataTypes /\ WireTypes
  BY <1>0 DEF DataTypes, WireTypes
<1>4. BoundTypes
  BY BoundsAssumption DEF BoundTypes
<1> QED
  BY <1>1, <1>2, <1>3, <1>4 DEF Types

LEMMA TypeStep == Types /\ [Next]_vars => Types'
<1> SUFFICES ASSUME Types, [Next]_vars PROVE Types'
  OBVIOUS
<1>1. CASE UNCHANGED vars
  BY <1>1, Unchanged DEF vars, Types
<1>2. CASE Next
  BY <1>2, TypeApplication, TypeConnection, TypeStart, TypeState, TypeToken, TypeReplied,
     TypeErrorHandlers, TypeTasks, TypeWire, TypeServer
     DEF Next, Handlers, Answers, Tasks
<1> QED
  BY <1>1, <1>2

\* Every variable of a subscription keeps its type, and the server answers a
\* subscribe command with success or one of the errors _subscribe() handles.
THEOREM SubscriptionTypes == Spec => []Types
BY TypeInit, TypeStep, PTL DEF Spec

\* The types of SubscriptionFlow hold in every state of every run.
THEOREM SubscriptionTypeOK == Spec => []TypeOK
BY SubscriptionTypes, TypesGiveTypeOK, PTL

-----------------------------------------------------------------------------
(* What a step may do to the state, the attempt, the future, the timer and  *)
(* the set of flows.  The invariants below follow from this list alone.     *)

\* The state and the future stay; a timer that is armed now, and was not, is armed
\* while subscribing.
Quiet ==
    /\ UNCHANGED <<state, subscribed_future>>
    /\ resubscribe_timer' = TRUE => resubscribe_timer = TRUE \/ state = "subscribing"

\* on_subscribed goes on in the flows it goes on in, or its return disarms the timer;
\* and it starts in no flow.
KeepsSubscribed ==
    /\ \/ resubscribe_timer' = FALSE
       \/ \A f \in flows : f.pc = "subscribedHandler" => f \in flows'
    /\ \A f \in flows' : f.pc = "subscribedHandler" => f \in flows

Starts == Subscribe
Succeeds == \E f \in flows : state = "subscribing" /\ f.pc = "replied" /\ MoveSubscribed(f)
Falls == state = "subscribed" /\ EnterSubscribing
Stops == state # "unsubscribed" /\ MoveUnsubscribed

StateStep == (Quiet \/ Starts \/ Falls \/ Stops) /\ KeepsSubscribed

LEMMA FlowKept ==
    ASSUME FlowTypes, NEW f \in flows, f.pc # "subscribedHandler"
    PROVE  /\ Ends(f) => KeepsSubscribed
           /\ \A pc \in FlowPc \ {"subscribedHandler"}, out \in Outcome :
                flows' = At(f, pc, out) => KeepsSubscribed
<1>1. Ends(f) => KeepsSubscribed
  BY DEF Ends, KeepsSubscribed
<1>2. ASSUME NEW pc \in FlowPc \ {"subscribedHandler"}, NEW out \in Outcome,
             flows' = At(f, pc, out)
      PROVE  KeepsSubscribed
  <2>1. [f EXCEPT !.pc = pc, !.out = out].pc = pc
    BY DEF FlowTypes, Flow
  <2> QED
    BY <1>2, <2>1 DEF At, KeepsSubscribed
<1> QED
  BY <1>1, <1>2

LEMMA QuietSteps ==
    ASSUME UNCHANGED <<state, subscribed_future>>
    PROVE  /\ UNCHANGED resubscribe_timer => Quiet
           /\ resubscribe_timer' = FALSE => Quiet
           /\ ScheduleResubscribe => Quiet
BY DEF Quiet, ScheduleResubscribe

LEMMA CloseSteps ==
    ASSUME NEW rest \in SUBSET flows, CloseConnection(rest),
           \A f \in flows : f.pc = "subscribedHandler" => f \in rest
    PROVE  StateStep
<1>1. KeepsSubscribed
  BY DEF CloseConnection, KeepsSubscribed
<1>2. Falls \/ Quiet
  BY QuietSteps DEF CloseConnection, Falls, subVars
<1> QED
  BY <1>1, <1>2 DEF StateStep

LEMMA SameFlows == UNCHANGED flows => KeepsSubscribed
BY DEF KeepsSubscribed

LEMMA ApplicationSteps == ASSUME Application PROVE StateStep
BY SameFlows DEF Application, Subscribe, Unsubscribe, StateStep, Starts, Stops

LEMMA ConnectionSteps ==
    ASSUME Connected \/ ConnectedHandlerReturns \/ LoseConnection \/ UnsubscribeFails
    PROVE  StateStep
<1>1. CASE Connected
  BY <1>1, SameFlows, QuietSteps DEF Connected, subVars, StateStep
<1>2. CASE ConnectedHandlerReturns
  BY <1>2, SameFlows, QuietSteps DEF ConnectedHandlerReturns, StateStep
<1>3. CASE LoseConnection \/ UnsubscribeFails
  BY <1>3, CloseSteps DEF LoseConnection, UnsubscribeFails
<1> QED
  BY <1>1, <1>2, <1>3

LEMMA StartSteps == ASSUME Types, StartFlow PROVE StateStep
<1>1. Quiet
  BY QuietSteps DEF StartFlow
<1>2. KeepsSubscribed
  <2>1. /\ NewFlow.pc = "getState"
        /\ [NewFlow EXCEPT !.pc = "token"].pc = "token"
        /\ [NewFlow EXCEPT !.pc = "reply"].pc = "reply"
    BY DEF NewFlow
  <2>2. \/ flows' = flows
        \/ flows' = flows \cup {NewFlow}
        \/ flows' = flows \cup {[NewFlow EXCEPT !.pc = "token"]}
        \/ flows' = flows \cup {[NewFlow EXCEPT !.pc = "reply"]}
    BY DEF StartFlow, Proceed
  <2> QED
    BY <2>1, <2>2 DEF KeepsSubscribed
<1> QED
  BY <1>1, <1>2 DEF StateStep

LEMMA AnswerSteps == ASSUME Types, Answers PROVE StateStep
<1>1. CASE GetStateReturns
  <2>1. Quiet
    BY <1>1, QuietSteps DEF GetStateReturns, subVars
  <2>2. KeepsSubscribed
    <3>1. PICK f \in flows : GetStateReturns!(f)
      BY <1>1 DEF GetStateReturns
    <3>2. [f EXCEPT !.pc = "token"].pc = "token" /\ [f EXCEPT !.pc = "reply"].pc = "reply"
      BY DEF Types, FlowTypes, Flow
    <3>3. \/ Ends(f)
          \/ flows' = (flows \ {f}) \cup {[f EXCEPT !.pc = "token"]}
          \/ flows' = (flows \ {f}) \cup {[f EXCEPT !.pc = "reply"]}
      BY <3>1 DEF Proceed
    <3> QED
      BY <3>1, <3>2, <3>3 DEF Ends, KeepsSubscribed
  <2> QED
    BY <2>1, <2>2 DEF StateStep
<1>2. CASE GetStateFails \/ GetStateCancelled
  BY <1>2, QuietSteps, FlowKept
     DEF Types, FlowPc, Outcome, GetStateFails, GetStateCancelled, subVars, StateStep
<1>3. CASE TokenReturns
  BY <1>3, QuietSteps, FlowKept DEF Types, FlowPc, Outcome, TokenReturns, subVars, StateStep
<1>4. CASE TokenFails
  <2>1. PICK f \in flows : TokenFails!(f)
    BY <1>4 DEF TokenFails
  <2>2. KeepsSubscribed
    BY <2>1, FlowKept DEF Types, FlowPc, Outcome
  <2>3. Quiet \/ Stops
    BY <2>1, QuietSteps DEF subVars, Stops, Current
  <2> QED
    BY <2>2, <2>3 DEF StateStep
<1> QED
  BY <1>1, <1>2, <1>3, <1>4 DEF Answers

LEMMA RepliedSteps == ASSUME Types, RepliedResumes PROVE StateStep \/ Succeeds
<1>1. PICK f \in flows : RepliedResumes!(f)
  BY DEF RepliedResumes
<1>2. CASE Current(f) /\ MoveSubscribed(f)
  BY <1>1, <1>2 DEF Succeeds, Current
<1>3. CASE ErrorHandler(f) \/ ResetPosition(f)
  <2>1. Quiet
    BY <1>3, QuietSteps DEF ErrorHandler, ResetPosition, subVars
  <2>2. \/ Ends(f)
        \/ \E pc \in {"expiredHandler", "errorHandler"} : flows' = At(f, pc, f.out)
    BY <1>3 DEF ErrorHandler, ResetPosition
  <2>3. f.out \in Outcome /\ FlowTypes
    BY DEF Types, FlowTypes, Flow
  <2> QED
    BY <1>1, <2>1, <2>2, <2>3, FlowKept DEF FlowPc, StateStep
<1>4. CASE /\ Ends(f) \/ flows' = At(f, "timeoutHandler", f.out)
           /\ UNCHANGED subVars \/ (Current(f) /\ MoveUnsubscribed)
  <2>1. Quiet \/ Stops
    BY <1>4, QuietSteps DEF subVars, Stops, Current
  <2>2. f.out \in Outcome /\ FlowTypes
    BY DEF Types, FlowTypes, Flow
  <2> QED
    BY <1>1, <1>4, <2>1, <2>2, FlowKept DEF FlowPc, StateStep
<1> QED
  BY <1>1, <1>2, <1>3, <1>4

LEMMA HandlerSteps == ASSUME Types, Handlers PROVE StateStep
<1>1. CASE SubscribeHandlerReturns \/ MoveHandlerReturns
  BY <1>1, SameFlows, QuietSteps
     DEF SubscribeHandlerReturns, MoveHandlerReturns, subVars, StateStep
<1>2. CASE StateHandlerReturns
  BY <1>2, FlowKept, QuietSteps
     DEF Types, FlowPc, Outcome, StateHandlerReturns, subVars, StateStep
<1>3. CASE TokenHandlerReturns
  BY <1>3, FlowKept, QuietSteps DEF Types, FlowPc, Outcome, TokenHandlerReturns, StateStep
<1>4. CASE TimeoutHandlerReturns
  <2>1. PICK f \in flows : TimeoutHandlerReturns!(f)
    BY <1>4 DEF TimeoutHandlerReturns
  <2>2. CASE CloseConnection(flows \ {f})
    BY <2>1, <2>2, CloseSteps
  <2>3. CASE Ends(f) /\ UNCHANGED subVars
    BY <2>1, <2>3, FlowKept, QuietSteps DEF Types, FlowPc, Outcome, subVars, StateStep
  <2> QED
    BY <2>1, <2>2, <2>3
<1>5. CASE ErrorHandlerReturns
  BY <1>5, FlowKept, QuietSteps DEF Types, FlowPc, Outcome, ErrorHandlerReturns, StateStep
<1>6. CASE ExpiredHandlerReturns
  <2>1. Quiet \/ Stops
    BY <1>6, QuietSteps DEF ExpiredHandlerReturns, subVars, Stops, Current
  <2> QED
    BY <1>6, <2>1, FlowKept DEF Types, FlowPc, Outcome, ExpiredHandlerReturns, StateStep
<1>7. CASE SubscribedHandlerReturns
  <2>1. Quiet
    BY <1>7, QuietSteps DEF SubscribedHandlerReturns
  <2>2. KeepsSubscribed
    BY <1>7 DEF SubscribedHandlerReturns, Ends, KeepsSubscribed
  <2> QED
    BY <2>1, <2>2 DEF StateStep
<1>8. CASE ConnectedHandlerReturns
  BY <1>8, ConnectionSteps
<1> QED
  BY <1>1, <1>2, <1>3, <1>4, <1>5, <1>6, <1>7, <1>8 DEF Handlers

LEMMA OtherSteps ==
    ASSUME Types,
           Schedule \/ ReplyTimesOut \/ ResubscribeTimerFires \/ Wire \/ Server \/ ServerPushes
    PROVE  StateStep
<1>1. CASE Schedule \/ ResubscribeTimerFires
  BY <1>1, SameFlows, QuietSteps DEF Schedule, ResubscribeTimerFires, StateStep
<1>2. CASE ReplyTimesOut
  <2>1. Quiet
    BY <1>2, QuietSteps DEF ReplyTimesOut, subVars
  <2>2. KeepsSubscribed
    BY <1>2, FlowKept DEF ReplyTimesOut, Types, FlowPc, Outcome
  <2> QED
    BY <2>1, <2>2 DEF StateStep
<1>3. CASE ReplyArrives
  <2>1. KeepsSubscribed
    <3>1. \A f \in flows : [f EXCEPT !.pc = "replied", !.out = Head(messages).out].pc = "replied"
      BY DEF Types, FlowTypes, Flow
    <3> QED
      BY <1>3, <3>1 DEF ReplyArrives, KeepsSubscribed
  <2> QED
    BY <1>3, <2>1, QuietSteps DEF ReplyArrives, subVars, StateStep
<1>4. CASE UnsubscribeReplyArrives \/ Server \/ ServerPushes
  BY <1>4, SameFlows, QuietSteps
     DEF UnsubscribeReplyArrives, Server, ServerSubscribes, ServerUnsubscribes, ServerHandles,
         ServerPushes, subVars, StateStep
<1>5. CASE PushArrives
  <2>1. Quiet \/ Falls \/ Stops
    BY <1>5, QuietSteps DEF PushArrives, subVars, Falls, Stops
  <2> QED
    BY <1>5, <2>1, SameFlows DEF PushArrives, StateStep
<1> QED
  BY <1>1, <1>2, <1>3, <1>4, <1>5 DEF Wire

LEMMA EveryStep == ASSUME Types, Next PROVE StateStep \/ Succeeds
BY ApplicationSteps, ConnectionSteps, StartSteps, AnswerSteps, RepliedSteps, HandlerSteps,
   OtherSteps DEF Next, Tasks

-----------------------------------------------------------------------------
(* The future and the timer *)

LEMMA FutureKept ==
    ASSUME Types, FutureMatchesState, StateStep \/ Succeeds
    PROVE  FutureMatchesState'
<1>0. SubTypes
  BY DEF Types
<1> USE DEF FutureMatchesState
<1>1. CASE Quiet
  BY <1>1 DEF Quiet
<1>2. CASE Starts \/ Falls
  BY <1>0, <1>2, FreshFutureType DEF Starts, Subscribe, Falls, EnterSubscribing, SubTypes
<1>3. CASE Stops
  BY <1>0, <1>3, FreshFutureType DEF Stops, MoveUnsubscribed, SubTypes, FutureType
<1>4. CASE Succeeds
  BY <1>0, <1>4 DEF Succeeds, MoveSubscribed, SubTypes, FutureType
<1> QED
  BY <1>1, <1>2, <1>3, <1>4 DEF StateStep

LEMMA TimerKept ==
    ASSUME Types, NoTimerLeftBehind, StateStep \/ Succeeds
    PROVE  NoTimerLeftBehind'
<1>0. SubTypes /\ FlowTypes
  BY DEF Types
<1> SUFFICES ASSUME resubscribe_timer' = TRUE, state' # "subscribing"
             PROVE  \E f \in flows' : f.pc = "subscribedHandler"
  BY DEF NoTimerLeftBehind
<1>1. CASE StateStep
  <2>1. resubscribe_timer = TRUE /\ state # "subscribing"
    BY <1>0, <1>1 DEF StateStep, Quiet, Starts, Subscribe, Falls, EnterSubscribing, Stops,
       MoveUnsubscribed, SubTypes
  <2>2. PICK f \in flows : f.pc = "subscribedHandler"
    BY <2>1 DEF NoTimerLeftBehind
  <2> QED
    BY <1>1, <2>2 DEF StateStep, KeepsSubscribed
<1>2. CASE Succeeds
  <2>1. PICK f \in flows : MoveSubscribed(f)
    BY <1>2 DEF Succeeds
  <2>2. [f EXCEPT !.pc = "subscribedHandler", !.out = "ok"] \in flows'
    BY <2>1 DEF MoveSubscribed, At
  <2> QED
    BY <1>0, <2>2 DEF FlowTypes, Flow
<1> QED
  BY <1>1, <1>2

SafeInv == Types /\ FutureMatchesState /\ NoTimerLeftBehind

LEMMA SafeInit == Init => SafeInv
BY TypeInit DEF Init, SafeInv, FutureMatchesState, NoTimerLeftBehind

LEMMA SafeStep == SafeInv /\ [Next]_vars => SafeInv'
<1> SUFFICES ASSUME SafeInv, [Next]_vars PROVE SafeInv'
  OBVIOUS
<1>1. Types'
  BY TypeStep DEF SafeInv
<1>2. CASE UNCHANGED vars
  BY <1>1, <1>2 DEF SafeInv, vars, subVars, FutureMatchesState, NoTimerLeftBehind
<1>3. CASE Next
  BY <1>1, <1>3, EveryStep, FutureKept, TimerKept DEF SafeInv
<1> QED
  BY <1>2, <1>3

LEMMA SafeInvariance == Spec => []SafeInv
BY SafeInit, SafeStep, PTL DEF Spec

\* What ready() waits for is pending exactly while subscribing, has its result while
\* subscribed, and is never resolved twice (_move_subscribed(), _move_unsubscribed()).
THEOREM FutureAlwaysMatches == Spec => []FutureMatchesState
BY SafeInvariance, PTL DEF SafeInv

\* A resubscribe timer outlives the subscribing state only until on_subscribed, which
\* _move_subscribed() calls before it disarms the timer, returns.
THEOREM NoTimerOutlivesSubscribing == Spec => []NoTimerLeftBehind
BY SafeInvariance, PTL DEF SafeInv

-----------------------------------------------------------------------------
(* The abstract specification *)

LEMMA RenewedFuture ==
    ASSUME NEW f \in FutureType
    PROVE  FreshFuture(f) = Abstract!Renewed(f)
BY DEF FutureType, FreshFuture, Done, Abstract!Renewed, Abstract!Pending

LEMMA StepRefines ==
    ASSUME SafeInv, [Next]_vars
    PROVE  [Abstract!Next]_(Abstract!vars)
<1>0. /\ SubTypes /\ FutureMatchesState
      /\ FreshFuture(subscribed_future) = Abstract!Renewed(subscribed_future)
  BY RenewedFuture DEF SafeInv, Types, SubTypes
<1>1. CASE UNCHANGED <<state, subscribed_future>>
  BY <1>1 DEF Abstract!vars, Phase
<1>2. CASE Starts
  <2>1. Abstract!Begin
    BY <1>0, <1>2 DEF Starts, Subscribe, Abstract!Begin, Phase
  <2> QED
    BY <2>1 DEF Abstract!Next
<1>3. CASE Falls
  <2>1. Abstract!Lose
    BY <1>0, <1>3 DEF Falls, EnterSubscribing, Abstract!Lose, Phase
  <2> QED
    BY <2>1 DEF Abstract!Next
<1>4. CASE Stops
  <2>1. Phase[state] # "disconnected" /\ Phase["unsubscribed"] = "disconnected"
    BY <1>0, <1>4 DEF Stops, Phase, SubTypes, SubscriptionState
  <2>2. Abstract!Stop
    BY <1>0, <1>4, <2>1 DEF Stops, MoveUnsubscribed, Abstract!Stop, Abstract!Resolved, Phase
  <2> QED
    BY <2>2 DEF Abstract!Next
<1>5. CASE Succeeds
  <2>1. Abstract!Establish
    BY <1>0, <1>5 DEF Succeeds, MoveSubscribed, Abstract!Establish, Abstract!Resolved,
       Abstract!Pending, Phase, FutureMatchesState
  <2> QED
    BY <2>1 DEF Abstract!Next
<1> QED
  <2>1. CASE Next
    <3>1. StateStep \/ Succeeds
      BY <2>1, EveryStep DEF SafeInv
    <3> QED
      BY <1>1, <1>2, <1>3, <1>4, <1>5, <3>1 DEF StateStep, Quiet
  <2> QED
    BY <1>1, <2>1 DEF vars, subVars

LEMMA InitRefines == Init => Abstract!Init
BY DEF Init, Abstract!Init, Abstract!Pending, Phase

\* Seen from the application a subscription is what a connection is: only legal state
\* changes, and a future that somebody may wait for is kept until it is resolved
\* (subscribe(), _move_subscribed(), _enter_subscribing(), _move_unsubscribed()).
THEOREM SubscriptionImplementsPromise == Spec => ImplementsPromise
<1>1. Spec => Abstract!Init /\ [][Abstract!Next]_(Abstract!vars)
  BY SafeInvariance, InitRefines, StepRefines, PTL DEF Spec
<1> QED
  BY <1>1 DEF ImplementsPromise, Abstract!SafeSpec

-----------------------------------------------------------------------------
(* Work under way while subscribing *)

\* Only a slow on_subscribed leaves a flow behind that disarms the timer later.
NoSlowHandler == ~app.slow => \A f \in flows : f.pc # "subscribedHandler"

Tasked == callers > 0 \/ starting > 0 \/ scheduling > 0
Moves == \E m \in moving : m.attempt = attempt
Work == resubscribe_timer \/ announcing \/ Tasked \/ InFlight \/ Moves

WorkInv == state = "subscribing" /\ session # 0 => Work

LEMMA WorkIsWork == WorkInv <=> SubscribingHasWork
BY DEF WorkInv, Work, Tasked, Moves, SubscribingHasWork

\* A flow that moves on, or ends when it is not the current one, leaves the flow of the
\* attempt in progress.
LEMMA FlowWork ==
    ASSUME Types, NEW f \in flows, state = "subscribing", session # 0, InFlight,
           UNCHANGED <<transport_id, attempt>>,
           \/ Ends(f) /\ ~Current(f)
           \/ \E pc, out : flows' = At(f, pc, out)
    PROVE  InFlight'
<1>0. session = transport_id /\ flows \subseteq Flow
  BY DEF Types, ConnTypes, FlowTypes
<1>1. PICK g \in flows : g.conn = transport_id /\ g.attempt = attempt
  BY DEF InFlight
<1>2. CASE g # f
  <2>1. g \in flows'
    BY <1>2 DEF Ends, At
  <2> QED
    BY <1>1, <2>1 DEF InFlight
<1>3. CASE g = f
  <2>1. PICK pc, out : flows' = At(f, pc, out)
    BY <1>0, <1>1, <1>3 DEF Current
  <2>2. [f EXCEPT !.pc = pc, !.out = out] \in flows'
    BY <2>1 DEF At
  <2>3. [f EXCEPT !.pc = pc, !.out = out].conn = f.conn
        /\ [f EXCEPT !.pc = pc, !.out = out].attempt = f.attempt
    BY <1>0 DEF Flow
  <2> QED
    BY <1>1, <1>3, <2>2, <2>3 DEF InFlight
<1> QED
  BY <1>2, <1>3

\* The goal of the lemmas below: in what follows the subscription goes on subscribing.
LEMMA WorkGoal ==
    ASSUME state' = "subscribing" /\ session' # 0 => Work'
    PROVE  WorkInv'
BY DEF WorkInv

\* Nothing is taken away.
LEMMA WorkStays ==
    ASSUME Types, WorkInv, TaskTypes',
           UNCHANGED <<transport_id, session, state, attempt, flows>>,
           moving \subseteq moving',
           resubscribe_timer => resubscribe_timer', announcing => announcing',
           Tasked => Tasked'
    PROVE  WorkInv'
BY DEF WorkInv, Work, InFlight, Moves

\* A step of one flow, that does not end the current one.
LEMMA WorkOfFlow ==
    ASSUME Types, WorkInv, NEW f \in flows,
           UNCHANGED <<transport_id, session, announcing, state, attempt, moving>>,
           resubscribe_timer => resubscribe_timer', Tasked => Tasked',
           \/ Ends(f) /\ ~Current(f)
           \/ \E pc, out : flows' = At(f, pc, out)
    PROVE  WorkInv'
BY FlowWork DEF WorkInv, Work, Moves

LEMMA WorkSchedule ==
    ASSUME ScheduleResubscribe, UNCHANGED <<state, session>>
    PROVE  WorkInv'
BY DEF ScheduleResubscribe, WorkInv, Work

LEMMA WorkOver ==
    ASSUME session' = 0 \/ state' # "subscribing"
    PROVE  WorkInv'
BY DEF WorkInv

LEMMA WorkApplication == ASSUME Types, WorkInv, Application PROVE WorkInv'
<1>1. CASE Subscribe
  BY <1>1 DEF Subscribe, WorkInv, Work, Tasked, Types, TaskTypes
<1>2. CASE Unsubscribe
  BY <1>2, WorkOver DEF Unsubscribe, MoveUnsubscribed
<1> QED
  BY <1>1, <1>2 DEF Application

LEMMA WorkConnection ==
    ASSUME Types, WorkInv,
           Connected \/ ConnectedHandlerReturns \/ LoseConnection \/ UnsubscribeFails
    PROVE  WorkInv'
<1>1. CASE Connected
  BY <1>1 DEF Connected, WorkInv, Work
<1>2. CASE ConnectedHandlerReturns
  BY <1>2 DEF ConnectedHandlerReturns, WorkInv, Work, Tasked, Types, TaskTypes
<1>3. CASE LoseConnection \/ UnsubscribeFails
  BY <1>3, WorkOver DEF LoseConnection, UnsubscribeFails, CloseConnection, Link!Close
<1> QED
  BY <1>1, <1>2, <1>3

\* The task starts a flow, unless there is one.
LEMMA WorkStart == ASSUME Types, WorkInv, StartFlow PROVE WorkInv'
<1> SUFFICES ASSUME state' = "subscribing", session' # 0 PROVE Work'
  BY WorkGoal
<1>0. /\ state = "subscribing" /\ session # 0
      /\ UNCHANGED <<transport_id, announcing, resubscribe_timer, moving>>
  BY DEF StartFlow, linkVars
<1>1. CASE InFlight
  BY <1>0, <1>1 DEF StartFlow, Work, InFlight
<1>2. CASE ~InFlight
  <2>1. attempt' = attempt + 1
    BY <1>0, <1>2 DEF StartFlow
  <2>2. \E f \in flows' : f.conn = transport_id /\ f.attempt = attempt + 1
    <3>1. /\ NewFlow.conn = transport_id /\ NewFlow.attempt = attempt + 1
          /\ \A pc : /\ [NewFlow EXCEPT !.pc = pc].conn = transport_id
                     /\ [NewFlow EXCEPT !.pc = pc].attempt = attempt + 1
      BY DEF NewFlow
    <3>2. \/ NewFlow \in flows'
          \/ [NewFlow EXCEPT !.pc = "token"] \in flows'
          \/ [NewFlow EXCEPT !.pc = "reply"] \in flows'
      BY <1>0, <1>2 DEF StartFlow, Proceed
    <3> QED
      BY <3>1, <3>2
  <2> QED
    BY <1>0, <2>1, <2>2 DEF Work, InFlight
<1> QED
  BY <1>1, <1>2

LEMMA WorkAnswers ==
    ASSUME Types, WorkInv, ~app.cancels \/ ~GetStateCancelled, Answers
    PROVE  WorkInv'
<1>1. CASE GetStateReturns
  <2>1. PICK f \in flows : GetStateReturns!(f)
    BY <1>1 DEF GetStateReturns
  <2>2. \/ Ends(f) /\ ~Current(f)
        \/ Current(f) /\ \E pc \in FlowPc : flows' = (flows \ {f}) \cup {[f EXCEPT !.pc = pc]}
    BY <2>1 DEF Proceed, FlowPc
  <2>3. CASE Ends(f) /\ ~Current(f)
    BY <2>1, <2>3, WorkOfFlow DEF linkVars, subVars, taskVars, Tasked
  <2>4. CASE Current(f) /\ \E pc \in FlowPc : flows' = (flows \ {f}) \cup {[f EXCEPT !.pc = pc]}
    <3>1. PICK pc \in FlowPc : flows' = (flows \ {f}) \cup {[f EXCEPT !.pc = pc]}
      BY <2>4
    <3>2. [f EXCEPT !.pc = pc] \in flows' /\ [f EXCEPT !.pc = pc].conn = f.conn
          /\ [f EXCEPT !.pc = pc].attempt = f.attempt
      BY <3>1 DEF Types, FlowTypes, Flow
    <3>3. session = 0 \/ (f.conn = transport_id /\ f.attempt = attempt)
      BY <2>4 DEF Current, Types, ConnTypes
    <3> QED
      BY <2>1, <3>2, <3>3 DEF linkVars, subVars, WorkInv, Work, InFlight
  <2> QED
    BY <2>2, <2>3, <2>4
<1>2. CASE GetStateFails
  <2>1. PICK f \in flows : GetStateFails!(f)
    BY <1>2 DEF GetStateFails
  <2> QED
    BY <2>1, WorkOfFlow DEF linkVars, subVars, taskVars, Tasked
<1>3. CASE TokenReturns
  <2>1. PICK f \in flows : TokenReturns!(f)
    BY <1>3 DEF TokenReturns
  <2> QED
    BY <2>1, WorkOfFlow DEF linkVars, subVars, taskVars, Tasked
<1>4. CASE TokenFails
  <2>1. PICK f \in flows : TokenFails!(f)
    BY <1>4 DEF TokenFails
  <2>2. CASE MoveUnsubscribed
    BY <2>2, WorkOver DEF MoveUnsubscribed
  <2>3. CASE UNCHANGED subVars /\ ~(Current(f) /\ Ends(f) /\ MoveUnsubscribed)
    BY <2>1, <2>3, WorkOfFlow DEF linkVars, subVars, taskVars, Tasked
  <2> QED
    BY <2>1, <2>2, <2>3
<1> QED
  BY <1>1, <1>2, <1>3, <1>4 DEF Answers, GetStateCancelled

LEMMA WorkReplied == ASSUME Types, WorkInv, RepliedResumes PROVE WorkInv'
<1>1. PICK f \in flows : RepliedResumes!(f)
  BY DEF RepliedResumes
<1>2. CASE MoveSubscribed(f) \/ MoveUnsubscribed
  BY <1>2, WorkOver DEF MoveSubscribed, MoveUnsubscribed
<1>3. CASE ErrorHandler(f)
  BY <1>1, <1>3, WorkOfFlow DEF ErrorHandler, linkVars, subVars, taskVars, Tasked
<1>4. CASE ResetPosition(f)
  BY <1>1, <1>4, WorkSchedule DEF ResetPosition, linkVars
<1>5. CASE UNCHANGED subVars /\ ((~Current(f) /\ Ends(f)) \/ flows' = At(f, "timeoutHandler", f.out))
  BY <1>1, <1>5, WorkOfFlow DEF linkVars, subVars, taskVars, Tasked
<1> QED
  BY <1>1, <1>2, <1>3, <1>4, <1>5

LEMMA WorkHandlers ==
    ASSUME Types, WorkInv, Handlers, ~SubscribedHandlerReturns
    PROVE  WorkInv'
<1>0. TaskTypes
  BY DEF Types
<1>1. CASE SubscribeHandlerReturns
  BY <1>0, <1>1 DEF SubscribeHandlerReturns, linkVars, subVars, WorkInv, Work, Tasked, TaskTypes,
     InFlight, Moves
<1>2. CASE StateHandlerReturns
  BY <1>0, <1>2 DEF StateHandlerReturns, linkVars, subVars, WorkInv, Work, Tasked, TaskTypes
<1>3. CASE TokenHandlerReturns
  <2>1. PICK f \in flows : TokenHandlerReturns!(f)
    BY <1>3 DEF TokenHandlerReturns
  <2>2. CASE Current(f)
    BY <2>1, <2>2, WorkSchedule DEF linkVars
  <2>3. CASE ~Current(f)
    BY <2>1, <2>3, WorkOfFlow DEF linkVars, taskVars, Tasked
  <2> QED
    BY <2>2, <2>3
<1>4. CASE TimeoutHandlerReturns
  <2>1. PICK f \in flows : TimeoutHandlerReturns!(f)
    BY <1>4 DEF TimeoutHandlerReturns
  <2>2. CASE Current(f)
    BY <2>1, <2>2, WorkOver DEF CloseConnection, Link!Close
  <2>3. CASE ~Current(f)
    BY <2>1, <2>3, WorkOfFlow DEF linkVars, subVars, taskVars, Tasked
  <2> QED
    BY <2>2, <2>3
<1>5. CASE ErrorHandlerReturns
  BY <1>5, WorkSchedule DEF ErrorHandlerReturns, linkVars
<1>6. CASE ExpiredHandlerReturns
  <2>1. PICK f \in flows : ExpiredHandlerReturns!(f)
    BY <1>6 DEF ExpiredHandlerReturns
  <2>2. CASE Current(f)
    BY <2>1, <2>2, WorkOver DEF MoveUnsubscribed
  <2>3. CASE ~Current(f)
    BY <2>1, <2>3, WorkOfFlow DEF linkVars, subVars, taskVars, Tasked
  <2> QED
    BY <2>2, <2>3
<1>7. CASE MoveHandlerReturns
  <2>1. PICK m \in moving : MoveHandlerReturns!(m)
    BY <1>7 DEF MoveHandlerReturns
  <2>2. CASE m.attempt = attempt
    BY <1>0, <2>1, <2>2 DEF WorkInv, Work, Tasked, TaskTypes
  <2>3. CASE m.attempt # attempt
    <3>1. Moves => Moves'
      BY <2>1, <2>3 DEF Moves, subVars
    <3> QED
      BY <2>1, <2>3, <3>1 DEF linkVars, subVars, WorkInv, Work, Tasked, InFlight
  <2> QED
    BY <2>2, <2>3
<1>8. CASE ConnectedHandlerReturns
  BY <1>8, WorkConnection
<1> QED
  BY <1>1, <1>2, <1>3, <1>4, <1>5, <1>6, <1>7, <1>8 DEF Handlers

LEMMA WorkOthers ==
    ASSUME Types, WorkInv,
           Schedule \/ ReplyTimesOut \/ ResubscribeTimerFires \/ Wire \/ Server \/ ServerPushes
    PROVE  WorkInv'
<1>0. TaskTypes
  BY DEF Types
<1>1. CASE Schedule
  BY <1>1, WorkSchedule DEF Schedule, linkVars
<1>2. CASE ReplyTimesOut
  BY <1>2, WorkOfFlow DEF ReplyTimesOut, linkVars, subVars, taskVars, Tasked
<1>3. CASE ResubscribeTimerFires
  BY <1>0, <1>3 DEF ResubscribeTimerFires, WorkInv, Work, Tasked, TaskTypes
<1>4. CASE ReplyArrives
  <2>1. InFlight => InFlight'
    <3>1. SUFFICES ASSUME NEW g \in flows, g.conn = transport_id, g.attempt = attempt
                   PROVE  InFlight'
      BY DEF InFlight
    <3>2. \/ g \in flows'
          \/ [g EXCEPT !.pc = "replied", !.out = Head(messages).out] \in flows'
      BY <1>4 DEF ReplyArrives
    <3>3. [g EXCEPT !.pc = "replied", !.out = Head(messages).out].conn = g.conn
          /\ [g EXCEPT !.pc = "replied", !.out = Head(messages).out].attempt = g.attempt
      BY DEF Types, FlowTypes, Flow
    <3> QED
      BY <1>4, <3>1, <3>2, <3>3 DEF ReplyArrives, linkVars, subVars, InFlight
  <2> QED
    BY <1>4, <2>1 DEF ReplyArrives, linkVars, subVars, taskVars, WorkInv, Work, Tasked, Moves
<1>5. CASE UnsubscribeReplyArrives \/ Server \/ ServerPushes
  BY <1>5 DEF UnsubscribeReplyArrives, Server, ServerSubscribes, ServerUnsubscribes,
     ServerHandles, ServerPushes, linkVars, subVars, taskVars, WorkInv, Work, Tasked, Moves,
     InFlight
<1>6. CASE PushArrives
  <2>1. CASE UNCHANGED <<subVars, moving>>
    BY <1>6, <2>1 DEF PushArrives, linkVars, subVars, taskVars, WorkInv, Work, Tasked, Moves,
       InFlight
  <2>2. CASE MoveUnsubscribed
    BY <2>2, WorkOver DEF MoveUnsubscribed
  <2>3. CASE EnterSubscribing /\ moving' = moving \cup {[conn |-> session, attempt |-> attempt + 1]}
    <3>1. [conn |-> session, attempt |-> attempt + 1] \in moving' /\ attempt' = attempt + 1
      BY <2>3 DEF EnterSubscribing
    <3>2. Moves'
      BY <3>1 DEF Moves
    <3> QED
      BY <3>2 DEF WorkInv, Work
  <2> QED
    BY <1>6, <2>1, <2>2, <2>3 DEF PushArrives
<1> QED
  BY <1>1, <1>2, <1>3, <1>4, <1>5, <1>6 DEF Wire

LEMMA AppStays == ASSUME Next PROVE UNCHANGED app
<1>1. CASE Application \/ Answers \/ Wire \/ Server \/ ServerPushes
  BY <1>1 DEF Application, Subscribe, Unsubscribe, Answers, GetStateReturns, GetStateFails,
     GetStateCancelled, TokenReturns, TokenFails, Wire, ReplyArrives, UnsubscribeReplyArrives,
     PushArrives, Server, ServerSubscribes, ServerUnsubscribes, ServerHandles, ServerPushes,
     linkVars
<1>2. CASE Handlers
  BY <1>2 DEF Handlers, SubscribeHandlerReturns, ConnectedHandlerReturns, StateHandlerReturns,
     TokenHandlerReturns, TimeoutHandlerReturns, ErrorHandlerReturns, ExpiredHandlerReturns,
     SubscribedHandlerReturns, MoveHandlerReturns, CloseConnection, linkVars
<1>3. CASE Tasks \/ Connected \/ LoseConnection \/ ReplyTimesOut \/ ResubscribeTimerFires
  BY <1>3 DEF Tasks, StartFlow, Schedule, RepliedResumes, UnsubscribeFails, Connected,
     LoseConnection, ReplyTimesOut, ResubscribeTimerFires, CloseConnection, linkVars
<1> QED
  BY <1>1, <1>2, <1>3 DEF Next

LEMMA NoSlowKept ==
    ASSUME Types, NoSlowHandler, UNCHANGED app, StateStep \/ Succeeds
    PROVE  NoSlowHandler'
<1>1. CASE StateStep
  BY <1>1 DEF StateStep, KeepsSubscribed, NoSlowHandler
<1>2. CASE Succeeds
  BY <1>2 DEF Succeeds, MoveSubscribed, Ends, NoSlowHandler
<1> QED
  BY <1>1, <1>2

PromptInv == Types /\ (Prompt => NoSlowHandler /\ WorkInv)

LEMMA PromptStep == PromptInv /\ [Next]_vars => PromptInv'
<1> SUFFICES ASSUME PromptInv, [Next]_vars PROVE PromptInv'
  OBVIOUS
<1>0. Types'
  BY TypeStep DEF PromptInv
<1>1. CASE UNCHANGED vars
  <2>1. /\ (Prompt <=> Prompt') /\ (NoSlowHandler <=> NoSlowHandler')
        /\ (WorkInv <=> WorkInv')
    BY <1>1 DEF vars, linkVars, subVars, taskVars, Prompt, NoSlowHandler, WorkInv, Work, Tasked,
       Moves, InFlight
  <2> QED
    BY <1>0, <2>1 DEF PromptInv
<1>2. CASE Next
  <2>0. SUFFICES ASSUME Prompt' PROVE NoSlowHandler' /\ WorkInv'
    BY <1>0 DEF PromptInv
  <2>1. Types /\ NoSlowHandler /\ WorkInv /\ ~app.slow /\ ~app.cancels /\ UNCHANGED app
    BY <1>2, <2>0, AppStays DEF Prompt, PromptInv
  <2>2. NoSlowHandler'
    BY <1>2, <2>1, EveryStep, NoSlowKept
  <2>3. ~SubscribedHandlerReturns
    BY <2>1 DEF SubscribedHandlerReturns, NoSlowHandler
  <2>4. WorkInv'
    BY <1>2, <2>1, <2>3, WorkApplication, WorkConnection, WorkStart, WorkAnswers, WorkReplied,
       WorkHandlers, WorkOthers DEF Next, Tasks
  <2> QED
    BY <2>2, <2>4
<1> QED
  BY <1>1, <1>2

LEMMA PromptInit == Init => PromptInv
BY TypeInit DEF Init, PromptInv, NoSlowHandler, WorkInv

\* While connected, a subscription that is subscribing has a timer, a task, a handler or
\* a flow that takes it further (_start_subscribe(), _schedule_resubscribe(), the flow of
\* the attempt), with an on_subscribed that does not wait and a get_state that is not
\* cancelled: the two exceptions are findings.
THEOREM SubscribingAlwaysHasWork == Spec => []PromptHasWork
<1>1. Spec => []PromptInv
  BY PromptInit, PromptStep, PTL DEF Spec
<1>2. PromptInv => PromptHasWork
  BY WorkIsWork DEF PromptInv, PromptHasWork
<1> QED
  BY <1>1, <1>2, PTL
=============================================================================
