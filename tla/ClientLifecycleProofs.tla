------------------------- MODULE ClientLifecycleProofs -------------------------
(***************************************************************************)
(* Theorems about ClientLifecycle, for every value of its constants.       *)
(***************************************************************************)
EXTENDS ClientLifecycle, TLAPS

-----------------------------------------------------------------------------
(* Type correctness *)

ClientTypes ==
    /\ state \in ClientState
    /\ transport_id \in Nat /\ transition \in Nat
    /\ conn \in Nat /\ open_task \in Nat /\ open \subseteq Nat \ {0}
    /\ attempts \subseteq Attempt
    /\ transitions \subseteq Transition
    /\ reconnect_timer \in BOOLEAN
    /\ ping_timer \in Nat
    /\ connected_future \in [n : Nat, st : {"pending", "result", "exception"}]
    /\ last_event \in {"none", "connecting", "connected", "disconnected"}

TokenTypes ==
    /\ app \in App /\ token \in Nat /\ refresh_required \in BOOLEAN
    /\ issued \in Nat /\ rejected \subseteq Nat

OtherTypes ==
    /\ TokenTypes
    /\ ponging \subseteq Nat /\ ready \in Seq(Task) /\ calls \in Nat /\ faults \in Nat

LEMMA TypesSplit == TypeOK => ClientTypes /\ OtherTypes
BY DEF TypeOK, ClientTypes, OtherTypes, TokenTypes

LEMMA TypesJoin == ClientTypes' /\ OtherTypes' => TypeOK'
BY DEF TypeOK, ClientTypes, OtherTypes, TokenTypes

LEMMA FreshFutureType ==
    ASSUME NEW f \in [n : Nat, st : {"pending", "result", "exception"}]
    PROVE  /\ FreshFuture(f) \in [n : Nat, st : {"pending", "result", "exception"}]
           /\ FreshFuture(f).st = "pending"
           /\ f.st = "pending" => FreshFuture(f) = f
BY DEF FreshFuture, Done

LEMMA SpawnType ==
    ASSUME ready \in Seq(Task), NEW op \in {"create", "reconnect", "noPing", "resume"},
           NEW i \in Nat, Spawn(op, i)
    PROVE  ready' \in Seq(Task)
BY DEF Spawn, Task

LEMMA TailType ==
    ASSUME ready \in Seq(Task), ready # <<>>
    PROVE  Tail(ready) \in Seq(Task) /\ Head(ready) \in Task
OBVIOUS

LEMMA MoveType ==
    ASSUME attempts \subseteq Attempt, NEW a \in attempts,
           NEW pc \in AttemptPc, NEW out \in Outcome
    PROVE  Move(a, pc, out) \subseteq Attempt /\ Without(a) \subseteq Attempt
BY DEF Move, Without, Attempt

LEMMA TeardownType ==
    ASSUME ClientTypes, NEW rest \in SUBSET attempts, NEW again \in BOOLEAN,
           Teardown(rest, again)
    PROVE  ClientTypes'
<1> USE DEF ClientTypes
<1>1. NewTransition("teardown", again, "event") \in Transition
      /\ NewTransition("teardown", again, "clearing") \in Transition
  BY DEF NewTransition, Transition
<1>2. connected_future' \in [n : Nat, st : {"pending", "result", "exception"}]
  BY FreshFutureType DEF Teardown
<1>3. attempts' \subseteq Attempt
  BY DEF Teardown
<1>4. transitions' \subseteq Transition
  BY <1>1 DEF Teardown
<1>5. state' \in ClientState /\ open' \subseteq Nat \ {0}
      /\ transport_id' \in Nat /\ transition' \in Nat
      /\ conn' \in Nat /\ open_task' \in Nat /\ ping_timer' \in Nat
  BY DEF Teardown, ClientState
<1>6. reconnect_timer' \in BOOLEAN
  BY DEF Teardown
<1>7. last_event' \in {"none", "connecting", "connected", "disconnected"}
  BY DEF Teardown
<1> QED
  BY <1>2, <1>3, <1>4, <1>5, <1>6, <1>7
-----------------------------------------------------------------------------
(* One lemma per action: the types are preserved *)

LEMMA TypeApplication ==
    ASSUME TypeOK, Application PROVE TypeOK'
<1> USE DEF OtherTypes, TokenTypes, tokenVars
<1>0. ClientTypes /\ OtherTypes
  BY TypesSplit
<1>1. CASE Connect
  <2>1. connected_future' \in [n : Nat, st : {"pending", "result", "exception"}]
    BY <1>0, <1>1, FreshFutureType DEF Connect, ClientTypes
  <2>2. \A again \in BOOLEAN : NewTransition("connect", again, "event") \in Transition
    BY <1>0 DEF ClientTypes, NewTransition, Transition
  <2>3. transitions' \subseteq Transition
    BY <1>0, <1>1, <2>2 DEF Connect, ClientTypes
  <2>4. ClientTypes'
    <3>1. /\ state' \in ClientState /\ transition' \in Nat
          /\ last_event' \in {"none", "connecting", "connected", "disconnected"}
      BY <1>0, <1>1 DEF Connect, ClientTypes, ClientState
    <3>2. UNCHANGED <<transport_id, conn, open_task, open, attempts, reconnect_timer, ping_timer>>
      BY <1>1 DEF Connect
    <3> QED
      BY <1>0, <2>1, <2>3, <3>1, <3>2 DEF ClientTypes
  <2>5. OtherTypes'
    BY <1>0, <1>1 DEF Connect, Call
  <2> QED
    BY <2>4, <2>5, TypesJoin
<1>2. CASE Disconnect
  <2>1. ClientTypes'
    BY <1>0, <1>2, TeardownType DEF Disconnect
  <2>2. OtherTypes'
    BY <1>0, <1>2 DEF Disconnect, Call
  <2> QED
    BY <2>1, <2>2, TypesJoin
<1>3. CASE SetToken
  <2>1. ClientTypes'
    BY <1>0, <1>3 DEF SetToken, clientVars, ClientTypes
  <2>2. token' \in Nat /\ issued' \in Nat /\ refresh_required' \in BOOLEAN
    BY <1>0, <1>3 DEF SetToken, NextToken
  <2>3. OtherTypes'
    BY <1>0, <1>3, <2>2 DEF SetToken, Call
  <2> QED
    BY <2>1, <2>3, TypesJoin
<1>4. CASE CancelConnect
  <2>1. ClientTypes'
    BY <1>0, <1>4 DEF CancelConnect, ClientTypes
  <2>2. OtherTypes'
    BY <1>0, <1>4 DEF CancelConnect, Call
  <2> QED
    BY <2>1, <2>2, TypesJoin
<1> QED
  BY <1>1, <1>2, <1>3, <1>4 DEF Application

LEMMA TypeHandlers ==
    ASSUME TypeOK, Handlers PROVE TypeOK'
<1> USE DEF OtherTypes, TokenTypes, tokenVars
<1>0. ClientTypes /\ OtherTypes
  BY TypesSplit
<1>1. CASE ConnectHandlerReturns
  <2>1. ready' \in Seq(Task)
    BY <1>0, <1>1, SpawnType DEF ConnectHandlerReturns
  <2>2. ClientTypes'
    BY <1>0, <1>1 DEF ConnectHandlerReturns, ClientTypes
  <2>3. OtherTypes'
    BY <1>0, <1>1, <2>1 DEF ConnectHandlerReturns
  <2> QED
    BY <2>2, <2>3, TypesJoin
<1>2. CASE ClearingReturns
  <2>1. PICK t \in transitions : ClearingReturns!(t)
    BY <1>2 DEF ClearingReturns
  <2>2. [t EXCEPT !.pc = "event"] \in Transition
    BY <1>0 DEF ClientTypes, Transition
  <2>3. last_event' \in {"none", "connecting", "connected", "disconnected"}
    BY <1>0, <2>1 DEF ClientTypes, TeardownEvent
  <2>4. transitions' \subseteq Transition
    BY <1>0, <2>1, <2>2 DEF ClientTypes
  <2>5. ClientTypes'
    BY <1>0, <2>1, <2>3, <2>4 DEF ClientTypes
  <2>6. OtherTypes'
    BY <1>0, <2>1
  <2> QED
    BY <2>5, <2>6, TypesJoin
<1>3. CASE TeardownHandlerReturns
  <2>1. ClientTypes'
    BY <1>0, <1>3 DEF TeardownHandlerReturns, ScheduleReconnect, ClientTypes
  <2>2. OtherTypes'
    BY <1>0, <1>3 DEF TeardownHandlerReturns
  <2> QED
    BY <2>1, <2>2, TypesJoin
<1>4. CASE BadConfigHandlerReturns
  <2>1. PICK a \in attempts : BadConfigHandlerReturns!(a)
    BY <1>4 DEF BadConfigHandlerReturns
  <2>2. ClientTypes'
    <3>1. CASE AttemptCurrent(a.id)
      BY <1>0, <2>1, <3>1, TeardownType DEF Without
    <3>2. CASE ~AttemptCurrent(a.id)
      BY <1>0, <2>1, <3>2 DEF Without, ClientTypes
    <3> QED BY <3>1, <3>2
  <2>3. OtherTypes'
    BY <1>0, <2>1
  <2> QED
    BY <2>2, <2>3, TypesJoin
<1>5. CASE RetryHandlerReturns
  <2>1. ClientTypes'
    BY <1>0, <1>5 DEF RetryHandlerReturns, ScheduleReconnect, Without, ClientTypes
  <2>2. OtherTypes'
    BY <1>0, <1>5 DEF RetryHandlerReturns
  <2> QED
    BY <2>1, <2>2, TypesJoin
<1>6. CASE FailHandlerReturns
  <2>1. PICK a \in attempts : FailHandlerReturns!(a)
    BY <1>6 DEF FailHandlerReturns
  <2>2. ClientTypes'
    <3>1. CASE AttemptCurrent(a.id)
      BY <1>0, <2>1, <3>1, TeardownType DEF Without
    <3>2. CASE ~AttemptCurrent(a.id)
      BY <1>0, <2>1, <3>2 DEF Without, ClientTypes
    <3> QED BY <3>1, <3>2
  <2>3. OtherTypes'
    BY <1>0, <2>1
  <2> QED
    BY <2>2, <2>3, TypesJoin
<1>7. CASE ConnectedHandlerReturns
  <2>1. ClientTypes'
    BY <1>0, <1>7 DEF ConnectedHandlerReturns, Without, ClientTypes
  <2>2. OtherTypes'
    BY <1>0, <1>7 DEF ConnectedHandlerReturns
  <2> QED
    BY <2>1, <2>2, TypesJoin
<1> QED
  BY <1>1, <1>2, <1>3, <1>4, <1>5, <1>6, <1>7 DEF Handlers

LEMMA TypeGetToken ==
    ASSUME TypeOK, GetToken PROVE TypeOK'
<1> USE DEF OtherTypes, TokenTypes, tokenVars
<1>0. ClientTypes /\ OtherTypes
  BY TypesSplit
<1>1. CASE TokenReturns
  <2>1. PICK a \in attempts : TokenReturns!(a)
    BY <1>1 DEF TokenReturns
  <2>2. attempts' \subseteq Attempt
    BY <1>0, <2>1, MoveType DEF ClientTypes, AttemptPc, Outcome
  <2>3. open_task' \in Nat
    BY <1>0, <2>1 DEF ClientTypes, Attempt
  <2>4. ClientTypes'
    BY <1>0, <2>1, <2>2, <2>3 DEF ClientTypes
  <2>5. token' \in Nat /\ issued' \in Nat /\ refresh_required' \in BOOLEAN
    <3>1. CASE AttemptCurrent(a.id)
      <4>1. token' = NextToken /\ issued' = NextToken
        BY <2>1, <3>1
      <4>2. refresh_required' \in BOOLEAN
        BY <2>1, <3>1, Zenon
      <4> QED
        BY <1>0, <4>1, <4>2 DEF NextToken
    <3>2. CASE ~AttemptCurrent(a.id)
      BY <1>0, <2>1, <3>2 DEF NextToken
    <3> QED BY <3>1, <3>2
  <2>6. OtherTypes'
    BY <1>0, <2>1, <2>5
  <2> QED
    BY <2>4, <2>6, TypesJoin
<1>2. CASE TokenFails
  <2>1. PICK a \in attempts : TokenFails!(a)
    BY <1>2 DEF TokenFails
  <2>2. Move(a, "retryHandler", "none") \subseteq Attempt /\ Without(a) \subseteq Attempt
        /\ Without(a) \subseteq attempts
    BY <1>0, MoveType DEF ClientTypes, AttemptPc, Outcome, Without
  <2>5. ClientTypes'
    <3>1. CASE Teardown(Without(a), FALSE)
      BY <1>0, <2>2, <3>1, TeardownType
    <3>2. CASE ~Teardown(Without(a), FALSE)
      BY <1>0, <2>1, <2>2, <3>2 DEF ClientTypes
    <3> QED BY <3>1, <3>2
  <2>6. OtherTypes'
    BY <1>0, <2>1 DEF Fault
  <2> QED
    BY <2>5, <2>6, TypesJoin
<1> QED
  BY <1>1, <1>2 DEF GetToken

LEMMA TypeReadyTasks ==
    ASSUME TypeOK, ReadyTasks PROVE TypeOK'
<1> USE DEF OtherTypes, TokenTypes, tokenVars
<1>0. ClientTypes /\ OtherTypes
  BY TypesSplit
<1>1. CASE StartAttempt
  <2>1. \A pc \in {"badConfig", "token", "opening"} : NewAttempt(pc) \in Attempt
    BY <1>0 DEF NewAttempt, Attempt, ClientTypes, AttemptPc, Outcome
  <2>2. ClientTypes'
    <3>1. CASE state # "connecting"
      BY <1>0, <1>1, <3>1 DEF StartAttempt, clientVars, ClientTypes
    <3>2. CASE state = "connecting"
      <4>1. attempts' \subseteq Attempt
        BY <1>0, <1>1, <2>1, <3>2 DEF StartAttempt, ClientTypes
      <4>2. open_task' \in {0, transport_id + 1}
        BY <1>1, <3>2 DEF StartAttempt
      <4>3. /\ transport_id' = transport_id + 1 /\ conn' = 0 /\ open' \subseteq open
            /\ UNCHANGED <<state, transition, transitions, reconnect_timer, ping_timer,
                           connected_future, last_event>>
        BY <1>1, <3>2 DEF StartAttempt
      <4> QED
        BY <1>0, <4>1, <4>2, <4>3 DEF ClientTypes
    <3> QED BY <3>1, <3>2
  <2>3. OtherTypes'
    BY <1>0, <1>1, TailType DEF StartAttempt
  <2> QED
    BY <2>2, <2>3, TypesJoin
<1>2. CASE OpenedResumes
  <2>1. PICK a \in attempts : OpenedResumes!(a)
    BY <1>2 DEF OpenedResumes
  <2>2. [a EXCEPT !.pc = "reply", !.sent = token] \in Attempt
    BY <1>0 DEF ClientTypes, Attempt, AttemptPc
  <2>3. attempts' \subseteq Attempt
    BY <1>0, <2>1, <2>2 DEF Without, ClientTypes
  <2>4. conn' \in Nat /\ open_task' \in Nat /\ open' \subseteq Nat \ {0}
    BY <1>0, <2>1 DEF ClientTypes, Attempt
  <2>5. ClientTypes'
    BY <1>0, <2>1, <2>3, <2>4 DEF ClientTypes
  <2>6. OtherTypes'
    BY <1>0, <2>1, TailType DEF Resumes
  <2> QED
    BY <2>5, <2>6, TypesJoin
<1>3. CASE OpenFailedResumes
  <2>1. PICK a \in attempts : OpenFailedResumes!(a)
    BY <1>3 DEF OpenFailedResumes
  <2>2. Move(a, "retryHandler", "none") \subseteq Attempt /\ Without(a) \subseteq Attempt
        /\ Without(a) \subseteq attempts
    BY <1>0, MoveType DEF ClientTypes, AttemptPc, Outcome, Without
  <2>5. ClientTypes'
    <3>1. CASE Teardown(Without(a), TRUE)
      BY <1>0, <2>2, <3>1, TeardownType
    <3>2. CASE ~Teardown(Without(a), TRUE)
      <4>0. ~(a.out = "unexpected" /\ AttemptCurrent(a.id))
        BY <2>1, <3>2
      <4>1. open_task' \in Nat /\ attempts' \subseteq Attempt
        <5>1. open_task' \in {0, open_task}
          BY <2>1, <4>0
        <5>2. attempts' \in {Move(a, "retryHandler", "none"), Without(a)}
          BY <2>1, <4>0
        <5> QED
          BY <1>0, <2>2, <5>1, <5>2 DEF ClientTypes
      <4>2. UNCHANGED <<state, transport_id, transition, conn, open, transitions,
                        reconnect_timer, ping_timer, connected_future, last_event>>
        BY <2>1, <3>2
      <4> QED
        BY <1>0, <4>1, <4>2 DEF ClientTypes
    <3> QED BY <3>1, <3>2
  <2>6. OtherTypes'
    BY <1>0, <2>1, TailType DEF Resumes
  <2> QED
    BY <2>5, <2>6, TypesJoin
<1>4. CASE RepliedResumes
  <2>1. PICK a \in attempts : RepliedResumes!(a)
    BY <1>4 DEF RepliedResumes
  <2>2. Move(a, "failHandler", "none") \subseteq Attempt
        /\ Move(a, "onConnected", "none") \subseteq Attempt
        /\ Without(a) \subseteq Attempt /\ Without(a) \subseteq attempts
    BY <1>0, MoveType DEF ClientTypes, AttemptPc, Outcome, Without
  <2>3. ready' \in Seq(Task) /\ ponging' \subseteq Nat /\ calls' \in Nat /\ faults' \in Nat
    BY <1>0, <2>1, TailType DEF Resumes
  <2>4. CASE \E again \in BOOLEAN : Teardown(Without(a), again) /\ UNCHANGED tokenVars
    <3>1. ClientTypes'
      BY <1>0, <2>2, <2>4, TeardownType
    <3> QED
      BY <1>0, <2>3, <2>4, <3>1, TypesJoin
  <2>5. CASE attempts' = Without(a) /\ UNCHANGED <<state, transport_id, transition, conn,
                open_task, open, transitions, reconnect_timer, ping_timer, connected_future,
                last_event, tokenVars>>
    <3>1. ClientTypes'
      BY <1>0, <2>2, <2>5 DEF ClientTypes
    <3> QED
      BY <1>0, <2>3, <2>5, <3>1, TypesJoin
  <2>6. CASE Connected(a)
    <3>1. ping_timer' \in Nat
          /\ connected_future' \in [n : Nat, st : {"pending", "result", "exception"}]
      BY <1>0, <2>6 DEF Connected, ClientTypes, Attempt
    <3>2. ClientTypes'
      BY <1>0, <2>2, <2>6, <3>1 DEF Connected, ClientTypes, ClientState
    <3> QED
      BY <1>0, <2>3, <2>6, <3>2, TypesJoin DEF Connected
  <2>7. CASE ConnectErrorHandler(a)
    <3>1. ClientTypes'
      BY <1>0, <2>2, <2>7 DEF ConnectErrorHandler, ClientTypes
    <3> QED
      BY <1>0, <2>3, <2>7, <3>1, TypesJoin DEF ConnectErrorHandler
  <2> QED
    BY <2>1, <2>4, <2>5, <2>6, <2>7
<1>5. CASE NoPing
  <2>1. ClientTypes'
    <3>1. CASE state = "disconnected"
      BY <1>0, <1>5, <3>1 DEF NoPing, clientVars, ClientTypes
    <3>2. CASE state # "disconnected"
      BY <1>0, <1>5, <3>2, TeardownType DEF NoPing
    <3> QED BY <3>1, <3>2
  <2>2. OtherTypes'
    BY <1>0, <1>5, TailType DEF NoPing
  <2> QED
    BY <2>1, <2>2, TypesJoin
<1> QED
  BY <1>1, <1>2, <1>3, <1>4, <1>5 DEF ReadyTasks

LEMMA TypeEnvironment ==
    ASSUME TypeOK,
           HandshakeEnds \/ ReplyArrives \/ TransportEnds \/ PingArrives \/ PongReturns
             \/ ReconnectTimerFires \/ PingTimerFires
    PROVE  TypeOK'
<1> USE DEF OtherTypes, TokenTypes, tokenVars
<1>0. ClientTypes /\ OtherTypes
  BY TypesSplit
<1>1. CASE HandshakeEnds
  <2>1. PICK a \in attempts : HandshakeEnds!(a)
    BY <1>1 DEF HandshakeEnds
  <2>2. a.id \in Nat \ {0}
    BY <1>0 DEF ClientTypes, Attempt
  <2>3. ready' \in Seq(Task)
    BY <1>0, <2>1, <2>2, SpawnType
  <2>4. attempts' \subseteq Attempt
    <3>1. \A out \in OpenOutcome : Move(a, "openFailed", out) \subseteq Attempt
      BY <1>0, MoveType DEF ClientTypes, AttemptPc, Outcome
    <3>2. Move(a, "opened", "none") \subseteq Attempt
      BY <1>0, MoveType DEF ClientTypes, AttemptPc, Outcome
    <3> QED
      BY <2>1, <3>1, <3>2
  <2>5. open' \subseteq Nat \ {0}
    BY <1>0, <2>1, <2>2 DEF ClientTypes
  <2>6. ClientTypes'
    BY <1>0, <2>1, <2>4, <2>5 DEF ClientTypes
  <2>7. OtherTypes'
    BY <1>0, <2>1, <2>3 DEF Fault
  <2> QED
    BY <2>6, <2>7, TypesJoin
<1>2. CASE ReplyArrives
  <2>1. PICK a \in attempts : ReplyArrives!(a)
    BY <1>2 DEF ReplyArrives
  <2>2. a.id \in Nat
    BY <1>0 DEF ClientTypes, Attempt
  <2>3. ready' \in Seq(Task)
    BY <1>0, <2>1, <2>2, SpawnType
  <2>4. attempts' \subseteq Attempt
    <3>1. \A out \in ReplyOutcome : Move(a, "replied", out) \subseteq Attempt
      BY <1>0, MoveType DEF ClientTypes, AttemptPc, Outcome
    <3>2. PICK out \in ReplyOutcome : attempts' = Move(a, "replied", out)
      BY <2>1 DEF ReplyOutcome
    <3> QED
      BY <3>1, <3>2
  <2>5. ClientTypes'
    BY <1>0, <2>1, <2>4 DEF ClientTypes
  <2>6. OtherTypes'
    BY <1>0, <2>1, <2>3 DEF Fault
  <2> QED
    BY <2>5, <2>6, TypesJoin
<1>3. CASE TransportEnds
  <2>1. ClientTypes'
    <3>1. PICK again \in BOOLEAN : Teardown(attempts, again)
      BY <1>3 DEF TransportEnds
    <3> QED
      BY <1>0, <3>1, TeardownType
  <2>2. TokenTypes'
    <3>1. CASE UNCHANGED tokenVars
      BY <1>0, <3>1
    <3>2. CASE InvalidateToken
      <4>1. token' \in Nat /\ issued' \in Nat /\ rejected' \subseteq Nat
        <5>1. token' \in {0, token} /\ issued' = issued
          BY <3>2 DEF InvalidateToken
        <5>2. rejected' \in {rejected, rejected \cup ({token} \ {0})}
          BY <3>2 DEF InvalidateToken
        <5> QED
          BY <1>0, <5>1, <5>2
      <4>2. refresh_required' \in BOOLEAN
        BY <1>0, <3>2, Zenon DEF InvalidateToken
      <4>3. app' \in App
        BY <1>0, <3>2 DEF InvalidateToken
      <4> QED
        BY <4>1, <4>2, <4>3
    <3> QED
      BY <1>3, <3>1, <3>2 DEF TransportEnds
  <2>3. OtherTypes'
    BY <1>0, <1>3, <2>2 DEF TransportEnds, Fault
  <2> QED
    BY <2>1, <2>3, TypesJoin
<1>4. CASE PingArrives
  <2>1. ClientTypes'
    BY <1>0, <1>4 DEF PingArrives, ClientTypes
  <2>2. OtherTypes'
    BY <1>0, <1>4 DEF PingArrives, ClientTypes
  <2> QED
    BY <2>1, <2>2, TypesJoin
<1>5. CASE PongReturns
  <2>1. ClientTypes'
    BY <1>0, <1>5 DEF PongReturns, ClientTypes
  <2>2. OtherTypes'
    BY <1>0, <1>5 DEF PongReturns
  <2> QED
    BY <2>1, <2>2, TypesJoin
<1>6. CASE ReconnectTimerFires
  <2>1. ready' \in Seq(Task)
    BY <1>0, <1>6, SpawnType DEF ReconnectTimerFires
  <2>2. ClientTypes'
    BY <1>0, <1>6 DEF ReconnectTimerFires, ClientTypes
  <2>3. OtherTypes'
    BY <1>0, <1>6, <2>1 DEF ReconnectTimerFires
  <2> QED
    BY <2>2, <2>3, TypesJoin
<1>7. CASE PingTimerFires
  <2>1. ready' \in Seq(Task)
    BY <1>0, <1>7, SpawnType DEF PingTimerFires, ClientTypes
  <2>2. ClientTypes'
    BY <1>0, <1>7 DEF PingTimerFires, ClientTypes
  <2>3. OtherTypes'
    BY <1>0, <1>7, <2>1 DEF PingTimerFires, Fault
  <2> QED
    BY <2>2, <2>3, TypesJoin
<1> QED
  BY <1>1, <1>2, <1>3, <1>4, <1>5, <1>6, <1>7

LEMMA TypeStep ==
    ASSUME TypeOK, [Next]_vars PROVE TypeOK'
<1>1. CASE Next
  BY <1>1, TypeApplication, TypeHandlers, TypeGetToken, TypeReadyTasks, TypeEnvironment DEF Next
<1>2. CASE UNCHANGED vars
  BY <1>2 DEF vars, clientVars, tokenVars, TypeOK
<1> QED
  BY <1>1, <1>2

LEMMA TypeInit == Init => TypeOK
<1> SUFFICES ASSUME Init PROVE TypeOK
  OBVIOUS
<1>1. reconnect_timer \in BOOLEAN /\ refresh_required \in BOOLEAN
  BY Zenon DEF Init
<1>2. ready \in Seq(Task)
  BY DEF Init
<1>3. token \in Nat /\ issued \in Nat
  BY DEF Init
<1> QED
  BY <1>1, <1>2, <1>3, BoundsAssumption, ConfigAssumption DEF Init, TypeOK, ClientState

\* Every reachable state is well typed, however many calls and faults there are:
\* every record built by an attempt, a transition or a task has its fields.
THEOREM TypeCorrectness == Spec => []TypeOK
BY TypeInit, TypeStep, PTL DEF Spec
-----------------------------------------------------------------------------
(***************************************************************************)
(* The inductive invariant behind the safety properties.  Beyond them it   *)
(* says where the current attempt can be (Phases), which identities exist  *)
(* (Identities) and what the current transition means (CurrentTransition). *)
(***************************************************************************)

Identities ==
    /\ \A a \in attempts : a.id <= transport_id
    /\ \A t \in transitions : t.id <= transition
    /\ \A a, b \in attempts : a.id = b.id => a = b

OpenedAreOpen == \A a \in attempts : a.pc = "opened" => a.id \in open /\ a.id # conn

EarlyPc == {"badConfig", "token", "retryHandler", "opening", "opened", "openFailed"}

Phases ==
    \A a \in attempts : a.id = transport_id =>
        /\ a.pc \in EarlyPc => conn = 0
        /\ a.pc \notin EarlyPc => conn = a.id
        /\ a.pc = "onConnected" => state = "connected"
        /\ a.pc # "onConnected" => state = "connecting"

CurrentTransition ==
    \A t \in transitions :
        /\ t.kind = "connect" => t.pc = "event"
        /\ t.id = transition /\ t.reconnect => state # "disconnected"
        /\ t.id = transition /\ ~t.reconnect => state = "disconnected"
        /\ t.id = transition /\ ~t.reconnect /\ t.pc = "event" => last_event = "disconnected"

CoreInv ==
    /\ Identities /\ OpenedAreOpen /\ Phases /\ CurrentTransition
    /\ OneConnection /\ NoLeakedTransport /\ FutureMatchesState
    /\ PatientHasWork /\ NoTimerLeftBehind /\ StopAnnounced

LEMMA TeardownCore ==
    ASSUME ClientTypes, CoreInv, UNCHANGED app, NEW rest \in SUBSET attempts, NEW again \in BOOLEAN,
           Teardown(rest, again),
           \A a \in attempts : a.pc = "opened" => a \in rest
    PROVE  CoreInv'
<1> USE DEF CoreInv
<1> DEFINE n == NewTransition("teardown", again, "clearing")
           m == NewTransition("teardown", again, "event")
<1>1. /\ attempts' \subseteq rest /\ transport_id' = transport_id + 1
      /\ transition' = transition + 1 /\ conn' = 0 /\ open_task' = 0 /\ open' = open \ {conn}
      /\ state' = IF again THEN "connecting" ELSE "disconnected"
      /\ \A a \in rest : a.pc = "opened" => a \in attempts'
  BY DEF Teardown, Aborted
<1>2. /\ transport_id \in Nat /\ transition \in Nat
      /\ \A a \in attempts : a.id \in Nat \ {0}
      /\ \A t \in transitions : t.id \in Nat
  BY DEF ClientTypes, Attempt, Transition
<1>3. \A a \in attempts' : a.id < transport_id'
  BY <1>1, <1>2 DEF Identities
<1>4. /\ n.id = transition' /\ n.kind = "teardown" /\ n.reconnect = again /\ n.pc = "clearing"
      /\ m.id = transition' /\ m.kind = "teardown" /\ m.reconnect = again /\ m.pc = "event"
  BY <1>1 DEF NewTransition
<1>5. \/ state = "connected" /\ transitions' = transitions \cup {n} /\ reconnect_timer' = FALSE
      \/ again /\ transitions' = transitions /\ reconnect_timer' = TRUE
      \/ ~again /\ transitions' = transitions \cup {m} /\ reconnect_timer' = FALSE
           /\ last_event' = "disconnected"
  BY DEF Teardown
<1>6. \A t \in transitions : t.id < transition'
  BY <1>1, <1>2 DEF Identities
<1>7. Identities'
  BY <1>1, <1>2, <1>3, <1>4, <1>5, <1>6 DEF Identities
<1>8. Phases'
  BY <1>1, <1>2, <1>3 DEF Phases
<1>9. CurrentTransition'
  BY <1>1, <1>2, <1>4, <1>5, <1>6 DEF CurrentTransition
<1>10. OneConnection'
  BY <1>1 DEF OneConnection
<1>11. NoLeakedTransport'
  BY <1>1 DEF NoLeakedTransport
<1>12. FutureMatchesState'
  BY <1>1, FreshFutureType DEF FutureMatchesState, Teardown, ClientTypes
<1>13. PatientHasWork'
  BY <1>1, <1>4, <1>5 DEF Patient, PatientHasWork, ConnectingHasWork
<1>14. NoTimerLeftBehind'
  BY <1>1, <1>5 DEF NoTimerLeftBehind
<1>15. StopAnnounced'
  BY <1>1, <1>4, <1>5 DEF StopAnnounced
<1>16. OpenedAreOpen'
  BY <1>1, <1>2 DEF OpenedAreOpen
<1> QED
  BY <1>7, <1>8, <1>9, <1>10, <1>11, <1>12, <1>13, <1>14, <1>15, <1>16

\* What the leaves below use of the types.
LEMMA CoreTypes ==
    ASSUME TypeOK
    PROVE  /\ ClientTypes /\ ready \in Seq(Task)
           /\ transport_id \in Nat /\ transition \in Nat
           /\ \A a \in attempts : a.id \in Nat \ {0}
           /\ \A t \in transitions : t.id \in Nat /\ t.reconnect \in BOOLEAN
BY TypesSplit DEF ClientTypes, OtherTypes, Attempt, Transition

\* A moved attempt keeps its identity.
LEMMA MoveFacts ==
    ASSUME attempts \subseteq Attempt, NEW a \in attempts, NEW pc \in AttemptPc,
           NEW out \in Outcome
    PROVE  \E b : b.id = a.id /\ b.pc = pc /\ Move(a, pc, out) = (attempts \ {a}) \cup {b}
<1> DEFINE b == [a EXCEPT !.pc = pc, !.out = out]
<1>1. b.id = a.id /\ b.pc = pc
  BY DEF Attempt
<1>2. Move(a, pc, out) = (attempts \ {a}) \cup {b}
  BY DEF Move
<1> QED
  BY <1>1, <1>2

\* Work in progress goes on as long as none of its four forms is lost.
LEMMA WorkKept ==
    ASSUME PatientHasWork, UNCHANGED app,
           state' = "connecting" => state = "connecting",
           reconnect_timer => reconnect_timer',
           \A i \in 1..Len(ready) : ready[i].op \in {"create", "reconnect"} =>
               \E j \in 1..Len(ready') : ready'[j].op \in {"create", "reconnect"},
           state' = "connecting" /\ (\E a \in attempts : a.id = transport_id)
               => reconnect_timer' \/ \E a \in attempts' : a.id = transport_id',
           state' = "connecting" /\ (\E t \in transitions : t.id = transition)
               => \/ reconnect_timer' \/ ~Patient
                  \/ \E j \in 1..Len(ready') : ready'[j].op \in {"create", "reconnect"}
                  \/ \E t \in transitions' : t.id = transition'
    PROVE  PatientHasWork'
BY DEF Patient, PatientHasWork, ConnectingHasWork

LEMMA ReadyKept ==
    ASSUME ready \in Seq(Task), NEW op \in {"create", "reconnect", "noPing", "resume"},
           NEW i0 \in Nat, Spawn(op, i0)
    PROVE  /\ \A i \in 1..Len(ready) : i \in 1..Len(ready') /\ ready'[i] = ready[i]
           /\ Len(ready') \in 1..Len(ready') /\ ready'[Len(ready')].op = op
BY DEF Spawn, Task

LEMMA ReadyTail ==
    ASSUME ready \in Seq(Task), ready # <<>>, ready' = Tail(ready),
           Head(ready).op \notin {"create", "reconnect"}
    PROVE  \A i \in 1..Len(ready) : ready[i].op \in {"create", "reconnect"} =>
               \E j \in 1..Len(ready') : ready'[j].op \in {"create", "reconnect"}
<1>1. TAKE i \in 1..Len(ready)
<1>2. HAVE ready[i].op \in {"create", "reconnect"}
<1>3. i # 1
  BY <1>2
<1>4. i - 1 \in 1..Len(ready') /\ ready'[i - 1] = ready[i]
  BY <1>3
<1> QED
  BY <1>2, <1>4

LEMMA CoreConnect ==
    ASSUME TypeOK, CoreInv, UNCHANGED app, Connect PROVE CoreInv'
<1> USE DEF CoreInv, Connect
<1> DEFINE n == NewTransition("connect", TRUE, "event")
<1>1. /\ n.id = transition' /\ n.kind = "connect" /\ n.reconnect /\ n.pc = "event"
      /\ transitions' = transitions \cup {n}
  BY DEF NewTransition
<1> HIDE DEF n
<1>2. \A t \in transitions : t.id < transition'
  BY CoreTypes DEF Identities
<1>3. Phases' /\ OneConnection' /\ NoLeakedTransport' /\ OpenedAreOpen'
  BY DEF Phases, OneConnection, NoLeakedTransport, OpenedAreOpen
<1>4. Identities' /\ CurrentTransition'
  <2>1. transition \in Nat /\ transition' = transition + 1 /\ state' = "connecting"
    BY CoreTypes
  <2>2. /\ \A a \in attempts' : a.id <= transport_id'
        /\ \A a, b \in attempts' : a.id = b.id => a = b
    BY DEF Identities
  <2>3. ASSUME NEW t \in transitions'
        PROVE  /\ t.id <= transition' /\ (t.kind = "connect" => t.pc = "event")
               /\ t.id = transition' => t.reconnect
    <3>1. CASE t \in transitions
      <4>1. t.id \in Nat /\ t.id < transition'
        BY CoreTypes, <1>2, <3>1
      <4>2. t.kind = "connect" => t.pc = "event"
        BY <3>1 DEF CurrentTransition
      <4> QED
        BY <2>1, <4>1, <4>2
    <3>2. CASE t = n
      <4>1. n.id <= transition'
        BY <1>1, <2>1
      <4> QED
        BY <1>1, <3>2, <4>1
    <3> QED
      BY <1>1, <2>3, <3>1, <3>2
  <2> QED
    BY <2>1, <2>2, <2>3 DEF Identities, CurrentTransition
<1>5. FutureMatchesState'
  BY CoreTypes, FreshFutureType DEF FutureMatchesState, ClientTypes
<1>6. PatientHasWork' /\ NoTimerLeftBehind' /\ StopAnnounced'
  BY <1>1 DEF Patient, PatientHasWork, ConnectingHasWork, NoTimerLeftBehind, StopAnnounced
<1> QED
  BY <1>3, <1>4, <1>5, <1>6

LEMMA CoreSetToken ==
    ASSUME CoreInv, UNCHANGED app, SetToken PROVE CoreInv'
BY DEF SetToken, clientVars, CoreInv, Identities, OpenedAreOpen, Phases, CurrentTransition,
       OneConnection, NoLeakedTransport, FutureMatchesState, Patient, PatientHasWork,
       ConnectingHasWork, NoTimerLeftBehind, StopAnnounced

LEMMA CoreCancelConnect ==
    ASSUME TypeOK, CoreInv, UNCHANGED app, CancelConnect PROVE CoreInv'
<1> USE DEF CoreInv, CancelConnect
<1>1. PICK t \in transitions : t.kind = "connect" /\ transitions' = transitions \ {t}
  OBVIOUS
<1>2. /\ Identities' /\ Phases' /\ CurrentTransition' /\ OneConnection' /\ NoLeakedTransport'
      /\ FutureMatchesState' /\ NoTimerLeftBehind' /\ OpenedAreOpen'
  BY <1>1 DEF OpenedAreOpen, Identities, Phases, CurrentTransition, OneConnection, NoLeakedTransport,
              FutureMatchesState, NoTimerLeftBehind
<1>3. PatientHasWork'
  BY DEF Patient, PatientHasWork
<1>4. StopAnnounced'
  BY CoreTypes, <1>1 DEF StopAnnounced, CurrentTransition
<1> QED
  BY <1>2, <1>3, <1>4

LEMMA CoreConnectHandlerReturns ==
    ASSUME TypeOK, CoreInv, UNCHANGED app, ConnectHandlerReturns PROVE CoreInv'
<1> USE DEF CoreInv
<1>1. PICK t \in transitions : ConnectHandlerReturns!(t)
  BY DEF ConnectHandlerReturns
<1>2. /\ Identities' /\ Phases' /\ CurrentTransition' /\ OneConnection' /\ NoLeakedTransport'
      /\ FutureMatchesState' /\ NoTimerLeftBehind' /\ OpenedAreOpen'
  BY <1>1 DEF OpenedAreOpen, Identities, Phases, CurrentTransition, OneConnection, NoLeakedTransport,
              FutureMatchesState, NoTimerLeftBehind
<1>3. PatientHasWork'
  <2>1. CASE transition = t.id /\ state = "connecting"
    BY CoreTypes, ReadyKept, <1>1, <2>1 DEF TransitionCurrent, PatientHasWork, ConnectingHasWork
  <2>2. CASE ~(transition = t.id /\ state = "connecting")
    BY <1>1, <2>2 DEF TransitionCurrent, Patient, PatientHasWork, ConnectingHasWork
  <2> QED
    BY <2>1, <2>2
<1>4. StopAnnounced'
  BY CoreTypes, <1>1 DEF StopAnnounced, CurrentTransition
<1> QED
  BY <1>2, <1>3, <1>4

LEMMA CoreClearingReturns ==
    ASSUME TypeOK, CoreInv, UNCHANGED app, ClearingReturns PROVE CoreInv'
<1> USE DEF CoreInv
<1>1. PICK t \in transitions : ClearingReturns!(t)
  BY DEF ClearingReturns
<1> DEFINE u == [t EXCEPT !.pc = "event"]
<1>2. u.id = t.id /\ u.kind = t.kind /\ u.reconnect = t.reconnect /\ u.pc = "event"
  BY CoreTypes DEF ClientTypes, Transition
<1>3. /\ Phases' /\ OneConnection' /\ NoLeakedTransport' /\ FutureMatchesState'
      /\ NoTimerLeftBehind' /\ OpenedAreOpen'
  BY <1>1 DEF OpenedAreOpen, Phases, OneConnection, NoLeakedTransport, FutureMatchesState, NoTimerLeftBehind
<1>4. CASE transition = t.id
  <2>1. /\ transitions' = (transitions \ {t}) \cup {u}
        /\ last_event' = TeardownEvent(t.reconnect)
    BY <1>1, <1>4 DEF TransitionCurrent
  <2>2. Identities'
    BY <1>1, <1>2, <2>1 DEF Identities
  <2>3. CurrentTransition'
    BY CoreTypes, <1>1, <1>2, <1>4, <2>1 DEF CurrentTransition, TeardownEvent
  <2>4. PatientHasWork' /\ StopAnnounced'
    BY <1>1, <1>2, <1>4, <2>1 DEF Patient, PatientHasWork, ConnectingHasWork, StopAnnounced
  <2> QED
    BY <1>3, <2>2, <2>3, <2>4
<1>5. CASE transition # t.id
  <2>1. transitions' = transitions \ {t} /\ last_event' = last_event
    BY <1>1, <1>5 DEF TransitionCurrent
  <2>2. Identities' /\ CurrentTransition'
    BY <1>1, <2>1 DEF Identities, CurrentTransition
  <2>3. PatientHasWork' /\ StopAnnounced'
    BY <1>1, <1>5, <2>1 DEF Patient, PatientHasWork, ConnectingHasWork, StopAnnounced
  <2> QED
    BY <1>3, <2>2, <2>3
<1> QED
  BY <1>4, <1>5

LEMMA CoreTeardownHandlerReturns ==
    ASSUME TypeOK, CoreInv, UNCHANGED app, TeardownHandlerReturns PROVE CoreInv'
<1> USE DEF CoreInv, ScheduleReconnect
<1>1. PICK t \in transitions : TeardownHandlerReturns!(t)
  BY DEF TeardownHandlerReturns
<1>2. /\ Identities' /\ Phases' /\ CurrentTransition' /\ OneConnection' /\ NoLeakedTransport'
      /\ FutureMatchesState' /\ NoTimerLeftBehind' /\ OpenedAreOpen'
  BY <1>1 DEF OpenedAreOpen, Identities, Phases, CurrentTransition, OneConnection, NoLeakedTransport,
              FutureMatchesState, NoTimerLeftBehind
<1>3. PatientHasWork'
  <2>1. CASE transition = t.id /\ t.reconnect
    BY <1>1, <2>1 DEF TransitionCurrent, PatientHasWork, ConnectingHasWork
  <2>2. CASE transition = t.id /\ ~t.reconnect
    <3>1. state = "disconnected"
      BY <1>1, <2>2 DEF CurrentTransition
    <3> QED
      BY <1>1, <3>1 DEF Patient, PatientHasWork, ConnectingHasWork
  <2>3. CASE transition # t.id
    BY <1>1, <2>3 DEF Patient, PatientHasWork, ConnectingHasWork
  <2> QED
    BY <2>1, <2>2, <2>3
<1>4. StopAnnounced'
  BY CoreTypes, <1>1 DEF StopAnnounced, CurrentTransition
<1> QED
  BY <1>2, <1>3, <1>4

LEMMA CoreRetryHandlerReturns ==
    ASSUME TypeOK, CoreInv, UNCHANGED app, RetryHandlerReturns PROVE CoreInv'
<1> USE DEF CoreInv, RetryHandlerReturns, ScheduleReconnect, AttemptCurrent, Without
<1>1. /\ Identities' /\ Phases' /\ CurrentTransition' /\ OneConnection'
      /\ FutureMatchesState' /\ StopAnnounced' /\ OpenedAreOpen'
  BY DEF OpenedAreOpen, Identities, Phases, CurrentTransition, OneConnection, FutureMatchesState, StopAnnounced
<1>2. NoLeakedTransport'
  BY DEF NoLeakedTransport
<1>3. PatientHasWork' /\ NoTimerLeftBehind'
  BY DEF Patient, PatientHasWork, ConnectingHasWork, NoTimerLeftBehind
<1> QED
  BY <1>1, <1>2, <1>3

LEMMA CoreConnectedHandlerReturns ==
    ASSUME TypeOK, CoreInv, UNCHANGED app, ConnectedHandlerReturns PROVE CoreInv'
<1> USE DEF CoreInv, ConnectionCurrent, Without
<1>1. PICK a \in attempts : ConnectedHandlerReturns!(a)
  BY DEF ConnectedHandlerReturns
<1>2. /\ Identities' /\ Phases' /\ CurrentTransition' /\ OneConnection' /\ NoLeakedTransport'
      /\ FutureMatchesState' /\ StopAnnounced' /\ OpenedAreOpen'
  BY <1>1 DEF OpenedAreOpen, Identities, Phases, CurrentTransition, OneConnection, NoLeakedTransport,
              FutureMatchesState, StopAnnounced
<1>3. a.id = transport_id => state = "connected"
  BY <1>1 DEF Phases
<1>4. PatientHasWork'
  <2>1. reconnect_timer' = (reconnect_timer /\ ~ConnectionCurrent(a.id))
    BY <1>1
  <2>2. state = "connecting" /\ reconnect_timer => reconnect_timer'
    BY <2>1
  <2> QED
    BY <1>1, <1>3, <2>2 DEF Patient, PatientHasWork, ConnectingHasWork
<1>5. NoTimerLeftBehind'
  <2>1. CASE ~reconnect_timer'
    BY <2>1 DEF NoTimerLeftBehind
  <2>2. CASE reconnect_timer' /\ state = "connecting"
    BY <1>1, <2>2 DEF NoTimerLeftBehind
  <2>3. CASE reconnect_timer' /\ state # "connecting"
    <3>1. reconnect_timer /\ ~ConnectionCurrent(a.id)
      BY <1>1, <2>3
    <3>2. PICK b \in attempts : state = "connected" /\ b.id = conn /\ b.pc = "onConnected"
      BY <2>3, <3>1 DEF NoTimerLeftBehind
    <3>3. conn # 0 /\ conn = transport_id
      BY <3>2 DEF OneConnection
    <3>4. b # a
      BY <3>1, <3>2, <3>3
    <3> QED
      BY <1>1, <3>2, <3>4 DEF NoTimerLeftBehind
  <2> QED
    BY <2>1, <2>2, <2>3
<1> QED
  BY <1>2, <1>4, <1>5

\* An attempt that is over ends, and nothing else changes.
LEMMA CoreAttemptEnds ==
    ASSUME CoreInv, UNCHANGED app, NEW a \in attempts, attempts' = Without(a),
           ~AttemptCurrent(a.id), a.pc # "opened", a.pc # "onConnected",
           ready' = ready \/ (\A i \in 1..Len(ready) :
                                ready[i].op \in {"create", "reconnect"} =>
                                  \E j \in 1..Len(ready') :
                                    ready'[j].op \in {"create", "reconnect"}),
           UNCHANGED <<state, transport_id, transition, conn, open_task, open, transitions,
                       reconnect_timer, connected_future, last_event>>
    PROVE  CoreInv'
<1> USE DEF CoreInv, Without
<1>1. /\ Identities' /\ Phases' /\ CurrentTransition' /\ OneConnection' /\ NoLeakedTransport'
      /\ FutureMatchesState' /\ StopAnnounced' /\ OpenedAreOpen'
  BY DEF OpenedAreOpen, Identities, Phases, CurrentTransition, OneConnection, NoLeakedTransport,
         FutureMatchesState, StopAnnounced
<1>2. PatientHasWork'
  BY DEF Patient, PatientHasWork, ConnectingHasWork, AttemptCurrent
<1>3. NoTimerLeftBehind'
  BY DEF NoTimerLeftBehind
<1> QED
  BY <1>1, <1>2, <1>3

\* A current attempt that is not connected yet goes on within a phase.
LEMMA CoreAttemptMoves ==
    ASSUME TypeOK, CoreInv, UNCHANGED app, NEW a \in attempts, NEW b, b.id = a.id,
           a.pc # "onConnected", b.pc # "onConnected", a.pc # "opened",
           a.pc \in EarlyPc <=> b.pc \in EarlyPc,
           attempts' = (attempts \ {a}) \cup {b},
           \A i \in 1..Len(ready) : ready[i].op \in {"create", "reconnect"} =>
               \E j \in 1..Len(ready') : ready'[j].op \in {"create", "reconnect"},
           IF b.pc = "opened" THEN open' = open \cup {b.id} /\ b.id # conn ELSE open' = open,
           UNCHANGED <<state, transport_id, transition, conn, transitions,
                       reconnect_timer, connected_future, last_event>>,
           open_task' # 0 => open_task' = transport_id /\ conn = 0 /\ state # "disconnected"
    PROVE  CoreInv'
<1> USE DEF CoreInv
<1>1. Identities'
  BY DEF Identities
<1>2. Phases'
  BY DEF Phases
<1>3. CurrentTransition' /\ FutureMatchesState' /\ StopAnnounced'
  BY DEF CurrentTransition, FutureMatchesState, StopAnnounced
<1>4. OneConnection'
  BY DEF OneConnection
<1>5. NoLeakedTransport'
  <2> USE DEF NoLeakedTransport
  <2>1. TAKE c \in open' \ {conn'}
  <2>2. CASE c \in open
    <3>1. PICK d \in attempts : d.id = c /\ d.pc = "opened"
      BY <2>2 DEF NoLeakedTransport
    <3> QED
      BY <3>1
  <2>3. CASE c \notin open
    BY <2>3
  <2> QED
    BY <2>2, <2>3
<1>6. PatientHasWork'
  <2>1. (\E d \in attempts : d.id = transport_id) => (\E d \in attempts' : d.id = transport_id')
    OBVIOUS
  <2> QED
    BY <2>1 DEF Patient, PatientHasWork, ConnectingHasWork
<1>7. NoTimerLeftBehind'
  <2>1. ASSUME NEW d \in attempts, d.pc = "onConnected" PROVE d \in attempts'
    BY <2>1
  <2> QED
    BY <2>1 DEF NoTimerLeftBehind
<1>8. OpenedAreOpen'
  BY DEF OpenedAreOpen
<1> QED
  BY <1>1, <1>2, <1>3, <1>4, <1>5, <1>6, <1>7, <1>8

LEMMA CoreTokenReturns ==
    ASSUME TypeOK, CoreInv, UNCHANGED app, TokenReturns PROVE CoreInv'
<1>1. PICK a \in attempts : TokenReturns!(a)
  BY DEF TokenReturns
<1>2. CASE ~AttemptCurrent(a.id)
  BY <1>1, <1>2, CoreAttemptEnds
<1>3. CASE AttemptCurrent(a.id)
  <2>1. PICK b : b.id = a.id /\ b.pc = "opening" /\ attempts' = (attempts \ {a}) \cup {b}
    BY <1>1, <1>3, CoreTypes, MoveFacts DEF ClientTypes, AttemptPc, Outcome
  <2>2. open_task' = transport_id /\ conn = 0 /\ state = "connecting"
    BY <1>1, <1>3 DEF AttemptCurrent, CoreInv, Phases, EarlyPc
  <2> QED
    BY <1>1, <2>1, <2>2, CoreAttemptMoves DEF EarlyPc
<1> QED
  BY <1>2, <1>3

LEMMA CoreTokenFails ==
    ASSUME TypeOK, CoreInv, UNCHANGED app, TokenFails PROVE CoreInv'
<1>1. PICK a \in attempts : TokenFails!(a)
  BY DEF TokenFails
<1>2. CASE ~AttemptCurrent(a.id)
  BY <1>1, <1>2, CoreAttemptEnds
<1>3. CASE AttemptCurrent(a.id) /\ Teardown(Without(a), FALSE)
  BY <1>1, <1>3, CoreTypes, TeardownCore DEF Without
<1>4. CASE AttemptCurrent(a.id) /\ attempts' = Move(a, "retryHandler", "none")
           /\ UNCHANGED <<state, transport_id, transition, conn, open_task, open, transitions,
                          reconnect_timer, ping_timer, connected_future, last_event>>
  <2>1. PICK b : b.id = a.id /\ b.pc = "retryHandler" /\ attempts' = (attempts \ {a}) \cup {b}
    BY <1>1, <1>4, CoreTypes, MoveFacts DEF ClientTypes, AttemptPc, Outcome
  <2>2. open_task # 0 => open_task = transport_id /\ conn = 0 /\ state # "disconnected"
    BY DEF CoreInv, OneConnection
  <2> QED
    BY <1>1, <1>4, <2>1, <2>2, CoreAttemptMoves DEF EarlyPc
<1> QED
  BY <1>1, <1>2, <1>3, <1>4

LEMMA CoreErrorHandlersReturn ==
    ASSUME TypeOK, CoreInv, UNCHANGED app, BadConfigHandlerReturns \/ FailHandlerReturns PROVE CoreInv'
<1>1. CASE BadConfigHandlerReturns
  <2>1. PICK a \in attempts : BadConfigHandlerReturns!(a)
    BY <1>1 DEF BadConfigHandlerReturns
  <2>2. CASE AttemptCurrent(a.id)
    BY <2>1, <2>2, CoreTypes, TeardownCore DEF Without
  <2>3. CASE ~AttemptCurrent(a.id)
    BY <2>1, <2>3, CoreAttemptEnds
  <2> QED
    BY <2>2, <2>3
<1>2. CASE FailHandlerReturns
  <2>1. PICK a \in attempts : FailHandlerReturns!(a)
    BY <1>2 DEF FailHandlerReturns
  <2>2. CASE AttemptCurrent(a.id)
    BY <2>1, <2>2, CoreTypes, TeardownCore DEF Without
  <2>3. CASE ~AttemptCurrent(a.id)
    BY <2>1, <2>3, CoreAttemptEnds
  <2> QED
    BY <2>2, <2>3
<1> QED
  BY <1>1, <1>2

LEMMA CoreHandshakeEnds ==
    ASSUME TypeOK, CoreInv, UNCHANGED app, HandshakeEnds PROVE CoreInv'
<1>1. PICK a \in attempts : HandshakeEnds!(a)
  BY DEF HandshakeEnds
<1>2. a.id \in Nat
  BY CoreTypes
<1>3. \A i \in 1..Len(ready) : ready[i].op \in {"create", "reconnect"} =>
          \E j \in 1..Len(ready') : ready'[j].op \in {"create", "reconnect"}
  BY <1>1, <1>2, CoreTypes, ReadyKept
<1>4. open_task # 0 => open_task = transport_id /\ conn = 0 /\ state # "disconnected"
  BY DEF CoreInv, OneConnection
<1>5. CASE open' = open \cup {a.id} /\ attempts' = Move(a, "opened", "none")
  <2>0. a.id # conn
    BY <1>1, CoreTypes DEF CoreInv, OneConnection, Phases, EarlyPc
  <2>1. PICK b : b.id = a.id /\ b.pc = "opened" /\ attempts' = (attempts \ {a}) \cup {b}
    BY <1>5, CoreTypes, MoveFacts DEF ClientTypes, AttemptPc, Outcome
  <2> QED
    BY <1>1, <1>3, <1>4, <1>5, <2>0, <2>1, CoreAttemptMoves DEF EarlyPc
<1>6. CASE open' = open /\ \E out \in OpenOutcome : attempts' = Move(a, "openFailed", out)
  <2>0. PICK out \in Outcome : attempts' = Move(a, "openFailed", out)
    BY <1>6 DEF Outcome
  <2>1. PICK b : b.id = a.id /\ b.pc = "openFailed" /\ attempts' = (attempts \ {a}) \cup {b}
    BY <2>0, CoreTypes, MoveFacts DEF ClientTypes, AttemptPc
  <2> QED
    BY <1>1, <1>3, <1>4, <1>6, <2>1, CoreAttemptMoves DEF EarlyPc
<1> QED
  BY <1>1, <1>5, <1>6

LEMMA CoreReplyArrives ==
    ASSUME TypeOK, CoreInv, UNCHANGED app, ReplyArrives PROVE CoreInv'
<1>1. PICK a \in attempts : ReplyArrives!(a)
  BY DEF ReplyArrives
<1>2. a.id \in Nat
  BY CoreTypes
<1>3. \A i \in 1..Len(ready) : ready[i].op \in {"create", "reconnect"} =>
          \E j \in 1..Len(ready') : ready'[j].op \in {"create", "reconnect"}
  BY <1>1, <1>2, CoreTypes, ReadyKept
<1>4. open_task # 0 => open_task = transport_id /\ conn = 0 /\ state # "disconnected"
  BY DEF CoreInv, OneConnection
<1>5. PICK out \in Outcome : attempts' = Move(a, "replied", out)
  BY <1>1 DEF ReplyOutcome, Outcome
<1>6. PICK b : b.id = a.id /\ b.pc = "replied" /\ attempts' = (attempts \ {a}) \cup {b}
  BY <1>5, CoreTypes, MoveFacts DEF ClientTypes, AttemptPc
<1> QED
  BY <1>1, <1>3, <1>4, <1>6, CoreAttemptMoves DEF EarlyPc

LEMMA CoreStartAttempt ==
    ASSUME TypeOK, CoreInv, UNCHANGED app, StartAttempt PROVE CoreInv'
<1> USE DEF CoreInv
<1>1. CASE state # "connecting"
  <2>1. UNCHANGED clientVars
    BY <1>1 DEF StartAttempt
  <2> QED
    BY <1>1, <2>1, CoreTypes, ReadyKept DEF clientVars, OpenedAreOpen, Identities, Phases, CurrentTransition, OneConnection,
       NoLeakedTransport, FutureMatchesState, PatientHasWork, ConnectingHasWork,
       NoTimerLeftBehind, StopAnnounced
<1>2. CASE state = "connecting"
  <2> DEFINE rest == attempts \ Aborted(open_task)
  <2>1. /\ transport_id' = transport_id + 1 /\ conn' = 0 /\ open' = open \ {conn}
        /\ UNCHANGED <<state, transition, transitions, reconnect_timer, connected_future,
                       last_event>>
    BY <1>2 DEF StartAttempt
  <2>2. PICK pc \in {"badConfig", "token", "opening"} :
            /\ attempts' = rest \cup {NewAttempt(pc)}
            /\ open_task' \in {0, transport_id + 1}
    BY <1>2 DEF StartAttempt
  <2> DEFINE b == NewAttempt(pc)
  <2>3. b.id = transport_id' /\ b.pc = pc /\ b.pc \in EarlyPc
    BY <2>1 DEF NewAttempt, EarlyPc
  <2> HIDE DEF b
  <2>4. \A a \in rest : a.id < transport_id'
    BY CoreTypes, <2>1 DEF Identities
  <2>5. \A a \in attempts : a.pc = "opened" => a \in rest
    BY DEF Aborted
  <2> HIDE DEF rest
  <2>6. transport_id' \in Nat /\ transport_id' # 0
    BY CoreTypes, <2>1
  <2>7. attempts' = rest \cup {b} /\ b \in attempts'
    BY <2>2 DEF b
  <2>8. Identities'
    <3>1. ASSUME NEW a \in attempts' PROVE a.id <= transport_id'
      <4>1. CASE a \in rest
        BY <2>4, <2>6, <4>1, CoreTypes DEF rest
      <4>2. CASE a = b
        BY <2>3, <2>6, <4>2
      <4> QED
        BY <2>7, <3>1, <4>1, <4>2
    <3>2. ASSUME NEW a \in attempts', NEW d \in attempts', a.id = d.id PROVE a = d
      BY <2>3, <2>4, <2>6, <2>7, <3>2, CoreTypes DEF Identities, rest
    <3> QED
      BY <2>1, <3>1, <3>2 DEF Identities
  <2>9. Phases'
    <3>1. ASSUME NEW a \in attempts', a.id = transport_id' PROVE a = b
      BY <2>4, <2>6, <2>7, <3>1
    <3>2. b.pc # "onConnected"
      BY <2>2, <2>3
    <3> QED
      BY <1>2, <2>1, <2>3, <3>1, <3>2 DEF Phases
  <2>10. CurrentTransition' /\ FutureMatchesState' /\ StopAnnounced'
    BY <2>1 DEF CurrentTransition, FutureMatchesState, StopAnnounced
  <2>11. OneConnection'
    BY <1>2, <2>1, <2>2 DEF OneConnection
  <2>12. NoLeakedTransport' /\ OpenedAreOpen'
    <3>1. b.pc # "opened" /\ \A a \in attempts : a.id # 0
      BY <2>2, <2>3, CoreTypes
    <3> QED
      BY <2>1, <2>5, <2>7, <3>1 DEF NoLeakedTransport, OpenedAreOpen, rest
  <2>13. PatientHasWork' /\ NoTimerLeftBehind'
    BY <1>2, <2>1, <2>3, <2>7 DEF Patient, PatientHasWork, ConnectingHasWork, NoTimerLeftBehind
  <2> QED
    BY <2>8, <2>9, <2>10, <2>11, <2>12, <2>13
<1> QED
  BY <1>1, <1>2

\* A task that resumes an attempt takes nothing else off the ready tasks.
LEMMA ResumeReady ==
    ASSUME TypeOK, NEW a \in attempts, Resumes(a), ready' = Tail(ready)
    PROVE  \A i \in 1..Len(ready) : ready[i].op \in {"create", "reconnect"} =>
               \E j \in 1..Len(ready') : ready'[j].op \in {"create", "reconnect"}
<1>1. Head(ready).op \notin {"create", "reconnect"}
  BY DEF Resumes
<1> QED
  BY <1>1, CoreTypes, ReadyTail DEF Resumes

LEMMA CoreOpenedResumes ==
    ASSUME TypeOK, CoreInv, UNCHANGED app, OpenedResumes PROVE CoreInv'
<1> USE DEF CoreInv
<1>1. PICK a \in attempts : OpenedResumes!(a)
  BY DEF OpenedResumes
<1>2. \A i \in 1..Len(ready) : ready[i].op \in {"create", "reconnect"} =>
          \E j \in 1..Len(ready') : ready'[j].op \in {"create", "reconnect"}
  BY <1>1, ResumeReady
<1>3. CASE ~AttemptCurrent(a.id)
  <2>1. attempts' = Without(a) /\ open' = open \ {a.id} /\ conn' = conn
    BY <1>1, <1>3
  <2>2. Identities' /\ Phases' /\ CurrentTransition' /\ FutureMatchesState' /\ StopAnnounced'
    BY <1>1, <2>1 DEF Without, Identities, Phases, CurrentTransition, FutureMatchesState,
       StopAnnounced
  <2>3. a.id # conn
    BY <1>1 DEF OpenedAreOpen
  <2>4. OneConnection'
    BY <1>1, <2>1, <2>3, CoreTypes DEF OneConnection
  <2>5. NoLeakedTransport' /\ OpenedAreOpen'
    BY <1>1, <2>1 DEF NoLeakedTransport, OpenedAreOpen, Without, Identities
  <2>6. PatientHasWork'
    BY <1>1, <1>2, <1>3, <2>1 DEF Patient, PatientHasWork, ConnectingHasWork, AttemptCurrent, Without
  <2>7. NoTimerLeftBehind'
    BY <1>1, <2>1 DEF NoTimerLeftBehind, Without
  <2> QED
    BY <2>2, <2>4, <2>5, <2>6, <2>7
<1>4. CASE AttemptCurrent(a.id)
  <2> DEFINE b == [a EXCEPT !.pc = "reply", !.sent = token]
  <2>1. b.id = a.id /\ b.pc = "reply"
    BY CoreTypes DEF ClientTypes, Attempt
  <2>2. attempts' = (attempts \ {a}) \cup {b} /\ conn' = a.id /\ open' = open
    BY <1>1, <1>4 DEF Without
  <2> HIDE DEF b
  <2>3. a.id = transport_id /\ state = "connecting" /\ a.id # 0 /\ conn = 0
    BY <1>1, <1>4, CoreTypes DEF AttemptCurrent, Phases, EarlyPc
  <2>4. Identities' /\ CurrentTransition' /\ FutureMatchesState' /\ StopAnnounced'
    BY <1>1, <2>1, <2>2 DEF Identities, CurrentTransition, FutureMatchesState, StopAnnounced
  <2>5. OneConnection'
    BY <1>1, <2>2, <2>3 DEF OneConnection, OpenedAreOpen
  <2>6. Phases'
    BY <1>1, <2>1, <2>2, <2>3 DEF Phases, EarlyPc, Identities
  <2>7. NoLeakedTransport' /\ OpenedAreOpen'
    <3>1. 0 \notin open
      BY CoreTypes DEF ClientTypes
    <3> QED
      BY <1>1, <2>1, <2>2, <2>3, <3>1 DEF NoLeakedTransport, OpenedAreOpen, Identities
  <2>8. PatientHasWork' /\ NoTimerLeftBehind'
    BY <1>1, <2>1, <2>2, <2>3 DEF Patient, PatientHasWork, ConnectingHasWork, NoTimerLeftBehind
  <2> QED
    BY <2>4, <2>5, <2>6, <2>7, <2>8
<1> QED
  BY <1>3, <1>4

LEMMA CoreOpenFailedResumes ==
    ASSUME TypeOK, CoreInv, UNCHANGED app, OpenFailedResumes PROVE CoreInv'
<1>1. PICK a \in attempts : OpenFailedResumes!(a)
  BY DEF OpenFailedResumes
<1>2. \A i \in 1..Len(ready) : ready[i].op \in {"create", "reconnect"} =>
          \E j \in 1..Len(ready') : ready'[j].op \in {"create", "reconnect"}
  BY <1>1, ResumeReady
<1>3. CASE a.out = "unexpected" /\ AttemptCurrent(a.id)
  BY <1>1, <1>3, CoreTypes, TeardownCore DEF Without
<1>4. CASE ~(a.out = "unexpected") /\ AttemptCurrent(a.id)
  <2>1. PICK b : b.id = a.id /\ b.pc = "retryHandler" /\ attempts' = (attempts \ {a}) \cup {b}
    <3>1. attempts' = Move(a, "retryHandler", "none")
      BY <1>1, <1>4
    <3> QED
      BY <3>1, CoreTypes, MoveFacts DEF ClientTypes, AttemptPc, Outcome
  <2>2. open_task' # 0 => open_task' = transport_id /\ conn = 0 /\ state # "disconnected"
    BY <1>1, <1>4 DEF CoreInv, OneConnection
  <2> QED
    BY <1>1, <1>2, <1>4, <2>1, <2>2, CoreAttemptMoves DEF EarlyPc
<1>5. CASE ~AttemptCurrent(a.id)
  <2>1. open_task' = open_task
    <3>1. open_task = a.id => AttemptCurrent(a.id)
      BY CoreTypes DEF CoreInv, OneConnection, AttemptCurrent, ClientTypes, ClientState
    <3> QED
      BY <1>1, <1>5, <3>1
  <2> QED
    BY <1>1, <1>2, <1>5, <2>1, CoreAttemptEnds
<1> QED
  BY <1>3, <1>4, <1>5

LEMMA CoreConnected ==
    ASSUME TypeOK, CoreInv, UNCHANGED app, NEW a \in attempts, a.pc = "replied", AttemptCurrent(a.id),
           Connected(a), Resumes(a), ready' = Tail(ready)
    PROVE  CoreInv'
<1> USE DEF CoreInv
<1>1. PICK b : b.id = a.id /\ b.pc = "onConnected" /\ attempts' = (attempts \ {a}) \cup {b}
  <2>1. attempts' = Move(a, "onConnected", "none")
    BY DEF Connected
  <2> QED
    BY <2>1, CoreTypes, MoveFacts DEF ClientTypes, AttemptPc, Outcome
<1>2. /\ state' = "connected" /\ last_event' = "connected" /\ connected_future'.st = "result"
      /\ UNCHANGED <<transport_id, transition, conn, open_task, open, transitions,
                     reconnect_timer>>
  BY CoreTypes DEF Connected, ClientTypes
<1>3. a.id = transport_id /\ conn = a.id /\ a.id # 0 /\ state = "connecting"
  BY CoreTypes DEF AttemptCurrent, Phases, EarlyPc
<1>4. Identities' /\ OpenedAreOpen' /\ NoLeakedTransport'
  BY <1>1, <1>2, <1>3 DEF Identities, OpenedAreOpen, NoLeakedTransport
<1>5. Phases'
  BY <1>1, <1>2, <1>3 DEF Phases, Identities, EarlyPc
<1>6. CurrentTransition'
  BY <1>2, <1>3 DEF CurrentTransition
<1>7. OneConnection' /\ FutureMatchesState' /\ StopAnnounced'
  BY <1>2, <1>3 DEF OneConnection, FutureMatchesState, StopAnnounced
<1>8. PatientHasWork' /\ NoTimerLeftBehind'
  BY <1>1, <1>2, <1>3 DEF Patient, PatientHasWork, ConnectingHasWork, NoTimerLeftBehind
<1> QED
  BY <1>4, <1>5, <1>6, <1>7, <1>8

LEMMA CoreRepliedResumes ==
    ASSUME TypeOK, CoreInv, UNCHANGED app, RepliedResumes PROVE CoreInv'
<1>1. PICK a \in attempts : RepliedResumes!(a)
  BY DEF RepliedResumes
<1>2. \A i \in 1..Len(ready) : ready[i].op \in {"create", "reconnect"} =>
          \E j \in 1..Len(ready') : ready'[j].op \in {"create", "reconnect"}
  BY <1>1, ResumeReady
<1>3. CASE ~AttemptCurrent(a.id)
  BY <1>1, <1>2, <1>3, CoreAttemptEnds
<1>4. CASE AttemptCurrent(a.id) /\ Connected(a)
  BY <1>1, <1>4, CoreConnected
<1>5. CASE AttemptCurrent(a.id) /\ ConnectErrorHandler(a)
  <2>1. PICK b : b.id = a.id /\ b.pc = "failHandler" /\ attempts' = (attempts \ {a}) \cup {b}
    <3>1. attempts' = Move(a, "failHandler", "none")
      BY <1>5 DEF ConnectErrorHandler
    <3> QED
      BY <3>1, CoreTypes, MoveFacts DEF ClientTypes, AttemptPc, Outcome
  <2>2. open_task # 0 => open_task = transport_id /\ conn = 0 /\ state # "disconnected"
    BY DEF CoreInv, OneConnection
  <2>3. UNCHANGED <<state, transport_id, transition, conn, open_task, open, transitions,
                    reconnect_timer, connected_future, last_event>>
    BY <1>5 DEF ConnectErrorHandler
  <2> QED
    BY <1>1, <1>2, <1>5, <2>1, <2>2, <2>3, CoreAttemptMoves DEF EarlyPc
<1>6. CASE AttemptCurrent(a.id) /\ \E again \in BOOLEAN : Teardown(Without(a), again)
  BY <1>1, <1>6, CoreTypes, TeardownCore DEF Without
<1> QED
  BY <1>1, <1>3, <1>4, <1>5, <1>6

LEMMA CoreNoPing ==
    ASSUME TypeOK, CoreInv, UNCHANGED app, NoPing PROVE CoreInv'
<1>1. CASE state # "disconnected"
  BY <1>1, CoreTypes, TeardownCore DEF NoPing
<1>2. CASE state = "disconnected"
  <2>1. UNCHANGED clientVars
    BY <1>2 DEF NoPing
  <2> QED
    BY <1>2, <2>1 DEF CoreInv, clientVars, OpenedAreOpen, Identities, Phases, CurrentTransition,
       OneConnection, NoLeakedTransport, FutureMatchesState, PatientHasWork,
       ConnectingHasWork, NoTimerLeftBehind, StopAnnounced
<1> QED
  BY <1>1, <1>2

LEMMA CoreReconnectTimerFires ==
    ASSUME TypeOK, CoreInv, UNCHANGED app, ReconnectTimerFires PROVE CoreInv'
<1> USE DEF CoreInv, ReconnectTimerFires
<1>1. /\ Identities' /\ OpenedAreOpen' /\ Phases' /\ CurrentTransition' /\ OneConnection'
      /\ NoLeakedTransport' /\ FutureMatchesState' /\ StopAnnounced'
  BY DEF Identities, OpenedAreOpen, Phases, CurrentTransition, OneConnection,
         NoLeakedTransport, FutureMatchesState, StopAnnounced
<1>2. PatientHasWork' /\ NoTimerLeftBehind'
  BY CoreTypes, ReadyKept DEF Patient, PatientHasWork, ConnectingHasWork, NoTimerLeftBehind
<1> QED
  BY <1>1, <1>2

LEMMA CorePing ==
    ASSUME TypeOK, CoreInv, UNCHANGED app, PingArrives \/ PongReturns \/ PingTimerFires PROVE CoreInv'
<1> USE DEF CoreInv
<1>1. UNCHANGED <<state, transport_id, transition, conn, open_task, open, attempts,
                  transitions, reconnect_timer, connected_future, last_event>>
  BY DEF PingArrives, PongReturns, PingTimerFires
<1>2. /\ Identities' /\ OpenedAreOpen' /\ Phases' /\ CurrentTransition' /\ OneConnection'
      /\ NoLeakedTransport' /\ FutureMatchesState' /\ StopAnnounced' /\ NoTimerLeftBehind'
  BY <1>1 DEF Identities, OpenedAreOpen, Phases, CurrentTransition, OneConnection,
         NoLeakedTransport, FutureMatchesState, StopAnnounced, NoTimerLeftBehind
<1>3. \A i \in 1..Len(ready) : ready[i].op \in {"create", "reconnect"} =>
          \E j \in 1..Len(ready') : ready'[j].op \in {"create", "reconnect"}
  <2>1. CASE UNCHANGED ready
    BY <2>1
  <2>2. CASE PingTimerFires
    BY <2>2, CoreTypes, ReadyKept DEF PingTimerFires, ClientTypes
  <2> QED
    BY <2>1, <2>2 DEF PingArrives, PongReturns
<1>4. PatientHasWork'
  BY <1>1, <1>3 DEF Patient, PatientHasWork, ConnectingHasWork
<1> QED
  BY <1>2, <1>4

LEMMA CoreTeardowns ==
    ASSUME TypeOK, CoreInv, UNCHANGED app, Disconnect \/ TransportEnds PROVE CoreInv'
<1>1. PICK again \in BOOLEAN : Teardown(attempts, again)
  BY DEF Disconnect, TransportEnds
<1> QED
  BY <1>1, CoreTypes, TeardownCore

\* No step changes the application.
LEMMA SameApp == ASSUME [Next]_vars PROVE UNCHANGED app
<1>1. CASE UNCHANGED vars
  BY <1>1 DEF vars, tokenVars
<1>2. CASE Application
  BY <1>2 DEF Application, Connect, Disconnect, SetToken, CancelConnect, tokenVars
<1>3. CASE Handlers
  BY <1>3 DEF Handlers, ConnectHandlerReturns, ClearingReturns, TeardownHandlerReturns,
     BadConfigHandlerReturns, RetryHandlerReturns, FailHandlerReturns, ConnectedHandlerReturns,
     tokenVars
<1>4. CASE GetToken
  BY <1>4 DEF GetToken, TokenReturns, TokenFails, tokenVars
<1>5. CASE ReadyTasks
  BY <1>5 DEF ReadyTasks, StartAttempt, OpenedResumes, OpenFailedResumes, RepliedResumes,
     NoPing, Connected, ConnectErrorHandler, tokenVars
<1>6. CASE HandshakeEnds \/ ReplyArrives \/ TransportEnds
  BY <1>6 DEF HandshakeEnds, ReplyArrives, TransportEnds, InvalidateToken, tokenVars
<1>7. CASE PingArrives \/ PongReturns \/ ReconnectTimerFires \/ PingTimerFires
  BY <1>7 DEF PingArrives, PongReturns, ReconnectTimerFires, PingTimerFires, tokenVars
<1> QED
  BY <1>1, <1>2, <1>3, <1>4, <1>5, <1>6, <1>7 DEF Next

LEMMA CoreStep ==
    ASSUME TypeOK, CoreInv, [Next]_vars PROVE CoreInv'
<1>0. UNCHANGED app
  BY SameApp
<1>1. CASE UNCHANGED vars
  BY <1>0, <1>1 DEF vars, CoreInv, Patient, clientVars, OpenedAreOpen, Identities, Phases, CurrentTransition,
     OneConnection, NoLeakedTransport, FutureMatchesState, PatientHasWork,
     ConnectingHasWork, NoTimerLeftBehind, StopAnnounced
<1>2. CASE Application
  BY <1>0, <1>2, CoreConnect, CoreTeardowns, CoreSetToken, CoreCancelConnect DEF Application
<1>3. CASE Handlers
  BY <1>0, <1>3, CoreConnectHandlerReturns, CoreClearingReturns, CoreTeardownHandlerReturns,
     CoreErrorHandlersReturn, CoreRetryHandlerReturns, CoreConnectedHandlerReturns DEF Handlers
<1>4. CASE GetToken
  BY <1>0, <1>4, CoreTokenReturns, CoreTokenFails DEF GetToken
<1>5. CASE ReadyTasks
  BY <1>0, <1>5, CoreStartAttempt, CoreOpenedResumes, CoreOpenFailedResumes, CoreRepliedResumes,
     CoreNoPing DEF ReadyTasks
<1>6. CASE HandshakeEnds \/ ReplyArrives \/ TransportEnds
  BY <1>0, <1>6, CoreHandshakeEnds, CoreReplyArrives, CoreTeardowns
<1>7. CASE PingArrives \/ PongReturns \/ ReconnectTimerFires \/ PingTimerFires
  BY <1>0, <1>7, CorePing, CoreReconnectTimerFires
<1> QED
  BY <1>1, <1>2, <1>3, <1>4, <1>5, <1>6, <1>7 DEF Next

LEMMA CoreInit == Init => CoreInv
<1> SUFFICES ASSUME Init PROVE CoreInv
  OBVIOUS
<1>1. /\ Identities /\ OpenedAreOpen /\ Phases /\ CurrentTransition
      /\ NoLeakedTransport /\ NoTimerLeftBehind
  BY DEF Init, Identities, OpenedAreOpen, Phases, CurrentTransition, NoLeakedTransport,
         NoTimerLeftBehind
<1>2. OneConnection /\ FutureMatchesState /\ PatientHasWork /\ StopAnnounced
  BY DEF Init, OneConnection, FutureMatchesState, PatientHasWork, ConnectingHasWork,
         StopAnnounced
<1> QED
  BY <1>1, <1>2 DEF CoreInv

-----------------------------------------------------------------------------
(* The theorems *)

\* The inductive invariant holds in every reachable state.
THEOREM CoreInvariance == Spec => []CoreInv
BY TypeCorrectness, TypeInit, TypeStep, CoreInit, CoreStep, PTL DEF Spec

\* _conn and _open_task belong to the latest attempt, never both at once, and a
\* connected client has its transport: the identity checks after every await of
\* _connection_attempt() and the closing in _disconnect() are enough.
THEOREM OneConnectionAlways == Spec => []OneConnection
<1>1. CoreInv => OneConnection
  BY DEF CoreInv
<1> QED
  BY <1>1, CoreInvariance, PTL

\* No handshake that completes while disconnect() or another attempt overtakes
\* it leaves its socket open.
THEOREM NoTransportLeaks == Spec => []NoLeakedTransport
<1>1. CoreInv => NoLeakedTransport
  BY DEF CoreInv
<1> QED
  BY <1>1, CoreInvariance, PTL

\* The future of ready() is pending, resolved or failed as the state says, so
\* _connected() never sets the result of a finished future.
THEOREM FutureAlwaysMatches == Spec => []FutureMatchesState
<1>1. CoreInv => FutureMatchesState
  BY DEF CoreInv
<1> QED
  BY <1>1, CoreInvariance, PTL

\* Unless the application cancels a connect(), a connecting client always has
\* the timer, task, attempt or transition that takes it further.
THEOREM NeverStranded == Spec => []PatientHasWork
<1>1. CoreInv => PatientHasWork
  BY DEF CoreInv
<1> QED
  BY <1>1, CoreInvariance, PTL

\* disconnect() and every terminal error disarm the reconnect timer for good,
\* and on_connected's return disarms it in connected.
THEOREM TimersAreCleared == Spec => []NoTimerLeftBehind
<1>1. CoreInv => NoTimerLeftBehind
  BY DEF CoreInv
<1> QED
  BY <1>1, CoreInvariance, PTL

\* Once no teardown that counts is running, a stopped client has told so.
THEOREM StopIsAnnounced == Spec => []StopAnnounced
<1>1. CoreInv => StopAnnounced
  BY DEF CoreInv
<1> QED
  BY <1>1, CoreInvariance, PTL
=============================================================================
