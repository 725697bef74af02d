-------------------------- MODULE ClientAttemptProofs --------------------------
(***************************************************************************)
(* More theorems about ClientLifecycle: a connection attempt that is over  *)
(* changes nothing and tears nothing down when it goes on, an expired      *)
(* token is not sent again; and ClientLifecycle implements                 *)
(* ConnectionStates and Sessions, for every value of its constants: the    *)
(* initial states map to initial states and every step maps to a step or a *)
(* stutter.  (That connecting ends is liveness, which the runs check.)     *)
(***************************************************************************)
EXTENDS ClientLifecycleProofs

-----------------------------------------------------------------------------
(* Attempts that are over *)

InertVars == <<state, transport_id, transition, conn, open_task, token, refresh_required,
               reconnect_timer, ping_timer, transitions, connected_future, last_event>>

\* What StaleAttemptsAreInert says of one step.
Inert ==
    \A a \in attempts :
        a.id # transport_id /\ a.pc # "reply" /\ a \notin attempts' => UNCHANGED InertVars

\* The handshake that is cancelled is the present attempt's.
LEMMA AbortedIsCurrent ==
    ASSUME TypeOK, CoreInv PROVE \A a \in Aborted(open_task) : a.id = transport_id
BY DEF Aborted, CoreInv, OneConnection, TypeOK, Attempt

\* A teardown ends, of the attempts that are over, only those that wait for their reply.
LEMMA InertTeardown ==
    ASSUME TypeOK, CoreInv, NEW rest, NEW again, Teardown(rest, again),
           \A a \in attempts : a \in rest \/ a.id = transport_id
    PROVE  Inert
<1>1. attempts' = {a \in rest \ Aborted(open_task) : a.pc # "reply"}
  BY DEF Teardown
<1> QED
  BY <1>1, AbortedIsCurrent DEF Inert

LEMMA InertWithoutAttempts ==
    ASSUME attempts \subseteq attempts' PROVE Inert
BY DEF Inert

LEMMA InertApplication ==
    ASSUME TypeOK, CoreInv, Application PROVE Inert
<1>1. CASE Disconnect
  BY <1>1, InertTeardown DEF Disconnect
<1>2. CASE Connect \/ SetToken \/ CancelConnect
  BY <1>2, InertWithoutAttempts DEF Connect, SetToken, CancelConnect, clientVars
<1> QED
  BY <1>1, <1>2 DEF Application

LEMMA InertHandlers ==
    ASSUME TypeOK, CoreInv, Handlers PROVE Inert
<1>1. CASE ConnectHandlerReturns \/ ClearingReturns \/ TeardownHandlerReturns
  BY <1>1, InertWithoutAttempts
     DEF ConnectHandlerReturns, ClearingReturns, TeardownHandlerReturns
<1>2. CASE BadConfigHandlerReturns
  <2>1. PICK a \in attempts : BadConfigHandlerReturns!(a)
    BY <1>2 DEF BadConfigHandlerReturns
  <2>2. CASE AttemptCurrent(a.id)
    BY <2>1, <2>2, InertTeardown DEF AttemptCurrent, Without
  <2>3. CASE ~AttemptCurrent(a.id)
    BY <2>1, <2>3 DEF Inert, InertVars, tokenVars
  <2> QED
    BY <2>2, <2>3
<1>3. CASE FailHandlerReturns
  <2>1. PICK a \in attempts : FailHandlerReturns!(a)
    BY <1>3 DEF FailHandlerReturns
  <2>2. CASE AttemptCurrent(a.id)
    BY <2>1, <2>2, InertTeardown DEF AttemptCurrent, Without
  <2>3. CASE ~AttemptCurrent(a.id)
    BY <2>1, <2>3 DEF Inert, InertVars, tokenVars
  <2> QED
    BY <2>2, <2>3
<1>4. CASE RetryHandlerReturns
  <2>1. PICK a \in attempts : RetryHandlerReturns!(a)
    BY <1>4 DEF RetryHandlerReturns
  <2> QED
    BY <2>1 DEF Inert, InertVars, tokenVars, Without, AttemptCurrent
<1>5. CASE ConnectedHandlerReturns
  <2>1. PICK a \in attempts : ConnectedHandlerReturns!(a)
    BY <1>5 DEF ConnectedHandlerReturns
  <2>2. CASE a.id = transport_id
    BY <2>1, <2>2 DEF Inert, Without
  <2>3. CASE a.id # transport_id
    <3>1. reconnect_timer' = reconnect_timer
      BY <2>1, <2>3 DEF ConnectionCurrent, TypeOK
    <3> QED
      BY <2>1, <3>1 DEF Inert, InertVars, tokenVars
  <2> QED
    BY <2>2, <2>3
<1> QED
  BY <1>1, <1>2, <1>3, <1>4, <1>5 DEF Handlers

LEMMA InertGetToken ==
    ASSUME TypeOK, CoreInv, GetToken PROVE Inert
<1>1. CASE TokenReturns
  <2>1. PICK a \in attempts : TokenReturns!(a)
    BY <1>1 DEF TokenReturns
  <2> QED
    BY <2>1 DEF Inert, InertVars, Without, Move, AttemptCurrent
<1>2. CASE TokenFails
  <2>1. PICK a \in attempts : TokenFails!(a)
    BY <1>2 DEF TokenFails
  <2>2. CASE Teardown(Without(a), FALSE) /\ AttemptCurrent(a.id)
    BY <2>2, InertTeardown DEF AttemptCurrent, Without
  <2>3. CASE ~(Teardown(Without(a), FALSE) /\ AttemptCurrent(a.id))
    BY <2>1, <2>3 DEF Inert, InertVars, tokenVars
  <2> QED
    BY <2>2, <2>3
<1> QED
  BY <1>1, <1>2 DEF GetToken

LEMMA InertReadyTasks ==
    ASSUME TypeOK, CoreInv, ReadyTasks PROVE Inert
<1>1. CASE StartAttempt
  <2>1. CASE UNCHANGED clientVars
    BY <2>1, InertWithoutAttempts DEF clientVars
  <2>2. CASE ~UNCHANGED clientVars
    <3>1. \E pc : attempts' = (attempts \ Aborted(open_task)) \cup {NewAttempt(pc)}
      BY <1>1, <2>2 DEF StartAttempt
    <3>2. attempts \ Aborted(open_task) \subseteq attempts'
      BY <3>1
    <3> QED
      BY <3>2, AbortedIsCurrent DEF Inert
  <2> QED
    BY <2>1, <2>2
<1>2. CASE OpenedResumes
  <2>1. PICK a \in attempts : OpenedResumes!(a)
    BY <1>2 DEF OpenedResumes
  <2>2. CASE a.id # transport_id
    <3>1. open_task' = open_task
      BY <2>1, <2>2 DEF CoreInv, OneConnection, TypeOK, Attempt
    <3> QED
      BY <2>1, <2>2, <3>1 DEF Inert, InertVars, tokenVars, AttemptCurrent
  <2>3. CASE a.id = transport_id
    BY <2>1, <2>3 DEF Inert, Without
  <2> QED
    BY <2>2, <2>3
<1>3. CASE OpenFailedResumes
  <2>1. PICK a \in attempts : OpenFailedResumes!(a)
    BY <1>3 DEF OpenFailedResumes
  <2>2. CASE a.id # transport_id
    <3>1. open_task' = open_task
      BY <2>1, <2>2 DEF CoreInv, OneConnection, TypeOK, Attempt, AttemptCurrent
    <3> QED
      BY <2>1, <2>2, <3>1 DEF Inert, InertVars, tokenVars, AttemptCurrent
  <2>3. CASE a.id = transport_id
    BY <2>1, <2>3, InertTeardown DEF Inert, Without, Move
  <2> QED
    BY <2>2, <2>3
<1>4. CASE RepliedResumes
  <2>1. PICK a \in attempts : RepliedResumes!(a)
    BY <1>4 DEF RepliedResumes
  <2>2. CASE a.id # transport_id
    BY <2>1, <2>2 DEF Inert, InertVars, tokenVars, AttemptCurrent
  <2>3. CASE a.id = transport_id
    BY <2>1, <2>3, InertTeardown DEF Inert, Without, Move, Connected, ConnectErrorHandler
  <2> QED
    BY <2>2, <2>3
<1>5. CASE NoPing
  BY <1>5, InertTeardown, InertWithoutAttempts DEF NoPing, clientVars
<1> QED
  BY <1>1, <1>2, <1>3, <1>4, <1>5 DEF ReadyTasks

LEMMA InertEnvironment ==
    ASSUME TypeOK, CoreInv,
           HandshakeEnds \/ ReplyArrives \/ TransportEnds \/ PingArrives \/ PongReturns
             \/ ReconnectTimerFires \/ PingTimerFires
    PROVE  Inert
<1>1. CASE HandshakeEnds \/ ReplyArrives
  BY <1>1 DEF HandshakeEnds, ReplyArrives, Inert, InertVars, tokenVars
<1>2. CASE TransportEnds
  BY <1>2, InertTeardown DEF TransportEnds
<1>3. CASE PingArrives \/ PongReturns \/ ReconnectTimerFires \/ PingTimerFires
  BY <1>3, InertWithoutAttempts
     DEF PingArrives, PongReturns, ReconnectTimerFires, PingTimerFires
<1> QED
  BY <1>1, <1>2, <1>3

LEMMA InertStep ==
    ASSUME TypeOK, CoreInv, Next PROVE Inert
BY InertApplication, InertHandlers, InertGetToken, InertReadyTasks, InertEnvironment DEF Next

\* An attempt overtaken by disconnect() or by a newer attempt, wherever it was
\* suspended, ends without touching the client (the _attempt_current() checks).
THEOREM StaleAttemptsStayInert == Spec => StaleAttemptsAreInert
<1>1. ASSUME TypeOK, CoreInv, [Next]_vars
      PROVE  [\A a \in attempts :
                a.id # transport_id /\ a.pc # "reply" /\ a \notin attempts'
                => UNCHANGED <<state, transport_id, transition, conn, open_task, token,
                               refresh_required, reconnect_timer, ping_timer, transitions,
                               connected_future, last_event>>]_vars
  BY <1>1, InertStep DEF Inert, InertVars
<1> QED
  BY <1>1, TypeCorrectness, CoreInvariance, PTL DEF Spec, StaleAttemptsAreInert

-----------------------------------------------------------------------------
(***************************************************************************)
(* Expired tokens.  The inductive invariant: a token known to be expired   *)
(* is one that was issued; if it is still the client's token then a new    *)
(* one is required; and the current attempt, from its handshake until its  *)
(* outcome is handled, goes with a token not known to be expired.          *)
(***************************************************************************)

SendingPc == {"opening", "opened", "reply", "replied"}

RejectedWereIssued == token <= issued /\ \A r \in rejected : 0 < r /\ r <= issued

RefreshRequired == token \in rejected => refresh_required

AttemptTokenGood ==
    \A a \in attempts : a.id = transport_id /\ a.pc \in SendingPc => token \notin rejected

ExpiredHadToken ==
    \A a \in attempts : a.out = "expired" => a.pc = "replied" /\ a.sent # 0

TokenInv ==
    /\ RejectedWereIssued /\ RefreshRequired /\ AttemptTokenGood /\ ExpiredHadToken
    /\ NoRejectedTokenSent

LEMMA MovedAttempts ==
    ASSUME attempts \subseteq Attempt, NEW a \in attempts, NEW pc, NEW out
    PROVE  \A b \in Move(a, pc, out) :
               \/ b \in attempts /\ b # a
               \/ b.id = a.id /\ b.pc = pc /\ b.out = out /\ b.sent = a.sent
BY DEF Move, Attempt

\* A teardown makes every attempt one of the past.
LEMMA TokenTeardown ==
    ASSUME TypeOK, CoreInv, TokenInv, NEW rest \in SUBSET attempts, NEW again,
           Teardown(rest, again), UNCHANGED tokenVars
    PROVE  TokenInv'
<1>1. transport_id' = transport_id + 1 /\ conn' = 0 /\ attempts' \subseteq attempts
  BY DEF Teardown
<1>2. \A a \in attempts' : a.id # 0 /\ a.id # transport_id'
  BY <1>1 DEF CoreInv, Identities, TypeOK, Attempt
<1> QED
  BY <1>1, <1>2 DEF TokenInv, RejectedWereIssued, RefreshRequired, AttemptTokenGood,
     ExpiredHadToken, NoRejectedTokenSent, tokenVars

\* Attempts that end, and those that move where no token is at stake.
LEMMA TokenKept ==
    ASSUME TypeOK, CoreInv, TokenInv, UNCHANGED tokenVars,
           transport_id' = transport_id,
           \A b \in attempts' :
               \/ b \in attempts
               \/ /\ b.out = "expired" => b.pc = "replied" /\ b.sent # 0
                  /\ b.pc \in SendingPc =>
                        \E a \in attempts : a.id = b.id /\ a.pc \in SendingPc
                  /\ b.pc # "reply",
           conn' # 0 => conn' = conn
    PROVE  TokenInv'
<1>1. RejectedWereIssued' /\ RefreshRequired'
  BY DEF TokenInv, RejectedWereIssued, RefreshRequired, tokenVars
<1>2. AttemptTokenGood'
  BY DEF TokenInv, AttemptTokenGood, tokenVars
<1>3. ExpiredHadToken'
  BY DEF TokenInv, ExpiredHadToken
<1>4. NoRejectedTokenSent'
  <2> SUFFICES ASSUME NEW b \in attempts', b.pc = "reply", b.id = conn'
               PROVE  b.sent \notin rejected'
    BY DEF NoRejectedTokenSent
  <2>1. b \in attempts
    OBVIOUS
  <2>2. conn' = conn
    BY <2>1 DEF TypeOK, Attempt
  <2> QED
    BY <2>1, <2>2 DEF TokenInv, NoRejectedTokenSent, tokenVars
<1> QED
  BY <1>1, <1>2, <1>3, <1>4 DEF TokenInv

LEMMA TokenSetToken ==
    ASSUME TypeOK, TokenInv, SetToken PROVE TokenInv'
<1>1. /\ UNCHANGED <<attempts, transport_id, conn, rejected>>
      /\ issued' \in Nat /\ issued <= issued'
      /\ token' <= issued' /\ token' \notin rejected
  BY DEF SetToken, clientVars, NextToken, TokenInv, RejectedWereIssued, TypeOK
<1> QED
  BY <1>1 DEF TokenInv, RejectedWereIssued, RefreshRequired, AttemptTokenGood, TypeOK,
     ExpiredHadToken, NoRejectedTokenSent

LEMMA TokenApplication ==
    ASSUME TypeOK, CoreInv, TokenInv, Application PROVE TokenInv'
<1>1. CASE Connect \/ CancelConnect
  BY <1>1, TokenKept DEF Connect, CancelConnect
<1>2. CASE Disconnect
  BY <1>2, TokenTeardown DEF Disconnect
<1> QED
  BY <1>1, <1>2, TokenSetToken DEF Application

LEMMA TokenHandlers ==
    ASSUME TypeOK, CoreInv, TokenInv, Handlers PROVE TokenInv'
<1>1. CASE ConnectHandlerReturns \/ ClearingReturns \/ TeardownHandlerReturns
           \/ RetryHandlerReturns \/ ConnectedHandlerReturns
  BY <1>1, TokenKept DEF ConnectHandlerReturns, ClearingReturns, TeardownHandlerReturns,
     RetryHandlerReturns, ConnectedHandlerReturns, Without
<1>2. CASE BadConfigHandlerReturns
  BY <1>2, TokenKept, TokenTeardown DEF BadConfigHandlerReturns, Without
<1>3. CASE FailHandlerReturns
  BY <1>3, TokenKept, TokenTeardown DEF FailHandlerReturns, Without
<1> QED
  BY <1>1, <1>2, <1>3 DEF Handlers

LEMMA TokenGetToken ==
    ASSUME TypeOK, CoreInv, TokenInv, GetToken PROVE TokenInv'
<1>1. CASE TokenReturns
  <2>1. PICK a \in attempts : TokenReturns!(a)
    BY <1>1 DEF TokenReturns
  <2>2. /\ UNCHANGED <<transport_id, conn, rejected>>
        /\ issued' = issued + 1
        /\ token' = issued' \/ (token' = token /\ refresh_required' = refresh_required)
    BY <2>1 DEF NextToken
  <2>3. RejectedWereIssued' /\ RefreshRequired'
    BY <2>2 DEF TokenInv, RejectedWereIssued, RefreshRequired, TypeOK
  <2>3a. \/ attempts' = Without(a)
         \/ attempts' = Move(a, "opening", "none") /\ token' = issued'
    BY <2>1
  <2>4. \A b \in attempts' : b \in attempts \/ (b.pc = "opening" /\ b.out = "none" /\ token' = issued')
    BY <2>3a, MovedAttempts DEF Without, TypeOK
  <2>5. AttemptTokenGood'
    BY <2>2, <2>4 DEF TokenInv, AttemptTokenGood, RejectedWereIssued, TypeOK
  <2>6. ExpiredHadToken' /\ NoRejectedTokenSent'
    BY <2>2, <2>4 DEF TokenInv, ExpiredHadToken, NoRejectedTokenSent
  <2> QED
    BY <2>3, <2>5, <2>6 DEF TokenInv
<1>2. CASE TokenFails
  <2>1. PICK a \in attempts : TokenFails!(a)
    BY <1>2 DEF TokenFails
  <2>2. CASE Teardown(Without(a), FALSE)
    BY <2>1, <2>2, TokenTeardown DEF Without
  <2>3. CASE ~Teardown(Without(a), FALSE)
    <3>0. attempts' = Without(a) \/ attempts' = Move(a, "retryHandler", "none")
      BY <2>1, <2>3
    <3>1. \A b \in attempts' : b \in attempts \/ (b.pc = "retryHandler" /\ b.out = "none")
      BY <3>0, MovedAttempts DEF Without, TypeOK
    <3>2. UNCHANGED <<transport_id, conn>>
      BY <2>1, <2>3
    <3> QED
      BY <2>1, <3>1, <3>2, TokenKept DEF SendingPc
  <2> QED
    BY <2>2, <2>3
<1> QED
  BY <1>1, <1>2 DEF GetToken

LEMMA TokenStartAttempt ==
    ASSUME TypeOK, CoreInv, TokenInv, StartAttempt PROVE TokenInv'
<1>1. CASE state # "connecting"
  BY <1>1, TokenKept DEF StartAttempt, clientVars
<1>2. CASE state = "connecting"
  <2>1. /\ UNCHANGED <<token, refresh_required, issued, rejected>>
        /\ conn' = 0 /\ transport_id' = transport_id + 1
    BY <1>2 DEF StartAttempt, tokenVars
  <2>2. \A b \in attempts' :
            \/ b \in attempts
            \/ b.id = transport_id' /\ b.out = "none" /\ b.pc \in {"badConfig", "token"}
            \/ b.id = transport_id' /\ b.out = "none" /\ ~refresh_required
    BY <1>2 DEF StartAttempt, BadConfig, NewAttempt, TypeOK
  <2>3. \A b \in attempts : b.id # transport_id' /\ b.id # 0
    BY <2>1 DEF CoreInv, Identities, TypeOK, Attempt
  <2>4. RejectedWereIssued' /\ RefreshRequired' /\ ExpiredHadToken'
    BY <2>1, <2>2 DEF TokenInv, RejectedWereIssued, RefreshRequired, ExpiredHadToken
  <2>5. AttemptTokenGood'
    BY <2>1, <2>2, <2>3 DEF TokenInv, AttemptTokenGood, RefreshRequired, SendingPc
  <2>6. NoRejectedTokenSent'
    BY <2>1, <2>2, <2>3 DEF NoRejectedTokenSent, TypeOK
  <2> QED
    BY <2>4, <2>5, <2>6 DEF TokenInv
<1> QED
  BY <1>1, <1>2

LEMMA TokenOpenedResumes ==
    ASSUME TypeOK, CoreInv, TokenInv, OpenedResumes PROVE TokenInv'
<1>1. PICK a \in attempts : OpenedResumes!(a)
  BY DEF OpenedResumes
<1>2. CASE ~AttemptCurrent(a.id)
  BY <1>1, <1>2, TokenKept DEF Without
<1>3. CASE AttemptCurrent(a.id)
  <2>1. UNCHANGED <<token, refresh_required, issued, rejected, transport_id>>
    BY <1>1 DEF tokenVars
  <2>2. \A b \in attempts' :
            \/ b \in attempts /\ b # a
            \/ b.id = a.id /\ b.pc = "reply" /\ b.out = a.out /\ b.sent = token
    <3> DEFINE s == [a EXCEPT !.pc = "reply", !.sent = token]
    <3>1. s.id = a.id /\ s.pc = "reply" /\ s.out = a.out /\ s.sent = token
      BY DEF TypeOK, Attempt
    <3>2. attempts' = (attempts \ {a}) \cup {s}
      BY <1>1, <1>3 DEF Without
    <3> HIDE DEF s
    <3> QED
      BY <3>1, <3>2
  <2>3. a.id = transport_id /\ token \notin rejected /\ a.out # "expired"
    BY <1>1, <1>3 DEF AttemptCurrent, TokenInv, AttemptTokenGood, SendingPc, ExpiredHadToken
  <2>4. RejectedWereIssued' /\ RefreshRequired' /\ AttemptTokenGood'
    BY <2>1, <2>2, <2>3 DEF TokenInv, RejectedWereIssued, RefreshRequired, AttemptTokenGood
  <2>5. ExpiredHadToken'
    BY <2>2, <2>3 DEF TokenInv, ExpiredHadToken
  <2>6. NoRejectedTokenSent'
    <3> SUFFICES ASSUME NEW b \in attempts', b.pc = "reply", b.id = conn'
                 PROVE  b.sent \notin rejected'
      BY DEF NoRejectedTokenSent
    <3>1. CASE b \in attempts /\ b # a
      <4>1. b.id # a.id
        BY <3>1 DEF CoreInv, Identities
      <4> QED
        BY <1>1, <1>3, <4>1
    <3>2. CASE b.sent = token
      BY <2>1, <2>3, <3>2
    <3> QED
      BY <2>2, <3>1, <3>2
  <2> QED
    BY <2>4, <2>5, <2>6 DEF TokenInv
<1> QED
  BY <1>2, <1>3

\* The current attempt's outcome is a success: its token was good.
LEMMA TokenConnected ==
    ASSUME TypeOK, CoreInv, TokenInv, NEW a \in attempts, a.pc = "replied",
           AttemptCurrent(a.id), Connected(a)
    PROVE  TokenInv'
<1>1. token \notin rejected
  BY DEF TokenInv, AttemptTokenGood, AttemptCurrent, SendingPc
<1>2. UNCHANGED <<token, issued, rejected, transport_id, conn>>
  BY DEF Connected
<1>3. \A b \in attempts' : b \in attempts \/ (b.pc = "onConnected" /\ b.out = "none")
  BY DEF Connected, Move, TypeOK, Attempt
<1>4. RejectedWereIssued' /\ RefreshRequired' /\ AttemptTokenGood'
  BY <1>1, <1>2, <1>3 DEF TokenInv, RejectedWereIssued, RefreshRequired, AttemptTokenGood
<1>5. ExpiredHadToken' /\ NoRejectedTokenSent'
  BY <1>2, <1>3 DEF TokenInv, ExpiredHadToken, NoRejectedTokenSent
<1> QED
  BY <1>4, <1>5 DEF TokenInv

\* The current attempt's outcome is an error that is retried.
LEMMA TokenConnectError ==
    ASSUME TypeOK, CoreInv, TokenInv, NEW a \in attempts, a.pc = "replied",
           AttemptCurrent(a.id), ConnectErrorHandler(a)
    PROVE  TokenInv'
<1>1. UNCHANGED <<transport_id, conn, token, issued>>
  BY DEF ConnectErrorHandler, tokenVars
<1>2. \A b \in attempts' :
          (b \in attempts /\ b.id # a.id) \/ (b.pc = "failHandler" /\ b.out = "none")
  BY DEF ConnectErrorHandler, Move, TypeOK, Attempt, CoreInv, Identities
<1>3. a.id = transport_id /\ conn = a.id
  BY DEF AttemptCurrent, CoreInv, Phases, EarlyPc
<1>4. \/ UNCHANGED <<refresh_required, rejected>>
      \/ refresh_required' /\ rejected' = rejected \cup {token} /\ token # 0
  BY DEF ConnectErrorHandler, tokenVars, TokenInv, ExpiredHadToken
<1>5. RejectedWereIssued'
  <2>1. rejected' \subseteq rejected \cup {token} /\ (token = 0 => rejected' \subseteq rejected)
    BY <1>4
  <2> QED
    BY <1>1, <2>1 DEF TokenInv, RejectedWereIssued, TypeOK
<1>6. RefreshRequired'
  BY <1>1, <1>4 DEF TokenInv, RefreshRequired
<1>7. AttemptTokenGood'
  BY <1>1, <1>2, <1>3 DEF AttemptTokenGood, SendingPc
<1>8. ExpiredHadToken'
  BY <1>2 DEF TokenInv, ExpiredHadToken
<1>9. NoRejectedTokenSent'
  BY <1>1, <1>2, <1>3 DEF NoRejectedTokenSent
<1> QED
  BY <1>5, <1>6, <1>7, <1>8, <1>9 DEF TokenInv

LEMMA TokenReadyTasks ==
    ASSUME TypeOK, CoreInv, TokenInv, ReadyTasks PROVE TokenInv'
<1>1. CASE OpenFailedResumes
  <2>1. PICK a \in attempts : OpenFailedResumes!(a)
    BY <1>1 DEF OpenFailedResumes
  <2>2. CASE a.out = "unexpected" /\ AttemptCurrent(a.id)
    BY <2>1, <2>2, TokenTeardown DEF Without
  <2>3. CASE ~(a.out = "unexpected" /\ AttemptCurrent(a.id))
    <3>0. attempts' = Without(a) \/ attempts' = Move(a, "retryHandler", "none")
      BY <2>1, <2>3
    <3>1. \A b \in attempts' : b \in attempts \/ (b.pc = "retryHandler" /\ b.out = "none")
      BY <3>0, MovedAttempts DEF Without, TypeOK
    <3>2. UNCHANGED <<transport_id, conn>>
      BY <2>1, <2>3
    <3> QED
      BY <2>1, <3>1, <3>2, TokenKept DEF SendingPc
  <2> QED
    BY <2>2, <2>3
<1>2. CASE RepliedResumes
  <2>1. PICK a \in attempts : RepliedResumes!(a)
    BY <1>2 DEF RepliedResumes
  <2>2. CASE AttemptCurrent(a.id) /\ Connected(a)
    BY <2>1, <2>2, TokenConnected
  <2>3. CASE AttemptCurrent(a.id) /\ ConnectErrorHandler(a)
    BY <2>1, <2>3, TokenConnectError
  <2>4. CASE ~AttemptCurrent(a.id)
    BY <2>1, <2>4, TokenKept DEF Without
  <2>5. CASE UNCHANGED tokenVars /\ \E again \in BOOLEAN : Teardown(Without(a), again)
    BY <2>5, TokenTeardown DEF Without
  <2> QED
    BY <2>1, <2>2, <2>3, <2>4, <2>5
<1>3. CASE NoPing
  BY <1>3, TokenTeardown, TokenKept DEF NoPing, clientVars
<1> QED
  BY <1>1, <1>2, <1>3, TokenStartAttempt, TokenOpenedResumes DEF ReadyTasks

\* A 3014 disconnect drops the token: no attempt goes with it any more.
LEMMA TokenInvalidated ==
    ASSUME TypeOK, CoreInv, TokenInv, Teardown(attempts, TRUE), InvalidateToken
    PROVE  TokenInv'
<1>1. CASE UNCHANGED tokenVars
  BY <1>1, TokenTeardown
<1>2. CASE ~UNCHANGED tokenVars
  <2>1. /\ token' = 0 /\ refresh_required' /\ issued' = issued
        /\ rejected' = rejected \cup ({token} \ {0})
    BY <1>2 DEF InvalidateToken
  <2>2. transport_id' = transport_id + 1 /\ conn' = 0 /\ attempts' \subseteq attempts
    BY DEF Teardown
  <2>3. \A a \in attempts' : a.id # 0 /\ a.id # transport_id'
    BY <2>2 DEF CoreInv, Identities, TypeOK, Attempt
  <2>4. RejectedWereIssued' /\ RefreshRequired'
    BY <2>1 DEF TokenInv, RejectedWereIssued, RefreshRequired, TypeOK
  <2>5. AttemptTokenGood' /\ ExpiredHadToken' /\ NoRejectedTokenSent'
    BY <2>2, <2>3 DEF TokenInv, AttemptTokenGood, ExpiredHadToken, NoRejectedTokenSent
  <2> QED
    BY <2>4, <2>5 DEF TokenInv
<1> QED
  BY <1>1, <1>2

LEMMA TokenEnvironment ==
    ASSUME TypeOK, CoreInv, TokenInv,
           HandshakeEnds \/ ReplyArrives \/ TransportEnds \/ PingArrives \/ PongReturns
             \/ ReconnectTimerFires \/ PingTimerFires
    PROVE  TokenInv'
<1>1. CASE HandshakeEnds
  <2>1. PICK a \in attempts : HandshakeEnds!(a)
    BY <1>1 DEF HandshakeEnds
  <2>2. \A b \in attempts' : b \in attempts
            \/ (b.id = a.id /\ b.pc \in {"opened", "openFailed"} /\ b.out # "expired")
    <3>1. \E pc \in {"opened", "openFailed"}, out \in {"none"} \cup OpenOutcome :
              attempts' = Move(a, pc, out)
      BY <2>1
    <3> QED
      BY <3>1, MovedAttempts DEF TypeOK, OpenOutcome
  <2> QED
    BY <2>1, <2>2, TokenKept DEF SendingPc
<1>2. CASE ReplyArrives
  <2>1. PICK a \in attempts : ReplyArrives!(a)
    BY <1>2 DEF ReplyArrives
  <2>2. \A b \in attempts' : b \in attempts
            \/ (b.id = a.id /\ b.pc = "replied" /\ (b.out = "expired" => b.sent # 0))
    <3>1. \E out : attempts' = Move(a, "replied", out) /\ (out = "expired" => a.sent # 0)
      BY <2>1
    <3> QED
      BY <3>1, MovedAttempts DEF TypeOK
  <2> QED
    BY <2>1, <2>2, TokenKept DEF SendingPc
<1>3. CASE TransportEnds
  <2>1. \/ UNCHANGED tokenVars /\ \E again \in BOOLEAN : Teardown(attempts, again)
        \/ Teardown(attempts, TRUE) /\ InvalidateToken
    BY <1>3 DEF TransportEnds
  <2> QED
    BY <2>1, TokenTeardown, TokenInvalidated
<1>4. CASE PingArrives \/ PongReturns \/ ReconnectTimerFires \/ PingTimerFires
  BY <1>4, TokenKept DEF PingArrives, PongReturns, ReconnectTimerFires, PingTimerFires
<1> QED
  BY <1>1, <1>2, <1>3, <1>4

LEMMA TokenStep ==
    ASSUME TypeOK, CoreInv, TokenInv, [Next]_vars PROVE TokenInv'
<1>1. CASE UNCHANGED vars
  BY <1>1, TokenKept DEF vars, clientVars
<1>2. CASE Next
  BY <1>2, TokenApplication, TokenHandlers, TokenGetToken, TokenReadyTasks, TokenEnvironment
     DEF Next
<1> QED
  BY <1>1, <1>2

LEMMA TokenInit == Init => TokenInv
BY DEF Init, TokenInv, RejectedWereIssued, RefreshRequired, AttemptTokenGood, ExpiredHadToken,
   NoRejectedTokenSent

\* A connect command never goes out with a token the client knows to be expired,
\* however set_token(), get_token, retries and 3014 disconnects follow each other
\* (_refresh_required, _invalidate_connection_state()).
THEOREM RejectedTokensStay == Spec => []NoRejectedTokenSent
<1>1. TokenInv => NoRejectedTokenSent
  BY DEF TokenInv
<1> QED
  BY <1>1, TypeCorrectness, CoreInvariance, TokenInit, TokenStep, PTL DEF Spec

-----------------------------------------------------------------------------
(* What the application sees: ConnectionStates *)

FutureType == [n : Nat, st : {"pending", "result", "exception"}]

LEMMA FutureFacts ==
    ASSUME TypeOK, CoreInv
    PROVE  /\ state \in ClientState
           /\ connected_future \in FutureType
           /\ state = "connecting" => connected_future.st = "pending"
           /\ state = "connected" => connected_future.st = "result"
BY DEF TypeOK, CoreInv, FutureMatchesState, FutureType

LEMMA RenewedFuture ==
    ASSUME NEW f \in FutureType
    PROVE  FreshFuture(f) = Abstract!Renewed(f) /\ FreshFuture(f).st = "pending"
BY DEF FutureType, FreshFuture, Done, Abstract!Renewed, Abstract!Pending

\* A teardown is a Lose, a Stop, or changes nothing: a failed attempt goes on
\* connecting with the future that is already being waited for.
LEMMA TeardownRefines ==
    ASSUME TypeOK, CoreInv, NEW rest, NEW again \in BOOLEAN, Teardown(rest, again)
    PROVE  [Abstract!Next]_(Abstract!vars)
<1> DEFINE f == connected_future
<1>1. /\ state \in ClientState /\ state # "disconnected"
      /\ f \in FutureType
      /\ FreshFuture(f) = Abstract!Renewed(f)
  BY FutureFacts, RenewedFuture DEF Teardown
<1>2. CASE again /\ state = "connected"
  <2>1. Abstract!Lose
    BY <1>1, <1>2 DEF Teardown, Abstract!Lose
  <2> QED
    BY <2>1 DEF Abstract!Next
<1>3. CASE again /\ state = "connecting"
  <2>1. FreshFuture(f) = f
    BY <1>3, FutureFacts DEF FreshFuture, Done
  <2> QED
    BY <1>3, <2>1 DEF Teardown, Abstract!vars
<1>4. CASE ~again
  <2>1. Abstract!Stop
    BY <1>1, <1>4 DEF Teardown, Abstract!Stop, Abstract!Resolved
  <2> QED
    BY <2>1 DEF Abstract!Next
<1> QED
  BY <1>1, <1>2, <1>3, <1>4 DEF ClientState

LEMMA ConnectRefines ==
    ASSUME TypeOK, CoreInv, Connect PROVE [Abstract!Next]_(Abstract!vars)
<1>1. Abstract!Begin
  BY FutureFacts, RenewedFuture DEF Connect, Abstract!Begin
<1> QED
  BY <1>1 DEF Abstract!Next

\* _connected() resolves a pending future: the abstract Establish is enabled.
LEMMA ConnectedRefines ==
    ASSUME TypeOK, CoreInv, NEW a \in attempts, AttemptCurrent(a.id), Connected(a)
    PROVE  [Abstract!Next]_(Abstract!vars)
<1>1. Abstract!Establish
  BY FutureFacts DEF AttemptCurrent, Connected, Abstract!Establish, Abstract!Resolved,
     Abstract!Pending
<1> QED
  BY <1>1 DEF Abstract!Next

LEMMA OthersStutter ==
    ASSUME UNCHANGED <<state, connected_future>> PROVE UNCHANGED Abstract!vars
BY DEF Abstract!vars

LEMMA ApplicationRefines ==
    ASSUME TypeOK, CoreInv, Application PROVE [Abstract!Next]_(Abstract!vars)
<1>1. CASE SetToken \/ CancelConnect
  BY <1>1, OthersStutter DEF SetToken, CancelConnect, clientVars
<1>2. CASE Disconnect
  BY <1>2, TeardownRefines DEF Disconnect
<1> QED
  BY <1>1, <1>2, ConnectRefines DEF Application

LEMMA HandlersRefine ==
    ASSUME TypeOK, CoreInv, Handlers PROVE [Abstract!Next]_(Abstract!vars)
<1>1. CASE ConnectHandlerReturns \/ ClearingReturns \/ TeardownHandlerReturns
           \/ RetryHandlerReturns \/ ConnectedHandlerReturns
  BY <1>1, OthersStutter DEF ConnectHandlerReturns, ClearingReturns, TeardownHandlerReturns,
     RetryHandlerReturns, ConnectedHandlerReturns
<1>2. CASE BadConfigHandlerReturns \/ FailHandlerReturns
  <2>1. \/ \E rest : Teardown(rest, FALSE) \/ Teardown(rest, TRUE)
        \/ UNCHANGED <<state, connected_future>>
    BY <1>2 DEF BadConfigHandlerReturns, FailHandlerReturns
  <2> QED
    BY <2>1, TeardownRefines, OthersStutter
<1> QED
  BY <1>1, <1>2 DEF Handlers

LEMMA GetTokenRefines ==
    ASSUME TypeOK, CoreInv, GetToken PROVE [Abstract!Next]_(Abstract!vars)
<1>1. \/ \E rest : Teardown(rest, FALSE)
      \/ UNCHANGED <<state, connected_future>>
  BY DEF GetToken, TokenReturns, TokenFails
<1> QED
  BY <1>1, TeardownRefines, OthersStutter

LEMMA ReadyTasksRefine ==
    ASSUME TypeOK, CoreInv, ReadyTasks PROVE [Abstract!Next]_(Abstract!vars)
<1>1. CASE StartAttempt \/ OpenedResumes
  BY <1>1, OthersStutter DEF StartAttempt, OpenedResumes, clientVars
<1>2. CASE OpenFailedResumes \/ NoPing
  <2>1. \/ \E rest : Teardown(rest, TRUE)
        \/ UNCHANGED <<state, connected_future>>
    BY <1>2 DEF OpenFailedResumes, NoPing, clientVars
  <2> QED
    BY <2>1, TeardownRefines, OthersStutter
<1>3. CASE RepliedResumes
  <2>1. PICK a \in attempts : RepliedResumes!(a)
    BY <1>3 DEF RepliedResumes
  <2>2. \/ AttemptCurrent(a.id) /\ Connected(a)
        \/ \E rest : Teardown(rest, FALSE) \/ Teardown(rest, TRUE)
        \/ UNCHANGED <<state, connected_future>>
    BY <2>1 DEF ConnectErrorHandler
  <2> QED
    BY <2>2, ConnectedRefines, TeardownRefines, OthersStutter
<1> QED
  BY <1>1, <1>2, <1>3 DEF ReadyTasks

LEMMA EnvironmentRefines ==
    ASSUME TypeOK, CoreInv,
           HandshakeEnds \/ ReplyArrives \/ TransportEnds \/ PingArrives \/ PongReturns
             \/ ReconnectTimerFires \/ PingTimerFires
    PROVE  [Abstract!Next]_(Abstract!vars)
<1>1. CASE TransportEnds
  BY <1>1, TeardownRefines DEF TransportEnds
<1>2. CASE HandshakeEnds \/ ReplyArrives \/ PingArrives \/ PongReturns
           \/ ReconnectTimerFires \/ PingTimerFires
  BY <1>2, OthersStutter DEF HandshakeEnds, ReplyArrives, PingArrives, PongReturns,
     ReconnectTimerFires, PingTimerFires
<1> QED
  BY <1>1, <1>2

LEMMA StepRefines ==
    ASSUME TypeOK, CoreInv, [Next]_vars PROVE [Abstract!Next]_(Abstract!vars)
<1>1. CASE UNCHANGED vars
  BY <1>1, OthersStutter DEF vars, clientVars
<1>2. CASE Next
  BY <1>2, ApplicationRefines, HandlersRefine, GetTokenRefines, ReadyTasksRefine,
     EnvironmentRefines DEF Next
<1> QED
  BY <1>1, <1>2

LEMMA InitRefines == Init => Abstract!Init
BY DEF Init, Abstract!Init, Abstract!Pending

\* Seen from the application, every run of the client is a run of the abstract
\* connection: only legal state changes, and a promise that somebody may wait
\* for is kept until it is resolved (connect(), _connected(), _disconnect()).
THEOREM RefinesConnectionStates == Spec => ImplementsConnectionStates
BY TypeCorrectness, CoreInvariance, InitRefines, StepRefines, PTL
   DEF Spec, ImplementsConnectionStates, Abstract!SafeSpec

-----------------------------------------------------------------------------
(* What subscriptions, pushes and commands see: Sessions *)

\* A connected client is connected over the latest attempt's transport.
LEMMA SessionFacts ==
    ASSUME TypeOK, CoreInv
    PROVE  /\ transport_id \in Nat
           /\ state = "connected" => conn = transport_id /\ conn # 0
BY DEF TypeOK, CoreInv, OneConnection

\* The identity of a connected client is the session; otherwise it is only the
\* one of the next.
LEMMA SameSession ==
    ASSUME UNCHANGED <<state, transport_id>>, state = "connected" => conn' = conn
    PROVE  UNCHANGED Link!vars
BY DEF Link!vars

\* A teardown ends the session, or gives up an attempt.
LEMMA TeardownSession ==
    ASSUME TypeOK, CoreInv, NEW rest, NEW again \in BOOLEAN, Teardown(rest, again)
    PROVE  Link!Next
<1>1. transport_id' = transport_id + 1 /\ state' # "connected"
  BY DEF Teardown
<1>2. CASE state = "connected"
  <2>1. Link!Close
    BY <1>1, <1>2, SessionFacts DEF Link!Close
  <2> QED
    BY <2>1 DEF Link!Next
<1>3. CASE state # "connected"
  <2>1. Link!NewIdentity
    BY <1>1, <1>3 DEF Link!NewIdentity
  <2> QED
    BY <2>1 DEF Link!Next
<1> QED
  BY <1>2, <1>3

\* An attempt is started only where there is no session.
LEMMA StartSession ==
    ASSUME StartAttempt PROVE [Link!Next]_(Link!vars)
<1>1. CASE state # "connecting"
  BY <1>1, SameSession DEF StartAttempt, clientVars
<1>2. CASE state = "connecting"
  <2>1. Link!NewIdentity
    BY <1>2 DEF StartAttempt, Link!NewIdentity
  <2> QED
    BY <2>1 DEF Link!Next
<1> QED
  BY <1>1, <1>2

\* The current attempt whose command succeeded has its transport as _conn.
LEMMA ConnectedSession ==
    ASSUME TypeOK, CoreInv, NEW a \in attempts, a.pc = "replied", AttemptCurrent(a.id),
           Connected(a)
    PROVE  Link!Next
<1>1. conn = transport_id /\ transport_id # 0
  BY DEF TypeOK, CoreInv, Phases, AttemptCurrent, Attempt, EarlyPc
<1>2. Link!Open
  BY <1>1 DEF AttemptCurrent, Connected, Link!Open
<1> QED
  BY <1>2 DEF Link!Next

LEMMA ApplicationSession ==
    ASSUME TypeOK, CoreInv, Application PROVE [Link!Next]_(Link!vars)
<1>1. CASE SetToken \/ CancelConnect
  BY <1>1, SameSession DEF SetToken, CancelConnect, clientVars
<1>2. CASE Disconnect
  BY <1>2, TeardownSession DEF Disconnect
<1>3. CASE Connect
  BY <1>3 DEF Connect, Link!vars
<1> QED
  BY <1>1, <1>2, <1>3 DEF Application

LEMMA HandlersSession ==
    ASSUME TypeOK, CoreInv, Handlers PROVE [Link!Next]_(Link!vars)
<1>1. CASE ConnectHandlerReturns \/ ClearingReturns \/ TeardownHandlerReturns
           \/ RetryHandlerReturns \/ ConnectedHandlerReturns
  BY <1>1, SameSession DEF ConnectHandlerReturns, ClearingReturns, TeardownHandlerReturns,
     RetryHandlerReturns, ConnectedHandlerReturns
<1>2. CASE BadConfigHandlerReturns \/ FailHandlerReturns
  <2>1. \/ \E rest : Teardown(rest, FALSE) \/ Teardown(rest, TRUE)
        \/ UNCHANGED <<state, transport_id, conn>>
    BY <1>2 DEF BadConfigHandlerReturns, FailHandlerReturns
  <2> QED
    BY <2>1, TeardownSession, SameSession
<1> QED
  BY <1>1, <1>2 DEF Handlers

LEMMA GetTokenSession ==
    ASSUME TypeOK, CoreInv, GetToken PROVE [Link!Next]_(Link!vars)
<1>1. \/ \E rest : Teardown(rest, FALSE)
      \/ UNCHANGED <<state, transport_id, conn>>
  BY DEF GetToken, TokenReturns, TokenFails
<1> QED
  BY <1>1, TeardownSession, SameSession

LEMMA ReadyTasksSession ==
    ASSUME TypeOK, CoreInv, ReadyTasks PROVE [Link!Next]_(Link!vars)
<1>1. CASE OpenedResumes
  <2>1. UNCHANGED <<state, transport_id>> /\ (state = "connected" => conn' = conn)
    BY <1>1 DEF OpenedResumes, AttemptCurrent
  <2> QED
    BY <2>1, SameSession
<1>2. CASE OpenFailedResumes \/ NoPing
  <2>1. \/ \E rest : Teardown(rest, TRUE)
        \/ UNCHANGED <<state, transport_id, conn>>
    BY <1>2 DEF OpenFailedResumes, NoPing, clientVars
  <2> QED
    BY <2>1, TeardownSession, SameSession
<1>3. CASE RepliedResumes
  <2>1. PICK a \in attempts : RepliedResumes!(a)
    BY <1>3 DEF RepliedResumes
  <2>2. \/ a.pc = "replied" /\ AttemptCurrent(a.id) /\ Connected(a)
        \/ \E rest : Teardown(rest, FALSE) \/ Teardown(rest, TRUE)
        \/ UNCHANGED <<state, transport_id, conn>>
    BY <2>1 DEF ConnectErrorHandler
  <2> QED
    BY <2>2, ConnectedSession, TeardownSession, SameSession
<1> QED
  BY <1>1, <1>2, <1>3, StartSession DEF ReadyTasks

LEMMA EnvironmentSession ==
    ASSUME TypeOK, CoreInv,
           HandshakeEnds \/ ReplyArrives \/ TransportEnds \/ PingArrives \/ PongReturns
             \/ ReconnectTimerFires \/ PingTimerFires
    PROVE  [Link!Next]_(Link!vars)
<1>1. CASE TransportEnds
  BY <1>1, TeardownSession DEF TransportEnds
<1>2. CASE HandshakeEnds \/ ReplyArrives \/ PingArrives \/ PongReturns
           \/ ReconnectTimerFires \/ PingTimerFires
  BY <1>2, SameSession DEF HandshakeEnds, ReplyArrives, PingArrives, PongReturns,
     ReconnectTimerFires, PingTimerFires
<1> QED
  BY <1>1, <1>2

LEMMA SessionStep ==
    ASSUME TypeOK, CoreInv, [Next]_vars PROVE [Link!Next]_(Link!vars)
<1>1. CASE UNCHANGED vars
  BY <1>1, SameSession DEF vars, clientVars
<1>2. CASE Next
  BY <1>2, ApplicationSession, HandlersSession, GetTokenSession, ReadyTasksSession,
     EnvironmentSession DEF Next
<1> QED
  BY <1>1, <1>2

LEMMA SessionInit == Init => Link!Init
BY DEF Init, Link!Init

\* Every connection has an identity of its own, begins and ends once: what
\* subscriptions, pushes and commands rely on when they compare _transport_id.
THEOREM RefinesSessions == Spec => ImplementsSessions
BY TypeCorrectness, CoreInvariance, SessionInit, SessionStep, PTL
   DEF Spec, ImplementsSessions, Link!Spec
=============================================================================
