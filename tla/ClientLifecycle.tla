---------------------------- MODULE ClientLifecycle ----------------------------
(***************************************************************************)
(* The connection lifecycle of centrifuge.Client (src/centrifuge/client.py)*)
(* connect(), disconnect(), connection attempts, teardowns, the reconnect  *)
(* and the ping timer, and the connection token.                           *)
(*                                                                         *)
(* The client is one asyncio program.  An action is what runs between two  *)
(* awaits that can suspend; tasks started with _spawn() and tasks woken by *)
(* a future run in the order they became ready (`ready').  A connection    *)
(* attempt is a record of `attempts' with the place it is suspended at,    *)
(* and a connect() or teardown suspended in an event handler is a record   *)
(* of `transitions'.  The application may call connect(), disconnect() and *)
(* set_token() at every moment, so also from its event handlers.  A        *)
(* handler that raises stops the client (_handler_raised), which is what   *)
(* Disconnect does.                                                        *)
(***************************************************************************)
EXTENDS Naturals, Sequences, FiniteSets

CONSTANTS
    Apps,         \* the applications there may be, see App
    MaxCalls,     \* calls of the application that have an effect
    MaxFaults     \* failures and silences of the network, server and get_token

\* Whether the application configured get_token, and may cancel a pending connect().
App == [get_token : BOOLEAN, cancels : BOOLEAN]

ASSUME ConfigAssumption == Apps \subseteq App
ASSUME BoundsAssumption == MaxCalls \in Nat /\ MaxFaults \in Nat

VARIABLES
    app,               \* the application, which stays the same
    state,             \* Client.state
    transport_id,      \* identity of the latest attempt or teardown
    transition,        \* identity of the latest connect() or teardown
    conn,              \* the attempt whose transport is _conn, or 0
    open_task,         \* the attempt whose handshake is _open_task, or 0
    open,              \* transports established and not being closed
    attempts,          \* the running _connection_attempt() calls
    transitions,       \* connect() and _disconnect() calls in an event handler
    reconnect_timer,   \* whether the reconnect timer is armed
    ping_timer,        \* the attempt whose ping armed the ping timer, or 0
    ponging,           \* connections whose message task is sending a pong
    ready,             \* tasks to run, in order
    connected_future,  \* what ready() waits for: [n, st]
    token,             \* the connection token: a number, 0 when empty
    refresh_required,  \* the server answered "token expired"
    issued,            \* tokens handed out so far by get_token or set_token()
    rejected,          \* (history) tokens the client knows to be expired
    last_event,        \* (history) the last connection event emitted
    calls, faults      \* what is left of the bounds

clientVars == <<state, transport_id, transition, conn, open_task, open, attempts,
                transitions, reconnect_timer, ping_timer, connected_future, last_event>>
tokenVars == <<app, token, refresh_required, issued, rejected>>
vars == <<clientVars, tokenVars, ponging, ready, calls, faults>>

-----------------------------------------------------------------------------
(* Types *)

ClientState == {"disconnected", "connecting", "connected"}

\* Where an attempt is suspended.  "opened", "openFailed" and "replied": what
\* it waits for has happened, its task is ready and has not run yet.
AttemptPc == {"badConfig", "token", "retryHandler", "opening", "opened", "openFailed",
              "reply", "replied", "failHandler", "onConnected"}

ReplyOutcome == {"ok", "temporary", "expired", "permanent", "malformed", "timeout"}
OpenOutcome == {"refused", "unexpected"}
Outcome == {"none"} \cup ReplyOutcome \cup OpenOutcome

Attempt == [id : Nat \ {0}, pc : AttemptPc, out : Outcome, sent : Nat]
Transition == [id : Nat \ {0}, kind : {"connect", "teardown"}, reconnect : BOOLEAN,
               pc : {"clearing", "event"}]
Task == [op : {"create", "reconnect", "noPing", "resume"}, id : Nat]

TypeOK ==
    /\ app \in App
    /\ state \in ClientState
    /\ transport_id \in Nat /\ transition \in Nat
    /\ conn \in Nat /\ open_task \in Nat /\ open \subseteq Nat \ {0}
    /\ attempts \subseteq Attempt
    /\ transitions \subseteq Transition
    /\ reconnect_timer \in BOOLEAN
    /\ ping_timer \in Nat /\ ponging \subseteq Nat
    /\ ready \in Seq(Task)
    /\ connected_future \in [n : Nat, st : {"pending", "result", "exception"}]
    /\ token \in Nat /\ refresh_required \in BOOLEAN
    /\ issued \in Nat /\ rejected \subseteq Nat
    /\ last_event \in {"none", "connecting", "connected", "disconnected"}
    /\ calls \in Nat /\ faults \in Nat

-----------------------------------------------------------------------------
(***************************************************************************)
(* Helpers.  A definition named Faulty... is not part of the model: it is  *)
(* what the next definition would be with a plausible bug, and the mutants *)
(* of PROJECT.json show which property finds that bug.                     *)
(***************************************************************************)

\* Without the identity of the attempt, a stale one passes for the current one.
FaultyAttemptCurrent(i) == state = "connecting"
AttemptCurrent(i) == transport_id = i /\ state = "connecting"
FaultyConnectionCurrent(i) == transport_id = i /\ state = "connecting"
ConnectionCurrent(i) == transport_id = i /\ state = "connected"

\* Without the comparison, a superseded connect() or teardown goes on.
FaultyTransitionCurrent(t) == TRUE
TransitionCurrent(t) == transition = t.id

Spawn(op, i) == ready' = Append(ready, [op |-> op, id |-> i])

Done(f) == f.st # "pending"

\* Kept when finished; replaced while somebody waits; a cancelled one kept.
FaultyKeptFuture(f) == f
FaultyNewFuture(f) == [n |-> f.n + 1, st |-> "pending"]
FaultyCancelledFuture(f) == IF Done(f) THEN [f EXCEPT !.st = "cancelled"] ELSE f
FreshFuture(f) == IF Done(f) THEN [n |-> f.n + 1, st |-> "pending"] ELSE f

\* An attempt goes on to its next suspension, or ends.
Move(a, pc, out) == (attempts \ {a}) \cup {[a EXCEPT !.pc = pc, !.out = out]}
Without(a) == attempts \ {a}

FaultyAborted(h) == {a \in attempts : a.pc \in {"opening", "opened"} /\ a.id = h}

\* Attempts that end when their handshake (id h) is cancelled.
Aborted(h) == {a \in attempts : a.pc = "opening" /\ a.id = h}

FaultyScheduleReconnect == reconnect_timer' = (reconnect_timer /\ state = "connecting")
ScheduleReconnect == reconnect_timer' = (state = "connecting")

Fault == faults > 0 /\ faults' = faults - 1
Call == calls > 0 /\ calls' = calls - 1

-----------------------------------------------------------------------------
(* Teardown: _disconnect() up to its first await.  `rest' are the attempts  *)
(* that are not the caller's.  An attempt waiting for its reply has its     *)
(* command failed, and one in its handshake is cancelled: both resume only  *)
(* to find that they are over.                                              *)

NewTransition(kind, again, pc) ==
    [id |-> transition + 1, kind |-> kind, reconnect |-> again, pc |-> pc]

TeardownEvent(again) == IF again THEN "connecting" ELSE "disconnected"

Teardown(rest, again) ==
    /\ state # "disconnected"
    /\ transport_id' = transport_id + 1
    /\ transition' = transition + 1
    /\ ping_timer' = 0
    /\ conn' = 0
    /\ open' = open \ {conn}
    /\ open_task' = 0
    /\ attempts' = {a \in rest \ Aborted(open_task) : a.pc # "reply"}
    /\ state' = IF again THEN "connecting" ELSE "disconnected"
    /\ connected_future' = IF again THEN FreshFuture(connected_future)
                           ELSE [FreshFuture(connected_future) EXCEPT !.st = "exception"]
    /\ IF state = "connected"
       THEN /\ transitions' = transitions \cup {NewTransition("teardown", again, "clearing")}
            /\ reconnect_timer' = FALSE
            /\ UNCHANGED last_event
       ELSE IF again
       THEN \* a failed attempt that retries: no event, nothing to wait for
            /\ reconnect_timer' = TRUE
            /\ UNCHANGED <<transitions, last_event>>
       ELSE /\ transitions' = transitions \cup {NewTransition("teardown", again, "event")}
            /\ reconnect_timer' = FALSE
            /\ last_event' = "disconnected"

FaultyInvalidateToken ==
    /\ rejected' = rejected \cup ({token} \ {0})
    /\ UNCHANGED <<app, token, refresh_required, issued>>

\* _invalidate_connection_state(): the connection token is dropped when a new
\* one can be had.
InvalidateToken ==
    IF app.get_token
    THEN /\ token' = 0
         /\ refresh_required' = TRUE
         /\ rejected' = rejected \cup ({token} \ {0})
         /\ UNCHANGED <<app, issued>>
    ELSE UNCHANGED tokenVars

-----------------------------------------------------------------------------
(* Calls of the application *)

Connect ==
    /\ state = "disconnected"
    /\ Call
    /\ state' = "connecting"
    /\ transition' = transition + 1
    /\ connected_future' = FreshFuture(connected_future)
    /\ transitions' = transitions \cup {NewTransition("connect", TRUE, "event")}
    /\ last_event' = "connecting"
    /\ UNCHANGED <<transport_id, conn, open_task, open, attempts, reconnect_timer, ping_timer,
                   tokenVars, ponging, ready, faults>>

Disconnect ==
    /\ Call
    /\ Teardown(attempts, FALSE)
    /\ UNCHANGED <<tokenVars, ponging, ready, faults>>

NextToken == issued + 1

SetToken ==
    /\ Call
    /\ \/ token' = NextToken /\ issued' = NextToken
       \/ token # 0 /\ token' = 0 /\ UNCHANGED issued
    /\ refresh_required' = (refresh_required /\ app.get_token)
    /\ UNCHANGED <<clientVars, app, rejected, ponging, ready, faults>>

\* The task that runs connect() is cancelled while on_connecting runs.
CancelConnect ==
    /\ app.cancels
    /\ Call
    /\ \E t \in transitions :
         /\ t.kind = "connect"
         /\ transitions' = transitions \ {t}
    /\ UNCHANGED <<state, transport_id, transition, conn, open_task, open, attempts,
                   reconnect_timer, ping_timer, connected_future, last_event,
                   tokenVars, ponging, ready, faults>>

-----------------------------------------------------------------------------
(* Event handlers of connect() and of a teardown return *)

\* on_connecting of connect() returned: the attempt is started in a task of
\* its own, unless the client has moved on meanwhile.
ConnectHandlerReturns ==
    \E t \in transitions :
        /\ t.kind = "connect"
        /\ transitions' = transitions \ {t}
        /\ IF TransitionCurrent(t) /\ state = "connecting"
           THEN Spawn("create", 0)
           ELSE UNCHANGED ready
        /\ UNCHANGED <<state, transport_id, transition, conn, open_task, open, attempts,
                       reconnect_timer, ping_timer, connected_future, last_event,
                       tokenVars, ponging, calls, faults>>

\* _clear_connected_state() is over (the subscriptions' handlers returned):
\* the event of the teardown is emitted, unless another one superseded it.
ClearingReturns ==
    \E t \in transitions :
        /\ t.pc = "clearing"
        /\ IF TransitionCurrent(t)
           THEN /\ transitions' = (transitions \ {t}) \cup {[t EXCEPT !.pc = "event"]}
                /\ last_event' = TeardownEvent(t.reconnect)
           ELSE /\ transitions' = transitions \ {t}
                /\ UNCHANGED last_event
        /\ UNCHANGED <<state, transport_id, transition, conn, open_task, open, attempts,
                       reconnect_timer, ping_timer, connected_future,
                       tokenVars, ponging, ready, calls, faults>>

\* The teardown's own handler returned: reconnect, unless superseded.
TeardownHandlerReturns ==
    \E t \in transitions :
        /\ t.kind = "teardown" /\ t.pc = "event"
        /\ transitions' = transitions \ {t}
        /\ IF TransitionCurrent(t) /\ t.reconnect
           THEN ScheduleReconnect
           ELSE UNCHANGED reconnect_timer
        /\ UNCHANGED <<state, transport_id, transition, conn, open_task, open, attempts,
                       ping_timer, connected_future, last_event,
                       tokenVars, ponging, ready, calls, faults>>

-----------------------------------------------------------------------------
(* A connection attempt *)

NewAttempt(pc) == [id |-> transport_id + 1, pc |-> pc, out |-> "none", sent |-> 0]

\* The token is known to be expired and there is no get_token to ask for another.
FaultyBadConfig == refresh_required /\ ~app.get_token /\ token = 0
BadConfig == refresh_required /\ ~app.get_token

\* _create_connection() / _reconnect() at the head of the ready tasks.
StartAttempt ==
    /\ ready # <<>> /\ Head(ready).op \in {"create", "reconnect"}
    /\ ready' = Tail(ready)
    /\ IF state # "connecting"
       THEN UNCHANGED clientVars
       ELSE /\ transport_id' = transport_id + 1
            /\ conn' = 0
            /\ open' = open \ {conn}
            /\ LET rest == attempts \ Aborted(open_task) IN
               IF BadConfig
               THEN /\ attempts' = rest \cup {NewAttempt("badConfig")}
                    /\ open_task' = 0
               ELSE IF app.get_token /\ (refresh_required \/ token = 0)
               THEN /\ attempts' = rest \cup {NewAttempt("token")}
                    /\ open_task' = 0
               ELSE /\ attempts' = rest \cup {NewAttempt("opening")}
                    /\ open_task' = transport_id + 1
            /\ UNCHANGED <<state, transition, transitions, reconnect_timer, ping_timer,
                           connected_future, last_event>>
    /\ UNCHANGED <<tokenVars, ponging, calls, faults>>

\* on_error for an expired token without get_token returned: stop.
BadConfigHandlerReturns ==
    \E a \in attempts :
        /\ a.pc = "badConfig"
        /\ IF AttemptCurrent(a.id)
           THEN Teardown(Without(a), FALSE)
           ELSE /\ attempts' = Without(a)
                /\ UNCHANGED <<state, transport_id, transition, conn, open_task, open,
                               transitions, reconnect_timer, ping_timer, connected_future,
                               last_event>>
        /\ UNCHANGED <<tokenVars, ponging, ready, calls, faults>>

\* get_token returned.  The token of an attempt that is over is not used.
TokenReturns ==
    \E a \in attempts :
        /\ a.pc = "token"
        /\ issued' = NextToken
        /\ IF AttemptCurrent(a.id)
           THEN /\ token' = NextToken
                /\ refresh_required' = FALSE
                /\ open_task' = a.id
                /\ attempts' = Move(a, "opening", "none")
           ELSE /\ attempts' = Without(a)
                /\ UNCHANGED <<token, refresh_required, open_task>>
        /\ UNCHANGED <<state, transport_id, transition, conn, open, transitions,
                       reconnect_timer, ping_timer, connected_future, last_event,
                       app, rejected, ponging, ready, calls, faults>>

\* get_token failed: UnauthorizedError stops the client, others are retried.
TokenFails ==
    \E a \in attempts :
        /\ a.pc = "token"
        /\ Fault
        /\ IF ~AttemptCurrent(a.id)
           THEN /\ attempts' = Without(a)
                /\ UNCHANGED <<state, transport_id, transition, conn, open_task, open,
                               transitions, reconnect_timer, ping_timer, connected_future,
                               last_event>>
           ELSE \/ Teardown(Without(a), FALSE)
                \/ /\ attempts' = Move(a, "retryHandler", "none")
                   /\ UNCHANGED <<state, transport_id, transition, conn, open_task, open,
                                  transitions, reconnect_timer, ping_timer,
                                  connected_future, last_event>>
        /\ UNCHANGED <<tokenVars, ponging, ready, calls>>

\* on_error of a failed token request or handshake returned: retry later.
RetryHandlerReturns ==
    \E a \in attempts :
        /\ a.pc = "retryHandler"
        /\ attempts' = Without(a)
        /\ IF AttemptCurrent(a.id) THEN ScheduleReconnect ELSE UNCHANGED reconnect_timer
        /\ UNCHANGED <<state, transport_id, transition, conn, open_task, open, transitions,
                       ping_timer, connected_future, last_event,
                       tokenVars, ponging, ready, calls, faults>>

\* The handshake task ends; the attempt that awaits it becomes ready.
HandshakeEnds ==
    \E a \in attempts :
        /\ a.pc = "opening"
        /\ \/ /\ open' = open \cup {a.id}
              /\ attempts' = Move(a, "opened", "none")
              /\ UNCHANGED faults
           \/ /\ Fault
              /\ \E out \in OpenOutcome : attempts' = Move(a, "openFailed", out)
              /\ UNCHANGED open
        /\ Spawn("resume", a.id)
        /\ UNCHANGED <<state, transport_id, transition, conn, open_task, transitions,
                       reconnect_timer, ping_timer, connected_future, last_event,
                       tokenVars, ponging, calls>>

Resumes(a) == ready # <<>> /\ Head(ready) = [op |-> "resume", id |-> a.id]

\* The attempt resumes with an open transport: it becomes the connection and
\* the connect command is sent, or it is closed if the attempt is over.
OpenedResumes ==
    \E a \in attempts :
        /\ a.pc = "opened"
        /\ Resumes(a)
        /\ ready' = Tail(ready)
        /\ open_task' = IF open_task = a.id THEN 0 ELSE open_task
        /\ IF AttemptCurrent(a.id)
           THEN /\ conn' = a.id
                /\ attempts' = Without(a) \cup {[a EXCEPT !.pc = "reply", !.sent = token]}
                /\ UNCHANGED open
           ELSE /\ open' = open \ {a.id}
                /\ attempts' = Without(a)
                /\ UNCHANGED conn
        /\ UNCHANGED <<state, transport_id, transition, transitions, reconnect_timer,
                       ping_timer, connected_future, last_event,
                       tokenVars, ponging, calls, faults>>

\* The attempt resumes with a failed handshake.  An exception that
\* _connection_attempt() does not expect fails it in _handler_failed().
OpenFailedResumes ==
    \E a \in attempts :
        /\ a.pc = "openFailed"
        /\ Resumes(a)
        /\ ready' = Tail(ready)
        /\ IF a.out = "unexpected" /\ AttemptCurrent(a.id)
           THEN Teardown(Without(a), TRUE)
           ELSE /\ open_task' = IF open_task = a.id /\ a.out = "refused" THEN 0 ELSE open_task
                /\ attempts' = IF AttemptCurrent(a.id) THEN Move(a, "retryHandler", "none")
                               ELSE Without(a)
                /\ UNCHANGED <<state, transport_id, transition, conn, open, transitions,
                               reconnect_timer, ping_timer, connected_future, last_event>>
        /\ UNCHANGED <<tokenVars, ponging, calls, faults>>

\* The connect command's future is resolved: by the server's reply, or by the
\* command's timeout (the only way once the transport is closed).
ReplyArrives ==
    \E a \in attempts :
        /\ a.pc = "reply"
        /\ \/ /\ conn = a.id
              /\ attempts' = Move(a, "replied", "ok")
              /\ UNCHANGED faults
           \/ /\ conn = a.id
              /\ Fault
              /\ \E out \in ReplyOutcome \ {"ok"} :
                   /\ out = "expired" => a.sent # 0
                   /\ attempts' = Move(a, "replied", out)
           \/ /\ conn # a.id
              /\ attempts' = Move(a, "replied", "timeout")
              /\ UNCHANGED faults
        /\ Spawn("resume", a.id)
        /\ UNCHANGED <<state, transport_id, transition, conn, open_task, open, transitions,
                       reconnect_timer, ping_timer, connected_future, last_event,
                       tokenVars, ponging, calls>>

\* _connected(): the reply is applied and on_connected is called.  The ping
\* timer is left alone when the server announces no pings.
Connected(a) ==
    /\ refresh_required' = FALSE
    /\ state' = "connected"
    /\ ping_timer' \in {a.id, ping_timer}
    /\ connected_future' = [connected_future EXCEPT !.st = "result"]
    /\ last_event' = "connected"
    /\ attempts' = Move(a, "onConnected", "none")
    /\ UNCHANGED <<transport_id, transition, conn, open_task, open, transitions,
                   reconnect_timer, app, token, issued, rejected>>

\* The outcome is an error that is retried: on_error is called first.
ConnectErrorHandler(a) ==
    /\ attempts' = Move(a, "failHandler", "none")
    /\ IF a.out = "expired" /\ a.sent = token
       THEN /\ refresh_required' = TRUE
            /\ rejected' = rejected \cup {token}
            /\ UNCHANGED <<app, token, issued>>
       ELSE UNCHANGED tokenVars
    /\ UNCHANGED <<state, transport_id, transition, conn, open_task, open, transitions,
                   reconnect_timer, ping_timer, connected_future, last_event>>

\* The attempt resumes with the outcome of its connect command.
RepliedResumes ==
    \E a \in attempts :
        /\ a.pc = "replied"
        /\ Resumes(a)
        /\ ready' = Tail(ready)
        /\ \/ /\ ~AttemptCurrent(a.id)
              /\ attempts' = Without(a)
              /\ UNCHANGED <<state, transport_id, transition, conn, open_task, open,
                             transitions, reconnect_timer, ping_timer, connected_future,
                             last_event, tokenVars>>
           \/ /\ AttemptCurrent(a.id) /\ a.out = "ok"
              /\ Connected(a)
           \/ /\ AttemptCurrent(a.id) /\ a.out \in {"temporary", "expired", "timeout"}
              /\ ConnectErrorHandler(a)
           \/ /\ AttemptCurrent(a.id) /\ a.out = "permanent"
              /\ Teardown(Without(a), FALSE)
              /\ UNCHANGED tokenVars
           \/ /\ AttemptCurrent(a.id) /\ a.out = "malformed"
              /\ Teardown(Without(a), TRUE)
              /\ UNCHANGED tokenVars
        /\ UNCHANGED <<ponging, calls, faults>>

\* on_error of a failed connect command returned: _fail_connection_attempt().
FailHandlerReturns ==
    \E a \in attempts :
        /\ a.pc = "failHandler"
        /\ IF AttemptCurrent(a.id)
           THEN Teardown(Without(a), TRUE)
           ELSE /\ attempts' = Without(a)
                /\ UNCHANGED <<state, transport_id, transition, conn, open_task, open,
                               transitions, reconnect_timer, ping_timer, connected_future,
                               last_event>>
        /\ UNCHANGED <<tokenVars, ponging, ready, calls, faults>>

\* on_connected returned: _clear_connecting_state(), and the reply is
\* processed (the subscribes it starts are not part of this module).
ConnectedHandlerReturns ==
    \E a \in attempts :
        /\ a.pc = "onConnected"
        /\ attempts' = Without(a)
        /\ reconnect_timer' = (reconnect_timer /\ ~ConnectionCurrent(a.id))
        /\ UNCHANGED <<state, transport_id, transition, conn, open_task, open, transitions,
                       ping_timer, connected_future, last_event,
                       tokenVars, ponging, ready, calls, faults>>

-----------------------------------------------------------------------------
(* The established transport *)

\* The transport ends: closed by the peer or lost (found by the reader, or by
\* a command that cannot be sent), or a disconnect push.  The code decides
\* whether the client reconnects; 3014 also invalidates its state.
TransportEnds ==
    /\ conn # 0 /\ transport_id = conn
    /\ Fault
    /\ \/ /\ \E again \in BOOLEAN : Teardown(attempts, again)
          /\ UNCHANGED tokenVars
       \/ /\ Teardown(attempts, TRUE)
          /\ InvalidateToken
    /\ UNCHANGED <<ponging, ready, calls>>

\* A ping is handled.  Messages wait until the connect reply is processed.
\* Sending the pong may suspend the message task (a full write buffer, or a
\* send that fails and tears the connection down).
PingArrives ==
    /\ conn # 0 /\ transport_id = conn /\ state = "connected"
    /\ conn \notin ponging
    /\ \A a \in attempts : a.id # conn
    /\ \/ ping_timer' = conn /\ UNCHANGED ponging
       \/ ponging' = ponging \cup {conn} /\ UNCHANGED ping_timer
    /\ UNCHANGED <<state, transport_id, transition, conn, open_task, open, attempts,
                   transitions, reconnect_timer, connected_future, last_event,
                   tokenVars, ready, calls, faults>>

\* The pong is sent, or could not be: _handle_ping() goes on to
\* _restart_ping_wait() without looking at the connection again.
PongReturns ==
    \E c \in ponging :
        /\ ponging' = ponging \ {c}
        /\ ping_timer' = c
        /\ UNCHANGED <<state, transport_id, transition, conn, open_task, open, attempts,
                       transitions, reconnect_timer, connected_future, last_event,
                       tokenVars, ready, calls, faults>>

-----------------------------------------------------------------------------
(* Timers *)

ReconnectTimerFires ==
    /\ reconnect_timer
    /\ reconnect_timer' = FALSE
    /\ Spawn("reconnect", 0)
    /\ UNCHANGED <<state, transport_id, transition, conn, open_task, open, attempts,
                   transitions, ping_timer, connected_future, last_event,
                   tokenVars, ponging, calls, faults>>

PingTimerFires ==
    /\ ping_timer # 0
    /\ Fault
    /\ ping_timer' = 0
    /\ Spawn("noPing", ping_timer)
    /\ UNCHANGED <<state, transport_id, transition, conn, open_task, open, attempts,
                   transitions, reconnect_timer, connected_future, last_event,
                   tokenVars, ponging, calls>>

NoPing ==
    /\ ready # <<>> /\ Head(ready).op = "noPing"
    /\ ready' = Tail(ready)
    /\ IF state = "disconnected" THEN UNCHANGED clientVars ELSE Teardown(attempts, TRUE)
    /\ UNCHANGED <<tokenVars, ponging, calls, faults>>

-----------------------------------------------------------------------------
(* Specification *)

Init ==
    /\ app \in Apps
    /\ state = "disconnected"
    /\ transport_id = 0 /\ transition = 0
    /\ conn = 0 /\ open_task = 0 /\ open = {}
    /\ attempts = {} /\ transitions = {}
    /\ reconnect_timer = FALSE
    /\ ping_timer = 0 /\ ponging = {}
    /\ ready = <<>>
    /\ connected_future = [n |-> 0, st |-> "pending"]
    /\ token \in {0, 1} /\ issued = token
    /\ refresh_required = FALSE /\ rejected = {}
    /\ last_event = "none"
    /\ calls = MaxCalls /\ faults = MaxFaults

Application == Connect \/ Disconnect \/ SetToken \/ CancelConnect

Handlers == ConnectHandlerReturns \/ ClearingReturns \/ TeardownHandlerReturns
            \/ BadConfigHandlerReturns \/ RetryHandlerReturns \/ FailHandlerReturns
            \/ ConnectedHandlerReturns

GetToken == TokenReturns \/ TokenFails

ReadyTasks == StartAttempt \/ OpenedResumes \/ OpenFailedResumes \/ RepliedResumes \/ NoPing

Next ==
    \/ Application \/ Handlers \/ GetToken \/ ReadyTasks
    \/ HandshakeEnds \/ ReplyArrives \/ TransportEnds
    \/ PingArrives \/ PongReturns
    \/ ReconnectTimerFires \/ PingTimerFires

\* The event loop runs what is ready, a timer that is armed fires, handshakes
\* and commands end (they have timeouts), and the application's handlers and
\* get_token return.  Nothing makes the application call, the transport end or
\* a ping come or stay away.
Fairness ==
    /\ WF_vars(ReadyTasks) /\ WF_vars(ReconnectTimerFires)
    /\ WF_vars(HandshakeEnds) /\ WF_vars(ReplyArrives)
    /\ WF_vars(Handlers) /\ WF_vars(GetToken)

Spec == Init /\ [][Next]_vars /\ Fairness

-----------------------------------------------------------------------------
(* Properties *)

\* A transport is the latest attempt's, at most one handshake or connection is
\* in use at a time, and a connected client has the transport it is connected
\* over (the checks of _connection_attempt() and the closing in _disconnect()).
OneConnection ==
    /\ conn # 0 => conn = transport_id /\ conn \in open
    /\ open_task # 0 => open_task = transport_id
    /\ conn = 0 \/ open_task = 0
    /\ state = "connected" => conn # 0
    /\ state = "disconnected" => conn = 0 /\ open_task = 0

\* Every transport whose handshake completed is the connection, is about to be
\* seen by the attempt that opened it, or was closed: whatever disconnect() or
\* reconnect races the handshake, no socket is left open.
NoLeakedTransport ==
    \A c \in open \ {conn} : \E a \in attempts : a.id = c /\ a.pc = "opened"

\* ready() waits for the right thing: the future is resolved while connected
\* and pending while connecting, so that set_result() in _connected() never
\* meets a finished future; it is pending in disconnected only before any use.
FutureMatchesState ==
    /\ state = "connecting" => connected_future.st = "pending"
    /\ state = "connected" => connected_future.st = "result"
    /\ state = "disconnected" => connected_future.st # "result"

\* A client that is connecting has something that will take it further: the
\* armed timer, a started task, the attempt in progress, or the connect() or
\* teardown in progress ("must not be left connecting with nothing in
\* progress", _create_connection()).
ConnectingHasWork ==
    state = "connecting" =>
        \/ reconnect_timer
        \/ \E i \in 1..Len(ready) : ready[i].op \in {"create", "reconnect"}
        \/ \E a \in attempts : a.id = transport_id
        \/ \E t \in transitions : t.id = transition

\* An application that lets connect() finish, and what holds of it.
Patient == ~app.cancels
PatientHasWork == Patient => ConnectingHasWork

\* No reconnect is left behind: a disconnected client has no armed timer, and a
\* connected one only until on_connected returned (_clear_connecting_state()).
NoTimerLeftBehind ==
    reconnect_timer =>
        \/ state = "connecting"
        \/ state = "connected" /\ \E a \in attempts : a.id = conn /\ a.pc = "onConnected"

\* The application knows that the client stopped: once nothing is being emitted,
\* the last event of a disconnected client is on_disconnected, whichever teardowns
\* and connect() calls superseded each other from each other's handlers.
StopAnnounced ==
    (state = "disconnected" /\ \A t \in transitions : t.id # transition)
        => last_event \in {"none", "disconnected"}

\* A token the server rejected as expired is not sent again, whatever set_token()
\* calls, retries and invalidations come in between (_refresh_required).
NoRejectedTokenSent ==
    \A a \in attempts : a.pc = "reply" /\ a.id = conn => a.sent \notin rejected

\* An attempt that is over touches nothing any more, wherever it goes on from and
\* whether it ends there: it neither changes the client nor tears it down, and starts
\* no teardown, attempt or timer beside those of the one that replaced it.  (One that
\* waits for its reply is ended by the teardown that fails its command.)
StaleAttemptsAreInert ==
    [][\A a \in attempts :
         a.id # transport_id /\ a.pc # "reply" /\ a \notin attempts'
         => UNCHANGED <<state, transport_id, transition, conn, open_task, token, refresh_required,
                        reconnect_timer, ping_timer, transitions, connected_future,
                        last_event>>]_vars

\* The client implements its abstract specification: it takes the steps of
\* ConnectionStates only, and a promise somebody waits for is never replaced ...
Abstract == INSTANCE ConnectionStates WITH promise <- connected_future
ImplementsConnectionStates == Abstract!SafeSpec

\* ... and connecting ends once calls and faults stop, one way or the other.
ConnectingEnds == Patient => Abstract!Fairness

\* Subscriptions, pushes and commands tell connections apart by _transport_id
\* alone, and this is enough: it names one connection, which begins and ends
\* once, and a later one has another.
Link == INSTANCE Sessions
        WITH latest <- transport_id, session <- IF state = "connected" THEN conn ELSE 0
ImplementsSessions == Link!Spec

\* _disconnect(): "The transport is closed before any event, and nothing from
\* it is processed afterwards".  The ping timer belongs to the connection.
PingTimerOwned == ping_timer # 0 => state = "connected" /\ ping_timer = conn

\* _disconnect(): "a connection that is lost and going to reconnect moves to
\* connecting (with the reason)": the application was told.
ConnectingAnnounced ==
    (state = "connecting" /\ \A t \in transitions : t.id # transition)
        => last_event = "connecting"
=============================================================================
