---------------------------- MODULE SubscriptionFlow ----------------------------
(***************************************************************************)
(* One client-side Subscription (src/centrifuge/client.py): subscribe(),   *)
(* unsubscribe(), the subscribe flow (_subscribe() and what it calls), the *)
(* resubscribe timer and the pushes that unsubscribe it.                   *)
(*                                                                         *)
(* The connection is a sequence of sessions (module Sessions, which        *)
(* ClientLifecycle implements).  Commands go to the server in order and    *)
(* its messages come back in order; the server is external: what it does   *)
(* is taken from how the code uses it.  An action is what runs between two *)
(* awaits that can suspend; a subscribe flow is a record of `flows' with   *)
(* the place it is suspended at.  Tasks that are spawned may run in any    *)
(* order.  A handler that raises stops the client, which is LoseConnection.*)
(***************************************************************************)
EXTENDS Naturals, Sequences, FiniteSets

CONSTANTS
    Apps,            \* the applications there may be, see App
    MaxCalls,        \* calls of subscribe() and unsubscribe() that have an effect
    MaxFaults,       \* failures and silences of the connection, server and app
    MaxSessions      \* connections that are established

\* What the application gave to new_subscription(), and what it does: whether its
\* on_subscribed may wait for something, and its get_state raise CancelledError.
App == [get_token : BOOLEAN, get_state : BOOLEAN, slow : BOOLEAN, cancels : BOOLEAN]

ASSUME ConfigAssumption == Apps \subseteq App
ASSUME BoundsAssumption == MaxCalls \in Nat /\ MaxFaults \in Nat /\ MaxSessions \in Nat

VARIABLES
    app,                 \* the application, which stays the same
    transport_id,        \* Client._transport_id
    session,             \* the connection, or 0: Client.state is CONNECTED iff # 0
    announcing,          \* on_connected of the connection is running
    state,               \* Subscription.state
    attempt,             \* Subscription._attempt
    subscribed_future,   \* what ready() waits for: [n, st]
    resubscribe_timer,   \* whether the resubscribe timer is armed
    token,               \* whether the subscription has a token
    recover,             \* whether it has a position to recover from
    callers,             \* subscribe() calls suspended in on_subscribing
    starting,            \* _subscribe() tasks that have not run yet
    scheduling,          \* _schedule_resubscribe() tasks that have not run yet
    flows,               \* subscribe flows that are suspended
    moving,              \* _move_subscribing() calls suspended in on_subscribing
    commands, messages,  \* on the way to the server and back, over the connection
    held,                \* whether the server holds the subscription
    refused,             \* an unsubscribe of this connection: "no", "sent", "seen"
    calls, faults        \* what is left of the bounds

linkVars == <<app, transport_id, session, announcing>>
subVars == <<state, attempt, subscribed_future, resubscribe_timer>>
dataVars == <<token, recover>>
taskVars == <<callers, starting, scheduling>>
wireVars == <<commands, messages, held, refused>>
vars == <<linkVars, subVars, dataVars, taskVars, flows, moving, wireVars, calls, faults>>

Link == INSTANCE Sessions WITH latest <- transport_id

-----------------------------------------------------------------------------
(* Types *)

SubscriptionState == {"unsubscribed", "subscribing", "subscribed"}

FlowPc == {"getState", "stateHandler", "token", "tokenHandler", "reply", "replied",
           "timeoutHandler", "errorHandler", "expiredHandler", "subscribedHandler"}

SubscribeError == {"temporary", "expired", "permanent", "unrecoverable"}
Outcome == {"none", "ok", "timeout"} \cup SubscribeError

Flow == [conn : Nat \ {0}, attempt : Nat \ {0}, pc : FlowPc, out : Outcome]
Command == [op : {"subscribe", "unsubscribe"}, attempt : Nat]
Message == [op : {"subscribe", "unsubscribe", "push"}, attempt : Nat,
            out : Outcome \cup {"refused", "terminal", "again", "invalidated"}]

TypeOK ==
    /\ app \in App
    /\ transport_id \in Nat \ {0} /\ session \in {0, transport_id} /\ announcing \in BOOLEAN
    /\ state \in SubscriptionState /\ attempt \in Nat
    /\ subscribed_future \in [n : Nat, st : {"pending", "result", "exception"}]
    /\ resubscribe_timer \in BOOLEAN /\ token \in BOOLEAN /\ recover \in BOOLEAN
    /\ callers \in Nat /\ starting \in Nat /\ scheduling \in Nat
    /\ flows \subseteq Flow
    /\ moving \subseteq [conn : Nat \ {0}, attempt : Nat]
    /\ commands \in Seq(Command) /\ messages \in Seq(Message)
    /\ held \in BOOLEAN /\ refused \in {"no", "sent", "seen"}
    /\ calls \in Nat /\ faults \in Nat

-----------------------------------------------------------------------------
(***************************************************************************)
(* Helpers.  A definition named Faulty... is not part of the model: it is  *)
(* what the next definition would be with a plausible bug, and the mutants *)
(* of PROJECT.json show which property finds that bug.                     *)
(***************************************************************************)

Call == calls > 0 /\ calls' = calls - 1
Fault == faults > 0 /\ faults' = faults - 1

Done(f) == f.st # "pending"

\* Kept when finished; replaced while somebody waits; a cancelled one kept.
FaultyKeptFuture(f) == f
FaultyNewFuture(f) == [n |-> f.n + 1, st |-> "pending"]
FaultyCancelledFuture(f) == IF Done(f) THEN [f EXCEPT !.st = "cancelled"] ELSE f
FreshFuture(f) == IF Done(f) THEN [n |-> f.n + 1, st |-> "pending"] ELSE f

\* The attempt, or the connection, is not compared.
FaultyCurrentAttempt(f) == state = "subscribing" /\ session = f.conn
FaultyCurrentConnection(f) == attempt = f.attempt /\ state = "subscribing"

\* current() of _subscribe_attempt().
Current(f) == attempt = f.attempt /\ state = "subscribing" /\ session = f.conn

\* _inflight is the flow in progress for this connection and attempt.  The
\* attempt number of a flow is its own, so that is whether such a flow exists.
FaultyInFlight == FALSE
InFlight == \E f \in flows : f.conn = transport_id /\ f.attempt = attempt

At(f, pc, out) == (flows \ {f}) \cup {[f EXCEPT !.pc = pc, !.out = out]}
Ends(f) == flows' = flows \ {f}

Send(op, i) == commands' = Append(commands, [op |-> op, attempt |-> i])
Deliver(op, i, out) ==
    messages' = Append(messages, [op |-> op, attempt |-> i, out |-> out])

\* Whatever the state; or the old timer is cancelled and no new one armed.
FaultyScheduleAlways == resubscribe_timer' = TRUE
FaultyScheduleNever == resubscribe_timer' = (resubscribe_timer /\ state # "subscribing")

\* _schedule_resubscribe()
ScheduleResubscribe == resubscribe_timer' = (resubscribe_timer \/ state = "subscribing")

\* _enter_subscribing() of a subscribed subscription.
EnterSubscribing ==
    /\ state' = "subscribing"
    /\ attempt' = attempt + 1
    /\ subscribed_future' = FreshFuture(subscribed_future)
    /\ UNCHANGED resubscribe_timer

\* _move_unsubscribed() up to the command it may send.
MoveUnsubscribed ==
    /\ state' = "unsubscribed"
    /\ attempt' = attempt + 1
    /\ subscribed_future' = [FreshFuture(subscribed_future) EXCEPT !.st = "exception"]
    /\ resubscribe_timer' = (resubscribe_timer /\ state # "subscribing")

\* What a teardown of the connection does to the subscription: pending commands
\* fail, and _clear_connected_state() moves it to subscribing.  The server drops
\* what it held, and nothing more comes from the old connection.
CloseConnection(rest) ==
    /\ Link!Close
    /\ announcing' = FALSE /\ UNCHANGED app
    /\ commands' = <<>> /\ messages' = <<>> /\ held' = FALSE /\ refused' = "no"
    /\ flows' = {f \in rest : f.pc # "reply"}
    /\ IF state = "subscribed" THEN EnterSubscribing ELSE UNCHANGED subVars

Invalidate == token' = (token /\ ~app.get_token) /\ UNCHANGED recover

-----------------------------------------------------------------------------
(* Calls of the application *)

Subscribe ==
    /\ state = "unsubscribed"
    /\ Call
    /\ state' = "subscribing"
    /\ subscribed_future' = FreshFuture(subscribed_future)
    /\ callers' = callers + 1
    /\ UNCHANGED <<linkVars, attempt, resubscribe_timer, dataVars, starting, scheduling, flows,
                   moving, wireVars, faults>>

\* on_subscribing of subscribe() returned.
SubscribeHandlerReturns ==
    /\ callers > 0
    /\ callers' = callers - 1
    /\ starting' = IF state = "subscribing" THEN starting + 1 ELSE starting
    /\ UNCHANGED <<linkVars, subVars, dataVars, scheduling, flows, moving, wireVars, calls, faults>>

\* _unsubscribe(): the command goes to the server when the client is connected,
\* also when the subscribe is still in progress.
FaultyTellsServer == session # 0 /\ state = "subscribed"
TellsServer == session # 0

Unsubscribe ==
    /\ state # "unsubscribed"
    /\ Call
    /\ MoveUnsubscribed
    /\ IF TellsServer THEN Send("unsubscribe", 0) ELSE UNCHANGED commands
    /\ UNCHANGED <<linkVars, dataVars, taskVars, flows, moving, messages, held, refused, faults>>

-----------------------------------------------------------------------------
(* The connection *)

\* _connected() up to on_connected.
Connected ==
    /\ transport_id <= MaxSessions
    /\ Link!Open
    /\ announcing' = TRUE /\ UNCHANGED app
    /\ UNCHANGED <<subVars, dataVars, taskVars, flows, moving, wireVars, calls, faults>>

\* on_connected returned: the subscribe that starts now replaces a retry.
ConnectedHandlerReturns ==
    /\ announcing
    /\ announcing' = FALSE
    /\ IF state = "subscribing"
       THEN resubscribe_timer' = FALSE /\ starting' = starting + 1
       ELSE UNCHANGED <<resubscribe_timer, starting>>
    /\ UNCHANGED <<app, transport_id, session, state, attempt, subscribed_future, dataVars,
                   callers, scheduling, flows, moving, wireVars, calls, faults>>

\* The connection is lost or closed; with 3014 the subscription is invalidated.
LoseConnection ==
    /\ Fault
    /\ CloseConnection(flows)
    /\ Invalidate \/ UNCHANGED dataVars
    /\ UNCHANGED <<taskVars, moving, calls>>

-----------------------------------------------------------------------------
(* A subscribe flow *)

\* Go on to the token, or send the subscribe command.
Proceed(others, f) ==
    IF app.get_token /\ ~token
    THEN flows' = others \cup {[f EXCEPT !.pc = "token"]} /\ UNCHANGED commands
    ELSE flows' = others \cup {[f EXCEPT !.pc = "reply"]} /\ Send("subscribe", f.attempt)

NewFlow == [conn |-> transport_id, attempt |-> attempt + 1, pc |-> "getState", out |-> "none"]

\* A _subscribe() task runs: at most one flow per connection.
StartFlow ==
    /\ starting > 0
    /\ starting' = starting - 1
    /\ IF session = 0 \/ state # "subscribing" \/ InFlight
       THEN UNCHANGED <<attempt, flows, commands>>
       ELSE /\ attempt' = attempt + 1
            /\ IF app.get_state /\ ~recover
               THEN flows' = flows \cup {NewFlow} /\ UNCHANGED commands
               ELSE Proceed(flows, NewFlow)
    /\ UNCHANGED <<linkVars, state, subscribed_future, resubscribe_timer, dataVars, callers,
                   scheduling, moving, messages, held, refused, calls, faults>>

\* get_state returned.  The position of an attempt that is over is not used;
\* that of one whose connection is lost is kept.
GetStateReturns ==
    \E f \in flows :
        /\ f.pc = "getState"
        /\ recover' = (recover \/ (attempt = f.attempt /\ state = "subscribing"))
        /\ IF Current(f)
           THEN Proceed(flows \ {f}, f)
           ELSE Ends(f) /\ UNCHANGED commands
        /\ UNCHANGED <<linkVars, subVars, token, taskVars, moving, messages, held, refused,
                       calls, faults>>

\* get_state raised: on_error is called, unless the attempt is over.
GetStateFails ==
    \E f \in flows :
        /\ f.pc = "getState"
        /\ Fault
        /\ IF Current(f) THEN flows' = At(f, "stateHandler", "none") ELSE Ends(f)
        /\ UNCHANGED <<linkVars, subVars, dataVars, taskVars, moving, wireVars, calls>>

\* get_state raised CancelledError, which no except clause of the flow catches.
GetStateCancelled ==
    \E f \in flows :
        /\ app.cancels
        /\ f.pc = "getState"
        /\ Fault
        /\ Ends(f)
        /\ UNCHANGED <<linkVars, subVars, dataVars, taskVars, moving, wireVars, calls>>

StateHandlerReturns ==
    \E f \in flows :
        /\ f.pc = "stateHandler"
        /\ Ends(f)
        /\ scheduling' = scheduling + 1
        /\ UNCHANGED <<linkVars, subVars, dataVars, callers, starting, moving, wireVars,
                       calls, faults>>

Schedule ==
    /\ scheduling > 0
    /\ scheduling' = scheduling - 1
    /\ ScheduleResubscribe
    /\ UNCHANGED <<linkVars, state, attempt, subscribed_future, dataVars, callers, starting,
                   flows, moving, wireVars, calls, faults>>

TokenReturns ==
    \E f \in flows :
        /\ f.pc = "token"
        /\ IF Current(f)
           THEN /\ token' = TRUE
                /\ flows' = At(f, "reply", "none")
                /\ Send("subscribe", f.attempt)
           ELSE Ends(f) /\ UNCHANGED <<token, commands>>
        /\ UNCHANGED <<linkVars, subVars, recover, taskVars, moving, messages, held, refused,
                       calls, faults>>

\* get_token failed: without permission (or token) the subscription ends.
TokenFails ==
    \E f \in flows :
        /\ f.pc = "token"
        /\ Fault
        /\ \/ ~Current(f) /\ Ends(f) /\ UNCHANGED subVars
           \/ Current(f) /\ Ends(f) /\ MoveUnsubscribed
           \/ Current(f) /\ flows' = At(f, "tokenHandler", "none") /\ UNCHANGED subVars
        /\ UNCHANGED <<linkVars, dataVars, taskVars, moving, wireVars, calls>>

TokenHandlerReturns ==
    \E f \in flows :
        /\ f.pc = "tokenHandler"
        /\ Ends(f)
        /\ IF Current(f) THEN ScheduleResubscribe ELSE UNCHANGED resubscribe_timer
        /\ UNCHANGED <<linkVars, state, attempt, subscribed_future, dataVars, taskVars, moving,
                       wireVars, calls, faults>>

\* The future of the command times out.
ReplyTimesOut ==
    \E f \in flows :
        /\ f.pc = "reply"
        /\ Fault
        /\ flows' = At(f, "replied", "timeout")
        /\ UNCHANGED <<linkVars, subVars, dataVars, taskVars, moving, wireVars, calls>>

\* _move_subscribed(): a new session starts, then on_subscribed is called.
MoveSubscribed(f) ==
    /\ state' = "subscribed"
    /\ attempt' = attempt + 1
    /\ subscribed_future' = [subscribed_future EXCEPT !.st = "result"]
    /\ \E recoverable \in BOOLEAN : recover' = (recover \/ recoverable)
    /\ IF app.slow
       THEN flows' = At(f, "subscribedHandler", "ok") /\ UNCHANGED resubscribe_timer
       ELSE Ends(f) /\ resubscribe_timer' = FALSE
    /\ UNCHANGED token

\* An error that goes to on_error first; an expired token is dropped before.
ErrorHandler(f) ==
    /\ f.out \in {"temporary", "expired"}
    /\ flows' = At(f, IF f.out = "expired" /\ ~app.get_token THEN "expiredHandler"
                      ELSE "errorHandler", f.out)
    /\ token' = (token /\ ~(f.out = "expired" /\ app.get_token))
    /\ UNCHANGED <<subVars, recover>>

\* The position cannot be recovered from: get_state is called again.
ResetPosition(f) ==
    /\ f.out = "unrecoverable"
    /\ recover' = FALSE
    /\ ScheduleResubscribe
    /\ Ends(f)
    /\ UNCHANGED <<state, attempt, subscribed_future, token>>

\* The flow resumes with the outcome of its command.
RepliedResumes ==
    \E f \in flows :
        /\ f.pc = "replied"
        /\ \/ ~Current(f) /\ Ends(f) /\ UNCHANGED <<subVars, dataVars>>
           \/ Current(f) /\ f.out = "ok" /\ MoveSubscribed(f)
           \/ Current(f) /\ ErrorHandler(f)
           \/ Current(f) /\ ResetPosition(f)
           \/ Current(f) /\ f.out = "permanent" /\ MoveUnsubscribed /\ Ends(f) /\ UNCHANGED dataVars
           \/ /\ Current(f) /\ f.out = "timeout"
              /\ flows' = At(f, "timeoutHandler", f.out)
              /\ UNCHANGED <<subVars, dataVars>>
        /\ UNCHANGED <<linkVars, taskVars, moving, wireVars, calls, faults>>

\* The server may have subscribed without an answer: the client reconnects.
TimeoutHandlerReturns ==
    \E f \in flows :
        /\ f.pc = "timeoutHandler"
        /\ IF Current(f)
           THEN CloseConnection(flows \ {f})
           ELSE Ends(f) /\ UNCHANGED <<linkVars, subVars, wireVars>>
        /\ UNCHANGED <<dataVars, taskVars, moving, calls, faults>>

ErrorHandlerReturns ==
    \E f \in flows :
        /\ f.pc = "errorHandler"
        /\ Ends(f)
        /\ ScheduleResubscribe
        /\ UNCHANGED <<linkVars, state, attempt, subscribed_future, dataVars, taskVars, moving,
                       wireVars, calls, faults>>

ExpiredHandlerReturns ==
    \E f \in flows :
        /\ f.pc = "expiredHandler"
        /\ Ends(f)
        /\ IF Current(f) THEN MoveUnsubscribed ELSE UNCHANGED subVars
        /\ UNCHANGED <<linkVars, dataVars, taskVars, moving, wireVars, calls, faults>>

\* on_subscribed returned: _clear_subscribing_state(), whatever happened meanwhile.
SubscribedHandlerReturns ==
    \E f \in flows :
        /\ f.pc = "subscribedHandler"
        /\ Ends(f)
        /\ resubscribe_timer' = FALSE
        /\ UNCHANGED <<linkVars, state, attempt, subscribed_future, dataVars, taskVars, moving,
                       wireVars, calls, faults>>

ResubscribeTimerFires ==
    /\ resubscribe_timer
    /\ resubscribe_timer' = FALSE
    /\ starting' = IF state = "subscribing" THEN starting + 1 ELSE starting
    /\ UNCHANGED <<linkVars, state, attempt, subscribed_future, dataVars, callers, scheduling,
                   flows, moving, wireVars, calls, faults>>

-----------------------------------------------------------------------------
(* Messages of the server.  The next one is processed when the flow whose   *)
(* reply came before, or the handler of a push, is through.                 *)

Busy ==
    \/ announcing
    \/ \E m \in moving : m.conn = session
    \/ \E f \in flows :
         /\ f.conn = session /\ f.out # "timeout"
         /\ f.pc \in {"replied", "errorHandler", "expiredHandler", "subscribedHandler"}

Receives(op) ==
    /\ session # 0 /\ messages # <<>> /\ ~Busy
    /\ Head(messages).op = op
    /\ messages' = Tail(messages)

\* A reply nobody waits for any more is dropped.
ReplyArrives ==
    /\ Receives("subscribe")
    /\ LET waiting == {f \in flows : f.pc = "reply" /\ f.attempt = Head(messages).attempt} IN
       flows' = (flows \ waiting)
                \cup {[f EXCEPT !.pc = "replied", !.out = Head(messages).out] : f \in waiting}
    /\ UNCHANGED <<linkVars, subVars, dataVars, taskVars, moving, commands, held, refused,
                   calls, faults>>

UnsubscribeReplyArrives ==
    /\ Receives("unsubscribe")
    /\ refused' = IF Head(messages).out = "refused" THEN "seen" ELSE refused
    /\ UNCHANGED <<linkVars, subVars, dataVars, taskVars, flows, moving, commands, held,
                   calls, faults>>

\* _process_unsubscribe(): only for a subscribed subscription.
PushArrives ==
    /\ Receives("push")
    /\ IF state # "subscribed"
       THEN UNCHANGED <<subVars, dataVars, moving>>
       ELSE IF Head(messages).out = "terminal"
       THEN MoveUnsubscribed /\ UNCHANGED <<dataVars, moving>>
       ELSE /\ EnterSubscribing
            /\ moving' = moving \cup {[conn |-> session, attempt |-> attempt + 1]}
            /\ IF Head(messages).out = "invalidated" THEN Invalidate ELSE UNCHANGED dataVars
    /\ UNCHANGED <<linkVars, taskVars, flows, commands, held, refused, calls, faults>>

\* on_subscribing of _move_subscribing() returned.
MoveHandlerReturns ==
    \E m \in moving :
        /\ moving' = moving \ {m}
        /\ starting' = IF attempt = m.attempt THEN starting + 1 ELSE starting
        /\ UNCHANGED <<linkVars, subVars, dataVars, callers, scheduling, flows, wireVars,
                       calls, faults>>

\* An unsubscribe that the server refused, or did not answer: reconnect.
UnsubscribeFails ==
    /\ \/ refused = "seen" /\ UNCHANGED faults
       \/ /\ Fault
          /\ \/ \E i \in 1..Len(commands) : commands[i].op = "unsubscribe"
             \/ \E i \in 1..Len(messages) : messages[i].op = "unsubscribe"
    /\ CloseConnection(flows)
    /\ UNCHANGED <<dataVars, taskVars, moving, calls>>

-----------------------------------------------------------------------------
(* The server (external) *)

ServerHandles(op) ==
    /\ commands # <<>> /\ Head(commands).op = op
    /\ commands' = Tail(commands)
    /\ UNCHANGED <<linkVars, subVars, dataVars, taskVars, flows, moving, calls>>

\* It denies a second subscribe, and may fail any.
ServerSubscribes ==
    /\ ServerHandles("subscribe")
    /\ \/ /\ Deliver("subscribe", Head(commands).attempt, IF held THEN "permanent" ELSE "ok")
          /\ held' = TRUE
          /\ UNCHANGED faults
       \/ /\ ~held /\ UNCHANGED held
          /\ Fault
          /\ \E out \in SubscribeError :
               /\ out = "expired" => app.get_token \/ token
               /\ out = "unrecoverable" => app.get_state
               /\ Deliver("subscribe", Head(commands).attempt, out)
    /\ UNCHANGED refused

ServerUnsubscribes ==
    /\ ServerHandles("unsubscribe")
    /\ \/ /\ Deliver("unsubscribe", 0, "ok")
          /\ held' = FALSE
          /\ UNCHANGED <<refused, faults>>
       \/ /\ Deliver("unsubscribe", 0, "refused")
          /\ Fault
          /\ refused' = IF refused = "no" THEN "sent" ELSE refused
          /\ UNCHANGED held

\* It unsubscribes the client: for good, to subscribe again, or to get a new token.
ServerPushes ==
    /\ held /\ held' = FALSE
    /\ Fault
    /\ \E out \in {"terminal", "again", "invalidated"} : Deliver("push", 0, out)
    /\ UNCHANGED <<linkVars, subVars, dataVars, taskVars, flows, moving, commands, refused, calls>>

-----------------------------------------------------------------------------
(* Specification *)

Init ==
    /\ app \in Apps
    /\ transport_id = 1 /\ session = 0 /\ announcing = FALSE
    /\ state = "unsubscribed" /\ attempt = 0
    /\ subscribed_future = [n |-> 0, st |-> "pending"]
    /\ resubscribe_timer = FALSE
    /\ token \in BOOLEAN /\ recover = FALSE
    /\ callers = 0 /\ starting = 0 /\ scheduling = 0
    /\ flows = {} /\ moving = {}
    /\ commands = <<>> /\ messages = <<>> /\ held = FALSE /\ refused = "no"
    /\ calls = MaxCalls /\ faults = MaxFaults

Application == Subscribe \/ Unsubscribe

Handlers ==
    \/ SubscribeHandlerReturns \/ ConnectedHandlerReturns \/ StateHandlerReturns
    \/ TokenHandlerReturns \/ TimeoutHandlerReturns \/ ErrorHandlerReturns
    \/ ExpiredHandlerReturns \/ SubscribedHandlerReturns \/ MoveHandlerReturns

Answers == GetStateReturns \/ GetStateFails \/ GetStateCancelled \/ TokenReturns \/ TokenFails

Tasks == StartFlow \/ Schedule \/ RepliedResumes \/ UnsubscribeFails

Wire == ReplyArrives \/ UnsubscribeReplyArrives \/ PushArrives

Server == ServerSubscribes \/ ServerUnsubscribes

Next ==
    \/ Application \/ Handlers \/ Answers \/ Tasks \/ Wire \/ Server
    \/ Connected \/ LoseConnection \/ ReplyTimesOut \/ ResubscribeTimerFires \/ ServerPushes

\* Handlers, get_token and get_state return, tasks run, an armed timer fires, and
\* commands and messages of a connection that stays up arrive.
Fairness ==
    /\ WF_vars(Handlers) /\ WF_vars(Answers) /\ WF_vars(Tasks)
    /\ WF_vars(Wire) /\ WF_vars(Server) /\ WF_vars(ResubscribeTimerFires)

Spec == Init /\ [][Next]_vars /\ Fairness

-----------------------------------------------------------------------------
(* Properties *)

\* A subscription is subscribed only over the connection there is, and the server
\* holds it, or a push that says otherwise is on the way: no reply to an attempt
\* that is over (before unsubscribe(), or of an old connection) is applied.
SubscribedIsHeld ==
    state = "subscribed" =>
        /\ session # 0
        /\ held \/ \E i \in 1..Len(messages) : messages[i].op = "push"

\* The server is never asked to subscribe while it holds the subscription ("the
\* server would answer the second subscribe already subscribed"): between two
\* subscribes on a connection there is an unsubscribe, unless it was refused.
NoSecondSubscribe ==
    refused = "no" =>
        \A j \in 1..Len(commands) : commands[j].op = "subscribe" =>
            \/ \E i \in 1..(j - 1) : commands[i].op = "unsubscribe"
            \/ ~held /\ \A i \in 1..(j - 1) : commands[i].op # "subscribe"

\* The server keeps nothing the application unsubscribed from: once every command
\* and message arrived, it does not hold an unsubscribed subscription.
NothingLeftOnServer ==
    (state = "unsubscribed" /\ commands = <<>> /\ messages = <<>> /\ refused = "no") => ~held

\* What ready() waits for is pending exactly while subscribing, and resolved while
\* subscribed: _move_subscribed() never resolves it twice.
FutureMatchesState ==
    /\ state = "subscribing" => subscribed_future.st = "pending"
    /\ state = "subscribed" => subscribed_future.st = "result"
    /\ state = "unsubscribed" => subscribed_future.st # "result"

\* While connected, a subscribing subscription has what takes it further: "the
\* subscription must not be left subscribing with nothing in progress".
SubscribingHasWork ==
    (state = "subscribing" /\ session # 0) =>
        \/ resubscribe_timer \/ announcing
        \/ callers > 0 \/ starting > 0 \/ scheduling > 0
        \/ InFlight
        \/ \E m \in moving : m.attempt = attempt

\* An application whose on_subscribed does not wait and whose get_state is not
\* cancelled.
Prompt == ~app.slow /\ ~app.cancels

\* The same where the two findings do not apply.
PromptHasWork == Prompt => SubscribingHasWork

\* No retry is left behind: the timer is armed while subscribing, or until the
\* on_subscribed that disarms it returned.
NoTimerLeftBehind ==
    resubscribe_timer =>
        state = "subscribing" \/ \E f \in flows : f.pc = "subscribedHandler"

\* Sessions, seen from the application, are the same as for the connection.
Phase == [unsubscribed |-> "disconnected", subscribing |-> "connecting", subscribed |-> "connected"]
Abstract == INSTANCE ConnectionStates WITH state <- Phase[state], promise <- subscribed_future
ImplementsPromise == Abstract!SafeSpec

\* Over a connection that stays, and when calls and faults are over, subscribing
\* ends: the retries, the timeout and the tokens lead somewhere.
Settles == Prompt /\ <>[](session # 0) => <>[](state # "subscribing")
=============================================================================
