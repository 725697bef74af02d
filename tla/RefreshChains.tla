------------------------------ MODULE RefreshChains ------------------------------
(***************************************************************************)
(* Token refreshes (src/centrifuge/client.py, _refresh(), _sub_refresh()): *)
(* the chain of a connection and the chain of a subscribed session, over   *)
(* the commands of module Commands, for an app with get_token callbacks.   *)
(*                                                                         *)
(* A chain is a timer, then a step (get_token, the refresh command, maybe  *)
(* on_error), then the next timer.  It belongs to the connection or the    *)
(* session it was started for, its owner; its steps are tasks that nothing *)
(* cancels.  One subscription stands for all; how it subscribes, and the   *)
(* command that unsubscribes it, are in SubscriptionFlow.                  *)
(***************************************************************************)
EXTENDS Commands

CONSTANT Chains   \* the chains there are: both, or one of them

ASSUME ChainsAssumption == Chains \subseteq {"client", "subscription"}

VARIABLES
    attempt,      \* Subscription._attempt
    subscribed,   \* Subscription.state is SUBSCRIBED
    timer,        \* _refresh_timer of the client and of the subscription: its owner, or 0
    expiring,     \* the owner whose token the server said expires, or 0
    steps         \* steps in progress

chainVars == <<attempt, subscribed, timer, expiring, steps>>
sessionVars == <<attempt, subscribed>>
vars == <<commandVars, chainVars>>

Step == [chain : Chains, owner : Nat, pc : {"start", "token", "waiting", "handler"}, id : Nat]

\* Types, and the fields that do not change independently.
TypeOK ==
    /\ CommandsTypeOK
    /\ attempt \in Nat /\ subscribed \in BOOLEAN /\ subscribed => connected
    /\ timer \in [Chains -> Nat] /\ expiring \in [Chains -> Nat]
    /\ steps \subseteq Step
    /\ \A s \in steps : s.pc = "waiting" <=> s.id # 0
    /\ \A s \in steps : s.id # 0 => s.id \in Id /\ cmds[s.id].kind = "refresh"

-----------------------------------------------------------------------------
(* Helpers *)

\* A step asks for whatever owner there is now.
FaultyCurrent(s) == IF s.chain = "client" THEN connected ELSE subscribed

\* _connection_current(connection); current() of _sub_refresh().
Current(s) == IF s.chain = "client" THEN ConnectionCurrent(s.owner)
              ELSE subscribed /\ attempt = s.owner

\* A refresh timer is set for its owner, in place of the one that may be set.
\* The other chains, and the sessions, are left alone.
Arm(chain, owner) ==
    timer' = [c \in Chains |-> IF c = chain THEN owner ELSE timer[c]]

Expires(chain, owner) ==
    expiring' = [c \in Chains |-> IF c = chain THEN owner ELSE expiring[c]]

\* The step is over.
Ends(s) == steps' = steps \ {s}
Continues(s, pc, id) == steps' = (steps \ {s}) \cup {[s EXCEPT !.pc = pc, !.id = id]}

\* The subscription stays subscribed without a connection.
FaultyDisconnects(ended) ==
    /\ Teardown(ended)
    /\ timer' = [c \in Chains |-> 0]
    /\ UNCHANGED <<sessionVars, expiring>>

\* A teardown of the connection: its timers are cancelled with it, and a subscribed
\* subscription moves to subscribing.
Disconnects(ended) ==
    /\ Teardown(ended)
    /\ subscribed' = FALSE
    /\ attempt' = IF subscribed THEN attempt + 1 ELSE attempt
    /\ timer' = [c \in Chains |-> 0]
    /\ UNCHANGED expiring

\* _move_unsubscribed() or _move_subscribing() of a subscribed subscription.
SessionEnds ==
    /\ subscribed' = FALSE /\ attempt' = attempt + 1
    /\ Arm("subscription", 0)
    /\ UNCHANGED expiring

\* The token of a step's owner is refused: the client disconnects, the subscription
\* unsubscribes.
GivesUpOwner(s, ended) ==
    /\ Ends(s)
    /\ UNCHANGED faults
    /\ \/ s.chain = "client" /\ Disconnects(ended)
       \/ /\ s.chain = "subscription" /\ SessionEnds
          /\ cmds' = [i \in Id |-> IF i \in ended THEN [cmds[i] EXCEPT !.pc = "over"] ELSE cmds[i]]
          /\ UNCHANGED <<linkVars, inflight, done, blocked, wireVars, pushes>>

-----------------------------------------------------------------------------
(* The connection and the subscription *)

\* _connected(): the reply may start the chain of the connection.
Connects ==
    \E i \in Id :
        /\ cmds[i].kind = "connect" /\ cmds[i].conn = conn
        /\ Applies(i)
        /\ connected' = TRUE
        /\ \/ Arm("client", conn) /\ Expires("client", conn)
           \/ UNCHANGED <<timer, expiring>>
        /\ UNCHANGED <<sessionVars, steps>>

\* _subscribe_attempt(): one flow at a time.
SubscribeStarts ==
    /\ connected /\ ~subscribed
    /\ \A i \in Id : cmds[i].kind = "subscribe" /\ cmds[i].conn = conn => cmds[i].pc = "over"
    /\ Issue("subscribe", "task", 0)
    /\ UNCHANGED <<faults, chainVars>>

\* _move_subscribed(): the reply may start the chain of the session.
Subscribes ==
    \E i \in Id :
        /\ cmds[i].kind = "subscribe" /\ ConnectionCurrent(cmds[i].conn)
        /\ Applies(i)
        /\ subscribed' = TRUE /\ attempt' = attempt + 1
        /\ \/ Arm("subscription", attempt + 1) /\ Expires("subscription", attempt + 1)
           \/ UNCHANGED <<timer, expiring>>
        /\ UNCHANGED <<connected, steps>>

\* unsubscribe() and subscribe(), or the server's unsubscribe push: the subscription
\* subscribes again over the same connection.
Resubscribes ==
    /\ subscribed /\ Fault
    /\ SessionEnds
    /\ UNCHANGED <<linkVars, futureVars, blocked, wireVars, pushes, steps>>

Loses == conn # 0 /\ Fault /\ Disconnects({}) /\ UNCHANGED steps

\* A connect or subscribe that timed out: the client reconnects.
GatedTimedOut ==
    /\ \E i \in Id :
        /\ Resumes(i) /\ cmds[i].kind \in Gated /\ cmds[i].future = "timeout"
        /\ cmds[i].conn = conn
        /\ Disconnects({i})
    /\ UNCHANGED <<steps, faults>>

-----------------------------------------------------------------------------
(* A step of a chain *)

\* The timer fires and spawns the step.
TimerFires ==
    /\ \E chain \in Chains :
        /\ timer[chain] # 0
        /\ steps' = steps \cup {[chain |-> chain, owner |-> timer[chain], pc |-> "start", id |-> 0]}
        /\ Arm(chain, 0)
    /\ UNCHANGED <<commandVars, sessionVars, expiring>>

\* The step calls get_token, if its owner is not over.
Begins ==
    /\ \E s \in steps :
        /\ s.pc = "start"
        /\ IF Current(s) THEN Continues(s, "token", 0) ELSE Ends(s)
    /\ UNCHANGED <<commandVars, sessionVars, timer, expiring>>

\* get_token returns a token, and the refresh command goes out; or no token, or raises
\* UnauthorizedError; or raises something else, and on_error is called.
TokenReturned(s) ==
    /\ s.pc = "token" /\ Current(s)
    /\ \/ /\ Issue("refresh", "task", 0)
          /\ Continues(s, "waiting", Len(cmds) + 1)
          /\ UNCHANGED <<faults, sessionVars, timer, expiring>>
       \/ Continues(s, "handler", 0) /\ UNCHANGED <<commandVars, sessionVars, timer, expiring>>
       \/ GivesUpOwner(s, {})

\* The owner of the step was over when get_token returned.
TokenLate(s) ==
    /\ s.pc = "token" /\ ~Current(s)
    /\ Ends(s)
    /\ UNCHANGED <<commandVars, sessionVars, timer, expiring>>

GotToken == \E s \in steps : TokenReturned(s) \/ TokenLate(s)

\* The refresh command is through: with an error, and on_error is called; with a token
\* that may expire again; or with a terminal error.
RefreshAnswered(s) ==
    /\ s.pc = "waiting" /\ Resumes(s.id) /\ Current(s)
    /\ \/ /\ \/ Continues(s, "handler", 0) /\ UNCHANGED <<timer, expiring>>
             \/ /\ cmds[s.id].future = "reply"
                /\ Ends(s)
                /\ \/ Arm(s.chain, s.owner) /\ UNCHANGED expiring
                   \/ Expires(s.chain, 0) /\ UNCHANGED timer
          /\ cmds' = [cmds EXCEPT ![s.id].pc = "over"]
          /\ UNCHANGED <<linkVars, inflight, done, blocked, wireVars, pushes, faults, sessionVars>>
       \/ cmds[s.id].future = "reply" /\ GivesUpOwner(s, {s.id})

\* The owner of the step was over when the refresh command was through.
RefreshLate(s) ==
    /\ s.pc = "waiting" /\ Resumes(s.id) /\ ~Current(s)
    /\ Ends(s)
    /\ cmds' = [cmds EXCEPT ![s.id].pc = "over"]
    /\ UNCHANGED <<linkVars, inflight, done, blocked, wireVars, pushes, faults, sessionVars,
                   timer, expiring>>

StepResumes == \E s \in steps : RefreshAnswered(s) \/ RefreshLate(s)

\* _schedule_refresh_retry(), _schedule_sub_refresh_retry() when on_error returns.
HandlerReturns ==
    /\ \E s \in steps :
        /\ s.pc = "handler"
        /\ Ends(s)
        /\ IF Current(s) THEN Arm(s.chain, s.owner) ELSE UNCHANGED timer
    /\ UNCHANGED <<commandVars, sessionVars, expiring>>

-----------------------------------------------------------------------------
(* Specification *)

Init ==
    /\ CommandsInit
    /\ attempt = 0 /\ subscribed = FALSE
    /\ timer = [c \in Chains |-> 0] /\ expiring = [c \in Chains |-> 0]
    /\ steps = {}

\* What does not concern the chains.
NotChains ==
    /\ OpenTransport \/ Callers \/ MessageTask \/ Interruptions \/ ServerAnswers \/ ServerPushes
    /\ UNCHANGED chainVars

Chain == TimerFires \/ Begins \/ GotToken \/ StepResumes \/ HandlerReturns

Next == NotChains \/ Connects \/ SubscribeStarts \/ Subscribes \/ Resubscribes \/ Loses
        \/ GatedTimedOut \/ Chain

\* Callers and the message task go on when they can, handlers return, the server
\* answers (TimesOut is when it does not in time), and the timer of a command that
\* a handler waits for fires (the timeout of the client is not 0).
Fairness ==
    /\ WF_vars(CallerResumes /\ UNCHANGED chainVars)
    /\ WF_vars(GatedGivesUp /\ UNCHANGED chainVars)
    /\ WF_vars(Applied /\ UNCHANGED chainVars)
    /\ WF_vars(MessageTask /\ UNCHANGED chainVars)
    /\ WF_vars(BlockedTimesOut /\ UNCHANGED chainVars)
    /\ WF_vars(ServerAnswers /\ UNCHANGED chainVars)
    /\ WF_vars(Connects) /\ WF_vars(Subscribes) /\ WF_vars(GatedTimedOut)
    /\ WF_vars(StepResumes)

Spec == Init /\ [][Next]_vars /\ Fairness

-----------------------------------------------------------------------------
(* Properties *)

\* While the token of the present connection (or subscribed session) expires, exactly
\* one timer or step of its chain is there, and no timer is left for an owner that is
\* over: a step of an earlier owner neither goes on beside the chain of the present
\* one nor replaces its timer, and no failure ends the chain (_refresh(),
\* _schedule_refresh_retry(): "a new step replaces the pending one").
OneChain ==
    \A chain \in Chains :
        LET owner == IF chain = "client" THEN (IF connected THEN conn ELSE 0)
                     ELSE (IF subscribed THEN attempt ELSE 0)
            mine == {s \in steps : s.chain = chain /\ s.owner = owner}
        IN  /\ timer[chain] \in {0, owner}
            /\ owner # 0 /\ expiring[chain] = owner =>
                 Cardinality(mine) + (IF timer[chain] = owner THEN 1 ELSE 0) = 1

\* What is behind a connect or subscribe reply waits until the reply is applied:
\* while a push is handled, no reply that came before it over the same connection is
\* still to be applied (_register_future_with_done(): "publications processed in order").
PushesWait ==
    \A b \in blocked, i \in Id :
        b.on = Push /\ cmds[i].kind \in Gated /\ cmds[i].conn = b.conn /\ cmds[i].future = "reply"
            => cmds[i].pc = "over"

\* A caller learns one outcome: no late reply, timeout or teardown changes the future
\* of a command that is done (_future_error(), _future_success(): "resolving it again
\* raises").
ResolvedOnce ==
    [][\A i \in Id : cmds[i].future # "pending" => cmds'[i].future = cmds[i].future]_vars

\* Every caller learns the outcome of its command, and no message task stays blocked: a
\* handler that calls the server gets an OperationTimeoutError, a lost connection opens
\* its gates (_clear_outgoing_futures(), _register_future_with_done()).
NobodyWaitsForever == <>[](blocked = {} /\ \A i \in Id : cmds[i].pc = "over")
=============================================================================
