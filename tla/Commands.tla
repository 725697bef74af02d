-------------------------------- MODULE Commands --------------------------------
(***************************************************************************)
(* Commands and their futures, and the task that processes what the server *)
(* sends (src/centrifuge/client.py): _inflight_commands, timeouts,         *)
(* cancelled callers, and the gate that keeps what comes after a connect   *)
(* or subscribe reply back until the reply is applied.  RefreshChains adds *)
(* who subscribes and refreshes, and the specification.                    *)
(*                                                                         *)
(* The id of a command is its index in `cmds'.  A caller is a coroutine    *)
(* that awaits the future of its command: a task, a handler that a push is *)
(* waiting for, or what applies a gated reply (which calls handlers, too). *)
(* What it asks for is left out.  The message task of a connection that is *)
(* over is not cancelled: it may be blocked in a handler for long.         *)
(* The server is external: it answers in order, late or not at all.        *)
(***************************************************************************)
EXTENDS Naturals, Sequences, FiniteSets

CONSTANTS
    MaxCommands,   \* commands
    MaxPushes,     \* pushes the server sends
    MaxFaults      \* lost connections, late answers, cancelled callers

ASSUME CommandBounds == {MaxCommands, MaxPushes, MaxFaults} \subseteq Nat

VARIABLES
    transport_id,        \* Client._transport_id
    conn,                \* the transport there is (Client._conn), or 0
    connected,           \* Client.state is CONNECTED
    cmds,                \* the commands given an id so far
    inflight,            \* Client._inflight_commands
    done,                \* the gated commands whose `done' future has a result
    blocked,             \* what a message task waits for: [conn, on]
    commands, messages,  \* on the way to the server and back, over the transport
    pushes, faults       \* what is left of the bounds

linkVars == <<transport_id, conn, connected>>
futureVars == <<cmds, inflight, done>>
wireVars == <<commands, messages>>
commandVars == <<linkVars, futureVars, blocked, wireVars, pushes, faults>>

-----------------------------------------------------------------------------
(* Types *)

Gated == {"connect", "subscribe"}
Kind == Gated \cup {"rpc", "refresh"}
Result == {"reply", "timeout", "disconnected", "cancelled"}

\* A caller runs in a task, in the handler of a push of connection `host', or in
\* what applies the reply to command `host'.  Its command went out over `conn'.
Cmd == [kind : Kind, place : {"task", "push", "gate"}, host : Nat, conn : Nat,
        future : {"pending"} \cup Result, pc : {"waiting", "applying", "over"}]

Push == 0
Id == 1..Len(cmds)

CommandsTypeOK ==
    /\ transport_id \in Nat /\ conn \in {0, transport_id} /\ connected \in BOOLEAN
    /\ connected => conn # 0
    /\ cmds \in Seq(Cmd) /\ inflight \subseteq Id /\ done \subseteq Id
    /\ blocked \subseteq [conn : Nat \ {0}, on : Nat]
    /\ commands \in Seq(Id) /\ messages \in Seq(Id \cup {Push})
    /\ pushes \in Nat /\ faults \in Nat

-----------------------------------------------------------------------------
(***************************************************************************)
(* Helpers.  A definition named Faulty... is not part of the model: it is  *)
(* what the next definition would be with a plausible bug, and the mutants *)
(* of PROJECT.json show which property finds that bug.                     *)
(***************************************************************************)

Fault == faults > 0 /\ faults' = faults - 1

\* Any connection will do.
FaultyConnectionCurrent(c) == connected

\* _connection_current()
ConnectionCurrent(c) == connected /\ conn = c

\* A future that is done is resolved again (asyncio raises).
FaultySettle(c, result) == [c EXCEPT !.future = result]

\* Only a future that is not done is resolved.
Settle(c, result) == IF c.future = "pending" THEN [c EXCEPT !.future = result] ELSE c

\* The caller is left waiting for a reply that will not come.
FaultyFailed(ids, result) == cmds

\* _future_error() of each of `ids'.
Failed(ids, result) == [i \in Id |-> IF i \in ids THEN Settle(cmds[i], result) ELSE cmds[i]]

\* The gates a failed command opens.
Opened(ids) == {i \in ids : cmds[i].kind \in Gated}

\* _register_future(); without a transport _send_commands() fails the command.
NewCmd(kind, place, host) ==
    [kind |-> kind, place |-> place, host |-> host, conn |-> conn,
     future |-> IF conn = 0 THEN "disconnected" ELSE "pending", pc |-> "waiting"]

Issue(kind, place, host) ==
    /\ Len(cmds) < MaxCommands
    /\ cmds' = Append(cmds, NewCmd(kind, place, host))
    /\ IF conn # 0
       THEN /\ inflight' = inflight \cup {Len(cmds) + 1}
            /\ commands' = Append(commands, Len(cmds) + 1)
       ELSE UNCHANGED <<inflight, commands>>
    /\ UNCHANGED <<linkVars, done, blocked, messages, pushes>>

\* _disconnect(): the transport is gone and every pending command fails.  The
\* callers in `ended' are what tears it down.
Teardown(ended) ==
    /\ transport_id' = transport_id + 1 /\ conn' = 0 /\ connected' = FALSE
    /\ cmds' = [i \in Id |-> IF i \in ended THEN [cmds[i] EXCEPT !.pc = "over"]
                             ELSE Failed(inflight, "disconnected")[i]]
    /\ done' = done \cup Opened(inflight \cup ended)
    /\ inflight' = {}
    /\ commands' = <<>> /\ messages' = <<>>
    /\ UNCHANGED <<blocked, pushes>>

\* No caller inside the handler of a push, or inside what applies a reply, waits.
Through(place, host) ==
    \A i \in Id : cmds[i].place = place /\ cmds[i].host = host => cmds[i].pc = "over"

-----------------------------------------------------------------------------
(* The connection *)

\* A transport is established; the connect command is the first one over it.
OpenTransport ==
    /\ conn = 0
    /\ Len(cmds) < MaxCommands
    /\ transport_id' = transport_id + 1 /\ conn' = transport_id + 1
    /\ cmds' = Append(cmds, [kind |-> "connect", place |-> "task", host |-> 0,
                             conn |-> transport_id + 1, future |-> "pending", pc |-> "waiting"])
    /\ inflight' = inflight \cup {Len(cmds) + 1}
    /\ commands' = <<Len(cmds) + 1>>
    /\ UNCHANGED <<connected, done, blocked, messages, pushes, faults>>

-----------------------------------------------------------------------------
(* Callers *)

\* rpc(), publish(), history() and presence() wait until the client is connected
\* (ready()); the connection may be lost before the caller goes on.
Ready == connected \/ (conn = 0 /\ transport_id > 0)

CallFromTask == Ready /\ Issue("rpc", "task", 0) /\ UNCHANGED faults

\* A handler that the message task waits for calls the server: one of a push, or
\* one that is called while a gated reply is applied.
CallFromHandler ==
    /\ Ready
    /\ \/ \E b \in blocked :
            b.on = Push /\ Through("push", b.conn) /\ Issue("rpc", "push", b.conn)
       \/ \E i \in Id :
            cmds[i].pc = "applying" /\ Through("gate", i) /\ Issue("rpc", "gate", i)
    /\ UNCHANGED faults

\* The caller is cancelled, e.g. by asyncio.wait_for(): the future with it, but the
\* command stays registered.
Cancel ==
    /\ Fault
    /\ \E i \in Id :
        /\ cmds[i].kind = "rpc" /\ cmds[i].pc = "waiting"
        /\ cmds' = [cmds EXCEPT ![i] = [Settle(@, "cancelled") EXCEPT !.pc = "over"]]
    /\ UNCHANGED <<linkVars, inflight, done, blocked, wireVars, pushes>>

\* The timer of a command fires: _future_error().
Expire(i) ==
    /\ cmds' = Failed({i}, "timeout")
    /\ done' = done \cup Opened({i})
    /\ inflight' = inflight \ {i}
    /\ UNCHANGED <<linkVars, blocked, wireVars, pushes>>

\* The answer is late or does not come.
TimesOut == Fault /\ \E i \in inflight : cmds[i].future = "pending" /\ Expire(i)

\* The message task waits for this caller, and so does not get to its answer.
BlockedTimesOut ==
    /\ \E i \in inflight : cmds[i].place # "task" /\ cmds[i].future = "pending" /\ Expire(i)
    /\ UNCHANGED faults

Resumes(i) == cmds[i].pc = "waiting" /\ cmds[i].future # "pending"

\* The caller goes on with the outcome of its command, and its timer is cancelled.
CallerResumes ==
    /\ \E i \in Id :
        /\ Resumes(i) /\ cmds[i].kind = "rpc"
        /\ cmds' = [cmds EXCEPT ![i].pc = "over"]
    /\ UNCHANGED <<linkVars, inflight, done, blocked, wireVars, pushes, faults>>

\* The caller of command i starts to apply its gated reply.
Applies(i) ==
    /\ Resumes(i) /\ cmds[i].future = "reply"
    /\ cmds' = [cmds EXCEPT ![i].pc = "applying"]
    /\ UNCHANGED <<transport_id, conn, inflight, done, blocked, wireVars, pushes, faults>>

\* A connect or subscribe whose connection is over: the gate opens.
GatedGivesUp ==
    /\ \E i \in Id :
        /\ Resumes(i) /\ cmds[i].kind \in Gated
        /\ cmds[i].future = "disconnected" \/ cmds[i].conn # conn
        /\ cmds' = [cmds EXCEPT ![i].pc = "over"]
        /\ done' = done \cup {i}
    /\ UNCHANGED <<linkVars, inflight, blocked, wireVars, pushes, faults>>

\* The gate is left shut.
FaultyLeave(i) == done

\* _register_future_with_done(): the gate opens whatever happened.
Leave(i) == done \cup {i}

\* What applied a gated reply is through, handlers included.
Applied ==
    /\ \E i \in Id :
        /\ cmds[i].pc = "applying" /\ Through("gate", i)
        /\ cmds' = [cmds EXCEPT ![i].pc = "over"]
        /\ done' = Leave(i)
    /\ UNCHANGED <<linkVars, inflight, blocked, wireVars, pushes, faults>>

-----------------------------------------------------------------------------
(* The message task *)

Busy == \E b \in blocked : b.conn = conn

Receives == conn # 0 /\ messages # <<>> /\ ~Busy /\ messages' = Tail(messages)

\* The task does not wait for the reply to be applied.
FaultyWaitsFor(i) == FALSE

\* _future_success() waits until `done' of a gated command has a result.
WaitsFor(i) == cmds[i].kind \in Gated /\ i \notin done

\* _future_success(): a reply to a command that is not registered any more is dropped.
ReplyArrives ==
    /\ Receives
    /\ LET i == Head(messages) IN
       /\ i # Push
       /\ inflight' = inflight \ {i}
       /\ IF i \in inflight
          THEN /\ cmds' = [cmds EXCEPT ![i] = Settle(@, "reply")]
               /\ blocked' = IF WaitsFor(i) THEN blocked \cup {[conn |-> conn, on |-> i]} ELSE blocked
          ELSE UNCHANGED <<cmds, blocked>>
    /\ UNCHANGED <<linkVars, done, commands, pushes, faults>>

\* A push: the task waits for the handler it calls.
PushArrives ==
    /\ Receives
    /\ Head(messages) = Push
    /\ blocked' = blocked \cup {[conn |-> conn, on |-> Push]}
    /\ UNCHANGED <<linkVars, futureVars, commands, pushes, faults>>

\* The task goes on: with the next message of its connection, if that is not over.
TaskGoesOn ==
    /\ \E b \in blocked :
        /\ IF b.on = Push THEN Through("push", b.conn) ELSE b.on \in done
        /\ blocked' = blocked \ {b}
    /\ UNCHANGED <<linkVars, futureVars, wireVars, pushes, faults>>

-----------------------------------------------------------------------------
(* The server (external).  It answers commands in order, and pushes once it  *)
(* accepted the connect command, right behind its reply.                     *)

ServerAnswers ==
    /\ commands # <<>>
    /\ commands' = Tail(commands)
    /\ messages' = Append(messages, Head(commands))
    /\ UNCHANGED <<linkVars, futureVars, blocked, pushes, faults>>

Accepted == \E i \in Id : /\ cmds[i].kind = "connect" /\ cmds[i].conn = conn
                          /\ \A k \in 1..Len(commands) : commands[k] # i

ServerPushes ==
    /\ conn # 0 /\ Accepted
    /\ pushes > 0 /\ pushes' = pushes - 1
    /\ messages' = Append(messages, Push)
    /\ UNCHANGED <<linkVars, futureVars, blocked, commands, faults>>

-----------------------------------------------------------------------------

CommandsInit ==
    /\ transport_id = 0 /\ conn = 0 /\ connected = FALSE
    /\ cmds = <<>> /\ inflight = {} /\ done = {} /\ blocked = {}
    /\ commands = <<>> /\ messages = <<>>
    /\ pushes = MaxPushes /\ faults = MaxFaults

\* Steps that neither subscribe nor refresh.
Callers == CallFromTask \/ CallFromHandler \/ CallerResumes \/ GatedGivesUp \/ Applied
MessageTask == ReplyArrives \/ PushArrives \/ TaskGoesOn
Interruptions == Cancel \/ TimesOut \/ BlockedTimesOut

=============================================================================
