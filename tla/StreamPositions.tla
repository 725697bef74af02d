----------------------------- MODULE StreamPositions -----------------------------
(***************************************************************************)
(* The stream position of one recoverable Subscription                     *)
(* (src/centrifuge/client.py): publications and their handlers, recovered  *)
(* publications, the commit of a publication whose handler still runs when *)
(* the session ends, get_state and invalidation.                           *)
(*                                                                         *)
(* When a subscribe flow starts and how else it may fail is the subject of *)
(* SubscriptionFlow; here it may start whenever it can.  The server is     *)
(* external: a stream of numbered publications with an epoch, whose        *)
(* history may be trimmed or lost.  A subscribe that recovers is answered  *)
(* with the position it recovers from and the publications after it, any   *)
(* other one with the end of the stream.                                   *)
(*                                                                         *)
(* Handlers of the application are not cancelled when their session ends:  *)
(* `handlers' holds the ones that have not returned, late ones too.        *)
(***************************************************************************)
EXTENDS Naturals, Sequences, FiniteSets

CONSTANTS
    GetStates,     \* whether the subscription may have get_state
    MaxPublished,  \* publications
    MaxCalls,      \* calls of subscribe() and unsubscribe(), and of connect() once stopped
    MaxFaults,     \* lost connections, invalidations, lost and trimmed streams, failures
    MaxRaises      \* handlers of on_publication that raise

ASSUME ConfigAssumption == GetStates \subseteq BOOLEAN
ASSUME BoundsAssumption == {MaxPublished, MaxCalls, MaxFaults, MaxRaises} \subseteq Nat

VARIABLES
    transport_id, session,    \* as in SubscriptionFlow
    stopped,                  \* Client.state is DISCONNECTED
    get_state,                \* whether there is a get_state, fixed by new_subscription()
    state, attempt,           \* Subscription.state, _attempt
    recover, epoch, offset,   \* Subscription._recover, _epoch, _offset
    pending,                  \* Subscription._pending; NotPending is None
    flows,                    \* subscribe flows in get_state or waiting for the reply
    handlers,                 \* handlers of the application that have not returned
    commands, messages,       \* on the way to the server and back
    held,                     \* whether the server holds the subscription
    stream_epoch, top, trimmed, published,  \* the stream, its end and its lost part
    log,                      \* the publications given to on_publication, in order
    origin,                   \* the position the application was told to start from
    calls, faults, raises     \* what is left of the bounds

linkVars == <<transport_id, session, stopped, get_state>>
subVars == <<state, attempt, recover, epoch, offset, pending>>
streamVars == <<stream_epoch, top, trimmed, published>>
historyVars == <<log, origin>>
vars == <<linkVars, subVars, flows, handlers, commands, messages, held, streamVars, historyVars,
          calls, faults, raises>>

Link == INSTANCE Sessions WITH latest <- transport_id

-----------------------------------------------------------------------------
(* Types *)

Unknown == 0    \* the epochs "" and "_", which no stream has: streams have 1, 2, ...
NotPending == [session |-> 0, offset |-> 0]

Publication == [epoch : Nat \ {0}, offset : Nat \ {0}]
Flow == [conn : Nat \ {0}, attempt : Nat \ {0}, pc : {"getState", "reply"}]

\* A handler and the recovered publications, up to `last', that are next for its
\* loop.  `disturbed': _handler_failures is not what it was when it was called.
Handler == [conn : Nat \ {0}, session : Nat \ {0}, kind : {"subscribed", "publication"},
            epoch : Nat \ {0}, offset : Nat, last : Nat, disturbed : BOOLEAN]

Command == [op : {"subscribe", "unsubscribe"}, attempt : Nat, recover : BOOLEAN,
            epoch : Nat, offset : Nat]
Message == [op : {"subscribed", "unrecoverable", "publication", "again", "invalidated"},
            attempt : Nat, epoch : Nat, offset : Nat, last : Nat, recovered : BOOLEAN]

TypeOK ==
    /\ transport_id \in Nat \ {0} /\ session \in {0, transport_id}
    /\ stopped \in BOOLEAN /\ get_state \in BOOLEAN
    /\ state \in {"unsubscribed", "subscribing", "subscribed"} /\ attempt \in Nat
    /\ recover \in BOOLEAN /\ epoch \in Nat /\ offset \in Nat
    /\ pending \in [session : Nat, offset : Nat]
    /\ flows \subseteq Flow /\ handlers \subseteq Handler
    /\ commands \in Seq(Command) /\ messages \in Seq(Message)
    /\ held \in BOOLEAN
    /\ stream_epoch \in Nat \ {0} /\ published \in Nat
    /\ top \in Nat /\ trimmed \in 0..top
    /\ log \in Seq(Publication) /\ origin \in Nat
    /\ calls \in Nat /\ faults \in Nat /\ raises \in Nat

-----------------------------------------------------------------------------
(***************************************************************************)
(* Helpers.  A definition named Faulty... is not part of the model: it is  *)
(* what the next definition would be with a plausible bug, and the mutants *)
(* of PROJECT.json show which property finds that bug.                     *)
(***************************************************************************)

Call == calls > 0 /\ calls' = calls - 1
Fault == faults > 0 /\ faults' = faults - 1

\* Only the state is compared: a later session counts as the same.
FaultySessionCurrent(s) == state = "subscribed"

\* _session_current()
SessionCurrent(s) == attempt = s /\ state = "subscribed"

\* The flow keeps the number it found.
FaultyNextAttempt == attempt

\* _next_attempt()
NextAttempt == attempt + 1

InFlight == \E f \in flows : f.conn = transport_id /\ f.attempt = attempt

\* _commit_pending(): the position a subscribed session ends with when p is pending.
EndsWith(p) == IF p.offset > 0 /\ p.session = attempt THEN p.offset ELSE offset

\* The publication being handled does not count.
FaultyCommitted == offset

Committed == EndsWith(pending)

\* It stays pending.
FaultyAfterFailure == pending

\* _publication_failed(): "the end of the session must not commit it".
AfterFailure == NotPending

\* The end of a session keeps the position: the one it committed.
KeepPosition(committed) ==
    /\ IF state = "subscribed"
       THEN offset' = committed /\ pending' = NotPending
       ELSE UNCHANGED <<offset, pending>>
    /\ UNCHANGED epoch

\* _invalidate_state() forgets it; the recover flag stays.
ForgetPosition == offset' = 0 /\ epoch' = Unknown /\ pending' = NotPending

\* A teardown: pending commands fail, a subscribed subscription resubscribes.
CloseConnection ==
    /\ Link!Close
    /\ commands' = <<>> /\ messages' = <<>> /\ held' = FALSE
    /\ flows' = {f \in flows : f.pc # "reply"}
    /\ IF state = "subscribed"
       THEN state' = "subscribing" /\ attempt' = attempt + 1
       ELSE UNCHANGED <<state, attempt>>

Send(op, i, r, e, o) ==
    commands' = Append(commands, [op |-> op, attempt |-> i, recover |-> r, epoch |-> e,
                                  offset |-> o])
Deliver(op, i, e, o, last, r) ==
    messages' = Append(messages, [op |-> op, attempt |-> i, epoch |-> e, offset |-> o,
                                  last |-> last, recovered |-> r])

\* _process_publication() up to on_publication.
Hand(others, s, e, o, last) ==
    /\ handlers' = others \cup {[conn |-> session, session |-> s, kind |-> "publication",
                                 epoch |-> e, offset |-> o, last |-> last,
                                 disturbed |-> FALSE]}
    /\ pending' = [session |-> s, offset |-> o]
    /\ log' = Append(log, [epoch |-> e, offset |-> o])

-----------------------------------------------------------------------------
(* Calls of the application *)

Subscribe ==
    /\ state = "unsubscribed" /\ state' = "subscribing"
    /\ Call
    /\ UNCHANGED <<linkVars, attempt, recover, epoch, offset, pending, flows, handlers, commands,
                   messages, held, streamVars, historyVars, faults, raises>>

\* Also from within on_publication: the publication being handled is committed.
Unsubscribe ==
    /\ state # "unsubscribed" /\ state' = "unsubscribed"
    /\ Call
    /\ attempt' = attempt + 1
    /\ KeepPosition(Committed)
    /\ IF session # 0 THEN Send("unsubscribe", 0, FALSE, Unknown, 0) ELSE UNCHANGED commands
    /\ UNCHANGED <<linkVars, recover, flows, handlers, messages, held, streamVars, historyVars,
                   faults, raises>>

\* connect() of a client that a raising handler stopped.
Connect ==
    /\ stopped /\ stopped' = FALSE
    /\ Call
    /\ UNCHANGED <<transport_id, session, get_state, subVars, flows, handlers, commands, messages,
                   held, streamVars, historyVars, faults, raises>>

-----------------------------------------------------------------------------
(* The connection *)

Connected ==
    /\ ~stopped
    /\ Link!Open
    /\ UNCHANGED <<stopped, get_state, subVars, flows, handlers, commands, messages, held,
                   streamVars, historyVars, calls, faults, raises>>

\* The connection is lost, or closed with 3014, which invalidates.
LoseConnection ==
    /\ Fault
    /\ CloseConnection
    /\ KeepPosition(Committed) \/ ForgetPosition
    /\ UNCHANGED <<stopped, get_state, recover, handlers, streamVars, historyVars, calls, raises>>

-----------------------------------------------------------------------------
(* The subscribe flow, as far as positions go *)

\* The position is sent when there is one to recover from.
SendSubscribe(i, r, e, o) ==
    Send("subscribe", i, r, IF r THEN e ELSE Unknown, IF r THEN o ELSE 0)

StartFlow ==
    /\ session # 0 /\ state = "subscribing" /\ ~InFlight
    /\ attempt' = NextAttempt
    /\ LET f == [conn |-> session, attempt |-> NextAttempt, pc |-> "reply"] IN
       IF get_state /\ ~recover
       THEN flows' = flows \cup {[f EXCEPT !.pc = "getState"]} /\ UNCHANGED commands
       ELSE flows' = flows \cup {f} /\ SendSubscribe(NextAttempt, recover, epoch, offset)
    /\ UNCHANGED <<linkVars, state, recover, epoch, offset, pending, handlers, messages, held,
                   streamVars, historyVars, calls, faults, raises>>

\* The attempt is not compared: a position of one that is over is used.
FaultyLoads(f) == state = "subscribing"

\* _load_state_position(): a position of an attempt that is over is not used.
Loads(f) == attempt = f.attempt /\ state = "subscribing"

\* get_state returned a position of the stream; one the history does not reach any
\* more counts as a fault.  It is kept also when the connection was lost meanwhile.
GetStateReturns ==
    \E f \in flows, o \in 0..top :
        /\ f.pc = "getState"
        /\ IF o < trimmed THEN Fault ELSE UNCHANGED faults
        /\ IF Loads(f)
           THEN recover' = TRUE /\ epoch' = stream_epoch /\ offset' = o /\ origin' = o
           ELSE UNCHANGED <<recover, epoch, offset, origin>>
        /\ IF Loads(f) /\ session = f.conn
           THEN /\ flows' = (flows \ {f}) \cup {[f EXCEPT !.pc = "reply"]}
                /\ SendSubscribe(f.attempt, TRUE, stream_epoch, o)
           ELSE flows' = flows \ {f} /\ UNCHANGED commands
        /\ UNCHANGED <<linkVars, state, attempt, pending, handlers, messages, held, streamVars,
                       log, calls, raises>>

GetStateFails ==
    \E f \in flows :
        /\ f.pc = "getState"
        /\ Fault
        /\ flows' = flows \ {f}
        /\ UNCHANGED <<linkVars, subVars, handlers, commands, messages, held, streamVars,
                       historyVars, calls, raises>>

\* The position is moved past the publications before the application has them.
FaultyStart(m) == m.last

\* The position of the reply, which publications of the reply come after.
Start(m) == m.offset

\* _move_subscribed() up to on_subscribed.
MoveSubscribed(m) ==
    /\ state' = "subscribed"
    /\ attempt' = attempt + 1
    /\ recover' = TRUE /\ epoch' = m.epoch /\ offset' = Start(m)
    /\ origin' = IF m.recovered THEN origin ELSE m.offset
    /\ handlers' = handlers \cup {[conn |-> session, session |-> attempt + 1,
                                   kind |-> "subscribed", epoch |-> m.epoch,
                                   offset |-> m.offset, last |-> m.last, disturbed |-> FALSE]}
    /\ UNCHANGED <<pending, log>>

-----------------------------------------------------------------------------
(* Messages of the server, one after the other: the next one is processed   *)
(* when the handler of the one before returned.                             *)

Busy == \E h \in handlers : h.conn = session

Receives(ops) ==
    /\ session # 0 /\ messages # <<>> /\ ~Busy
    /\ Head(messages).op \in ops
    /\ messages' = Tail(messages)
    /\ UNCHANGED <<linkVars, commands, held, streamVars, calls, faults, raises>>

ReplyArrives ==
    /\ Receives({"subscribed", "unrecoverable"})
    /\ LET m == Head(messages) IN
       /\ flows' = {f \in flows : ~(f.pc = "reply" /\ f.attempt = m.attempt)}
       /\ \/ /\ ~(attempt = m.attempt /\ state = "subscribing")
             /\ UNCHANGED <<subVars, handlers, historyVars>>
          \/ /\ attempt = m.attempt /\ state = "subscribing"
             /\ m.op = "subscribed" /\ MoveSubscribed(m)
          \/ /\ attempt = m.attempt /\ state = "subscribing"
             /\ m.op = "unrecoverable"
             /\ recover' = FALSE /\ offset' = 0 /\ epoch' = Unknown
             /\ UNCHANGED <<state, attempt, pending, handlers, historyVars>>

\* Only a subscribed subscription takes a publication.
PublicationArrives ==
    /\ Receives({"publication"})
    /\ IF state = "subscribed"
       THEN Hand(handlers, attempt, Head(messages).epoch, Head(messages).offset, 0)
       ELSE UNCHANGED <<handlers, pending, log>>
    /\ UNCHANGED <<state, attempt, recover, epoch, offset, origin, flows>>

\* _process_unsubscribe() with a code to subscribe again, 2502 to invalidate.
UnsubscribedByServer ==
    /\ Receives({"again", "invalidated"})
    /\ IF state # "subscribed"
       THEN UNCHANGED subVars
       ELSE /\ state' = "subscribing" /\ attempt' = attempt + 1
            /\ IF Head(messages).op = "again" THEN KeepPosition(Committed) ELSE ForgetPosition
            /\ UNCHANGED recover
    /\ UNCHANGED <<flows, handlers, historyVars>>

-----------------------------------------------------------------------------
(* Handlers of the application *)

\* Only the first one is processed.
FaultyMoreRecovered(h) ==
    h.kind = "subscribed" /\ SessionCurrent(h.session) /\ h.offset < h.last

\* The loop over the recovered publications goes on while its session does.
MoreRecovered(h) == SessionCurrent(h.session) /\ h.offset < h.last

\* The rest of _process_publication(), or of on_subscribed, and that loop up to
\* the next suspension.
HandlerReturns ==
    \E h \in handlers :
        /\ offset' = IF h.kind = "publication" /\ ~h.disturbed /\ SessionCurrent(h.session)
                     THEN h.offset ELSE offset
        /\ IF MoreRecovered(h)
           THEN Hand(handlers \ {h}, h.session, h.epoch, h.offset + 1, h.last)
           ELSE /\ handlers' = handlers \ {h}
                /\ pending' = IF h.kind = "publication" /\ pending.session = h.session
                              THEN NotPending ELSE pending
                /\ UNCHANGED log
        /\ UNCHANGED <<linkVars, state, attempt, recover, epoch, origin, flows, commands, messages,
                       held, streamVars, calls, faults, raises>>

\* on_publication raised: the client stops, with the position that what is pending
\* then leaves, and the other handlers will find that a handler failed.
HandlerRaises ==
    /\ raises > 0 /\ raises' = raises - 1
    /\ \E h \in handlers :
        /\ h.kind = "publication"
        /\ handlers' = {[g EXCEPT !.disturbed = TRUE] : g \in handlers \ {h}}
    /\ stopped' = TRUE
    /\ pending' = NotPending
    /\ offset' = IF state = "subscribed" THEN EndsWith(AfterFailure) ELSE offset
    /\ IF session # 0
       THEN CloseConnection
       ELSE UNCHANGED <<transport_id, session, commands, messages, held, flows, state, attempt>>
    /\ UNCHANGED <<get_state, recover, epoch, log, origin, streamVars, calls, faults>>

-----------------------------------------------------------------------------
(* The server (external) *)

\* A publication, sent to the client when it is subscribed.
Publish ==
    /\ published < MaxPublished /\ published' = published + 1
    /\ top' = top + 1
    /\ IF held THEN Deliver("publication", 0, stream_epoch, top + 1, 0, FALSE)
       ELSE UNCHANGED messages
    /\ UNCHANGED <<linkVars, subVars, flows, handlers, commands, held, stream_epoch, trimmed,
                   historyVars, calls, faults, raises>>

Recovers(c) == c.epoch = stream_epoch /\ c.offset \in trimmed..top

\* It recovers, or rejects (with get_state, which asks for that) or starts at the end.
ServerSubscribes ==
    /\ commands # <<>> /\ Head(commands).op = "subscribe" /\ commands' = Tail(commands)
    /\ LET c == Head(commands) IN
       IF c.recover /\ Recovers(c)
       THEN Deliver("subscribed", c.attempt, stream_epoch, c.offset, top, TRUE) /\ held' = TRUE
       ELSE IF c.recover /\ get_state
       THEN Deliver("unrecoverable", c.attempt, Unknown, 0, 0, FALSE) /\ UNCHANGED held
       ELSE Deliver("subscribed", c.attempt, stream_epoch, top, top, FALSE) /\ held' = TRUE
    /\ UNCHANGED <<linkVars, subVars, flows, handlers, streamVars, historyVars, calls, faults,
                   raises>>

ServerUnsubscribes ==
    /\ commands # <<>> /\ Head(commands).op = "unsubscribe" /\ commands' = Tail(commands)
    /\ held' = FALSE
    /\ UNCHANGED <<linkVars, subVars, flows, handlers, messages, streamVars, historyVars, calls,
                   faults, raises>>

\* It makes the client subscribe again, with its position or without; it does so
\* when the stream is lost.
ServerPushes ==
    /\ Fault
    /\ held /\ held' = FALSE
    /\ \/ /\ \E op \in {"again", "invalidated"} : Deliver(op, 0, Unknown, 0, 0, FALSE)
          /\ UNCHANGED streamVars
       \/ /\ Deliver("again", 0, Unknown, 0, 0, FALSE)
          /\ stream_epoch' = stream_epoch + 1 /\ top' = 0 /\ trimmed' = 0
          /\ UNCHANGED published
    /\ UNCHANGED <<linkVars, subVars, flows, handlers, commands, historyVars, calls, raises>>

\* The history is trimmed, or the stream is lost while nobody is subscribed.
HistoryLost ==
    /\ Fault
    /\ \/ trimmed' = top /\ UNCHANGED <<stream_epoch, top>>
       \/ ~held /\ stream_epoch' = stream_epoch + 1 /\ top' = 0 /\ trimmed' = 0
    /\ UNCHANGED <<linkVars, subVars, flows, handlers, commands, messages, held, published,
                   historyVars, calls, raises>>

-----------------------------------------------------------------------------
(* Specification *)

Init ==
    /\ transport_id = 1 /\ session = 0 /\ stopped = FALSE /\ get_state \in GetStates
    /\ state = "subscribing" /\ attempt = 0
    /\ recover = FALSE /\ epoch = Unknown /\ offset = 0 /\ pending = NotPending
    /\ flows = {} /\ handlers = {} /\ commands = <<>> /\ messages = <<>> /\ held = FALSE
    /\ stream_epoch = 1 /\ top = 0 /\ trimmed = 0 /\ published = 0
    /\ log = <<>> /\ origin = 0
    /\ calls = MaxCalls /\ faults = MaxFaults /\ raises = MaxRaises

Application == Subscribe \/ Unsubscribe \/ Connect

Wire == ReplyArrives \/ PublicationArrives \/ UnsubscribedByServer

Server == ServerSubscribes \/ ServerUnsubscribes

Next ==
    \/ Application \/ Wire \/ Server \/ Connected \/ LoseConnection
    \/ StartFlow \/ GetStateReturns \/ GetStateFails \/ HandlerReturns \/ HandlerRaises
    \/ Publish \/ ServerPushes \/ HistoryLost

\* The client reconnects, a subscribe flow starts (SubscriptionFlow.Settles),
\* handlers and get_state return, commands and messages arrive.
Fairness ==
    /\ WF_vars(Connected) /\ WF_vars(StartFlow) /\ WF_vars(GetStateReturns)
    /\ WF_vars(HandlerReturns) /\ WF_vars(Wire) /\ WF_vars(Server)

Spec == Init /\ [][Next]_vars /\ Fairness

-----------------------------------------------------------------------------
(* Properties *)

Given(e, o) == \E i \in 1..Len(log) : log[i] = [epoch |-> e, offset |-> o]

\* Nothing is skipped: the application was given every publication between the
\* position it was told to start from and the position the subscription would
\* recover from (_process_publication(), _commit_pending(), _move_subscribed()).
PositionReached ==
    recover /\ epoch # Unknown => \A o \in (origin + 1)..offset : Given(epoch, o)

\* Nothing is given twice or out of order, also when the session ends while a
\* handler runs ("it counts as delivered when the subscription leaves the session
\* during the handler").  Not so after a handler raised, and with get_state, whose
\* position may be behind.
InOrderOnce ==
    ~get_state /\ raises = MaxRaises =>
        \A i, j \in 1..Len(log) :
            i < j /\ log[i].epoch = log[j].epoch => log[i].offset < log[j].offset

\* The position never moves back within an epoch: "one that finishes after its
\* session ended must not move the position (possibly back)".
NeverBack == [][epoch' = epoch => offset' >= offset]_vars

Raises(h) == raises' # raises /\ [h EXCEPT !.disturbed = TRUE] \notin handlers'

\* "A publication whose callback raised doesn't count as delivered: after connect(), a
\* recoverable subscription receives it again": when it raises in its session, live or
\* recovered, with others running or not, the position to recover from is before it.
RaisedComesAgain ==
    [][\A h \in handlers :
         Raises(h) /\ SessionCurrent(h.session)
         => recover' /\ epoch' = h.epoch /\ offset' < h.offset]_vars

\* The same of a handler that raises whenever it does, unless the application was told
\* to start from a later position.
RaisedNeverCounts ==
    [][\A h \in handlers :
         Raises(h) /\ recover /\ epoch = h.epoch /\ origin < h.offset
         => offset' < h.offset]_vars

\* Once nothing fails any more the client has caught up with the stream for good,
\* unless it is unsubscribed or a handler that raised stopped it.
CatchesUp ==
    <>[](\/ stopped \/ state = "unsubscribed"
         \/ state = "subscribed" /\ epoch = stream_epoch /\ offset = top)
=============================================================================
