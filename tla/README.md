# TLA+ model of centrifuge-python

`centrifuge-python` is an asyncio client of the Centrifugo real-time server: a
`Client` keeps one WebSocket connection alive, and each `Subscription` keeps one
channel subscribed over it. The code is sequential between two awaits and
concurrent across them: connection attempts, teardowns, subscribe flows, timers,
event handlers of the application and messages of the server interleave at every
`await`. This directory models that behaviour in TLA+, checks it with TLC and
proves its safety, codecs included, with TLAPS.

All line numbers below are of `src/centrifuge/client.py`, unless a file is named.

## 1. The system

### Components

| component | state it keeps | operations |
|---|---|---|
| Connection lifecycle (`Client`, 349-910, 1063-1102, 1974-2118, 2325-2371) | `state`, `_transport_id`, `_transition`, `_conn`, `_open_task`, `_connected_future`, reconnect and ping timer, `_token`, `_refresh_required` | `connect`, `disconnect`, `set_token`, attempts, handshake, connect reply, teardown, reconnect, ping |
| Subscription flow (`Subscription` 2386-2867 and `Client` 1367-1706) | `state`, `_attempt`, `_subscribed_future`, resubscribe timer, `_token`, `_recover`, `_inflight` | `subscribe`, `unsubscribe`, get_state, get_token, subscribe command and its outcomes, unsubscribe pushes, resubscribe |
| Stream positions and publications (2589, 2800-2830, 2847) | `_offset`, `_epoch`, `_pending`, `_prev_data` | publications, recovery, commit at the end of a session, invalidation |
| Command futures (1708-1785) | `_inflight_commands`, timeouts, `done` | register, success, error, clear on teardown |
| Token refresh chains (1104-1360, 2766) | `_refresh_timer` of client and subscription | refresh step, its reply, retry |
| Server-side subscriptions (944-1018, 2176) | `_server_subs`, `_server_pending` | connect reply, pushes, publications |
| Push routing (2235-2262, 2835) | `_subs_by_id`, `_push_id` | registration, lookup, clearing |
| Transport setup (860-889) | none | proxy, TLS and headers handed to `websockets` |
| JSON codec, filter, types, contexts, codes, handlers, generated protobuf | none | pure conversions and data classes |
| Fossil delta (`fossil.py`) | none | `apply_delta()`, a pure function |
| Protobuf frames (`codecs.py`) | none | lengths before messages, and their decoding |
| Backoff (`utils.py`) | attempt counters | a random delay |

### How they interact

- A connection attempt or a connection is identified by `_transport_id`, which
  every attempt and every teardown changes. Whatever was started for it compares
  that number after each await (`_attempt_current`, `_connection_current`).
- `connect()` and teardowns call event handlers of the application, which may call
  back into the client. `_transition` tells which of them is the last one.
- A teardown fails the pending commands (which wakes attempts and subscribe
  flows), moves every subscribed subscription to subscribing and calls handlers.
- `_connected()` starts a subscribe flow for every subscribing subscription.
- A subscribe flow that times out, or an unsubscribe the server refuses, tears the
  connection down.
- The message task applies one message after the other and waits until a connect
  or subscribe reply is applied before it handles the next.

### What is hard here

- Interleaving of teardowns, `connect()` calls and attempts, each suspended in a
  handler or a token request when the next one starts.
- Liveness by bookkeeping: nothing supervises a client that is connecting, or a
  subscription that is subscribing. Each of some twenty paths must leave a timer,
  a task or a flow behind.
- Futures that are renewed on several paths and must never be resolved twice, or
  replaced while somebody waits.
- The server's view: a second subscribe on one connection is an error that ends
  the subscription, a forgotten unsubscribe keeps publications coming.
- Stream positions that move only when the application has the publication.

### What makes each component correct

- Lifecycle: one connection at a time and no socket left open; no token of an old
  attempt used; a connecting client always has something in progress; the promise
  behind `ready()` is never replaced while pending; the application is told.
- Subscription: subscribed only over the present connection and only if the server
  holds it; never two subscribes on a connection; nothing left on the server after
  unsubscribe; a subscribing subscription has something in progress and settles.
- Positions: never back, never past what the application got; nothing given twice;
  the client catches up with the stream.
- Commands: each future resolved once, by reply, timeout or teardown; nobody waits
  forever, also when a handler that the message task waits for calls the server; what
  is behind a connect or subscribe reply waits until the reply is applied.
- Refresh: one chain per connection or session, which never just ends.
- Server-side subscriptions: positions as above; the registry is what the connection has.
- Routing: an id of an earlier connection or session routes nothing.
- Codecs: a delta means what it means, complete or cut; frames keep their messages apart.

`PROJECT.json` has the full list of hazards, each with its line and the properties
that cover it.

## 2. The modules

| module | what it is |
|---|---|
| `ConnectionStates` | abstract: the state and the promise an application sees |
| `Sessions` | abstract: connections one after the other, each with its own number |
| `ClientLifecycle` | the connection lifecycle as the code does it |
| `SubscriptionFlow` | one subscription, over `Sessions`, with the server |
| `StreamPositions` | the stream position of one subscription, over `Sessions`, with the server's stream |
| `Commands` | commands, their futures, and the message task |
| `RefreshChains` | the token refreshes, over `Commands`; the specification of both |
| `ServerSubscriptions` | server-side subscriptions and the routing of pushes |
| `PayloadCodecs` | pure: fossil deltas and protobuf frames |
| `MCLifecycle`, `MCSubscription`, `MCPositions`, `MCRefresh`, `MCServer` | these for TLC; `MCPositions` composes the publications with the codecs of what they carry |
| `ClientLifecycleProofs` | the inductive invariant and the safety theorems of the lifecycle |
| `ClientAttemptProofs` | it implements `ConnectionStates` and `Sessions`; overtaken attempts, and tokens |
| `SubscriptionProofs` | types, promise, timer and progress of `SubscriptionFlow` |
| `SubscriptionServerProofs` | what the server holds for it |
| `PositionProofs` | the safety of `StreamPositions` |
| `RefreshProofs` | commands and futures, and the chains |
| `ServerProofs` | the safety of `ServerSubscriptions` |
| `CodecProofs` | what `PayloadCodecs` computes, for every input |

Several modules describe the same client from different sides, each with only what
its properties need. What one leaves out another has: `StreamPositions` lets a
subscribe flow start whenever it can, because `SubscriptionFlow` shows when it does;
`RefreshChains` has no unsubscribe command, `SubscriptionFlow` has. What they share is
how connections follow each other, `Sessions`: `ClientLifecycle` is proved to implement it,
`SubscriptionFlow` and `StreamPositions` take their connection from it, and those of
`RefreshChains` and `ServerSubscriptions` are proved to be such (`ChainsFollowSessions`,
`ServerFollowsSessions`).

### ClientLifecycle

Variables carry the code's names. An attempt (`_connection_attempt`) is a record of
`attempts` with the place it is suspended at, a `connect()` or `_disconnect()`
suspended in a handler is a record of `transitions`, and `ready` is the order in
which tasks become ready, which the event loop keeps (a handshake or a reply that
completed is seen by its attempt only when the task runs: what happens in between
is the interesting part). An action is what runs between two suspensions:

| action | code |
|---|---|
| `Connect`, `ConnectHandlerReturns`, `CancelConnect` | `connect()` before, after and cancelled in `on_connecting` |
| `Disconnect` | `disconnect()`; also what a raising handler does (`_handler_raised`) |
| `SetToken` | `set_token()` |
| `Teardown` (operator) | `_disconnect()` up to its first await |
| `ClearingReturns`, `TeardownHandlerReturns` | its rest: `_clear_connected_state()` over, event emitted, reconnect scheduled |
| `StartAttempt` ... `ConnectedHandlerReturns` | `_create_connection()`, `_reconnect()`, `_connection_attempt()`, `_connected()` |
| `TransportEnds` | `_listen()` finds the end, a command cannot be sent, or a disconnect push |
| `PingArrives`, `PongReturns`, `PingTimerFires`, `NoPing` | `_handle_ping()`, `_restart_ping_wait()`, `_no_ping()` |
| `ReconnectTimerFires` | `_schedule_reconnect()`'s timer |

`app` is the application, chosen once: whether it has get_token, and whether it may
cancel a `connect()`. `last_event`, `rejected` and `issued` are history variables. `open` is the set of
sockets that are established and not being closed, which the code does not keep:
it is what "no leaked transport" is about.

### SubscriptionFlow

One subscription with its subscribe flows (`flows`, by suspension), its tasks not
yet run (`starting`, `scheduling`, `callers`), and the wire: `commands` and
`messages` in order. The connection is `Sessions` (`Link!Open`, `Link!Close`). The
server (`held`, `ServerSubscribes`, `ServerUnsubscribes`, `ServerPushes`) is
external: what it may do is taken from how the code uses it. Spawned tasks may run
in any order here, which allows more than the event loop does. `_inflight` is not a
variable: the flow of the present connection and attempt is unique, and whether
there is one is what the marker says (`InFlight`). `app` is the application, chosen
once: whether it has get_token and get_state, whether its `on_subscribed` waits, and
whether its get_state may be cancelled; one run covers all of them.

A subscription token whose refresh is refused ends the subscription with an
unsubscribe command (1257, 1300, 1331): that is the step `Unsubscribe` takes, so it
has no action of its own.

### StreamPositions

`offset`, `epoch`, `recover` and `pending` are the code's. A handler of the
application that has not returned is a record of `handlers` with the session it was
called in, and with the recovered publications its loop goes on with. Handlers are
not cancelled: those of several sessions run at once, and `HandlerReturns` is what
`_process_publication()` and the loop of `_move_subscribed()` do after each.
`Committed` is what `_commit_pending()` leaves, `AfterFailure` what a handler that raised
leaves for it to commit. The server's stream has an epoch, an end, and a
history that may be trimmed or lost. `log` (what `on_publication` was given) and
`origin` (from where the application was told to start) are history variables.

### Commands and RefreshChains

The index of a command is its id. Its record is the caller that awaits it: where it
runs (a task, the handler of a push, the application of a gated reply), the
connection it went out over, its future, and whether it went on. `inflight` is
`_inflight_commands`, `done` the set of gates that are open
(`_register_future_with_done()`), and `blocked` what message tasks wait for; the task
of a connection that is over may stay blocked in a handler.

| action | code |
|---|---|
| `CallFromTask`, `CallFromHandler` | `rpc()` and the like: `_register_future()`, `_send_commands()` |
| `Cancel`, `TimesOut`, `BlockedTimesOut` | the caller's `wait_for`; `_future_error()` by the timer |
| `CallerResumes`, `Applies`, `Applied`, `GatedGivesUp` | the caller goes on, applies a gated reply, opens its gate |
| `ReplyArrives`, `PushArrives`, `TaskGoesOn` | `_process_incoming_data()`, `_future_success()` |
| `Connects`, `Subscribes`, `Loses`, `Resubscribes`, `GatedTimedOut` | what starts and ends owners of a chain |
| `TimerFires` ... `HandlerReturns` | `_refresh()`, `_sub_refresh()`, their errors and retries |

A chain is a timer or a step of `steps`, with the owner it was started for
(`_transport_id`, or `_attempt` of the session). `expiring` remembers for whom the
server said that the token expires: that is what makes a chain that just ends
visible.

### ServerSubscriptions

`tasks` are the tasks that apply a connect reply or a push and wait for a handler:
`TellsNext`, `GivesNext`, `DropsTheRest` and `Stops` are the loop bodies and the end of
`_process_server_subs()`. `subs_by_id` and `push_id` are the code's; `SetPushId`,
`SubForPush` and `Route` are its lookups. The server chooses the channels of every
connection and numbers ids from 1 in each, so that ids of two connections clash.

### PayloadCodecs

`ApplyDelta`, `GetInt` and `Checksum` are translated from `fossil.py`, slices that
Python cuts silently and the step back at the end of the buffer included, `VarintDecode` and
`DecodeFrame` from `codecs.py`. Both have numbers as digits to a base, `Digits` and `Value`;
the loops of the code are functions of the number of rounds (`Values`, `Sums`, `Rounds`,
`Messages`). `Encoded`, what the server makes, is external. `DeltasAgree` compares with what a list of copies and
inserts means, over every small source and script, complete and cut short; `FramesAgree`
over messages with lengths on both sides of each varint boundary.

### Refinement

- `ImplementsConnectionStates`: the client, mapped to (`state`,
  `connected_future`), behaves as `ConnectionStates`: a promise is kept while it is
  pending, resolved when connected, broken by a stop. `ConnectingEnds` is its
  fairness: connecting ends, one way or the other, unless a `connect()` is cancelled.
- `ImplementsSessions`: (`transport_id`, the connection while connected) behaves as
  `Sessions`. This is the assumption `SubscriptionFlow` and `StreamPositions` are built on.
- `ImplementsPromise`: a subscription keeps the promise of its `ready()` the way the
  client does (the safety part of `ConnectionStates`).

## 3. Model checking

| run | question | result |
|---|---|---|
| `lifecycle_core` | every application; 3 calls, 2 faults | 12 properties hold, 1.2 million states |
| `subscription_core` | every application; 3 calls, 2 faults, 3 connections | 9 properties hold, 1.6 million states |
| `positions` | with and without get_state; 2 publications, 2 calls, 2 faults, 1 raising handler; codecs | 8 properties hold, 1.4 million states |
| `refresh` | both chains; 3 commands, 2 pushes, 3 faults | 5 properties hold, 0.8 million states |
| `server_subs` | two channels, two subscriptions, one of each | 5 properties hold, 1.9 million states |
| `stale_ping`, `announced`, `cancelled_connect`, `slow_handler`, `cancelled_state`, `server_late`, `late_raise` | see Findings | violated |

Properties, by what they are about:

- Sockets: `OneConnection`, `NoLeakedTransport`.
- Progress: `PatientHasWork`, `PromptHasWork` (nothing is left with nothing in
  progress), and the liveness they stand for: `ConnectingEnds`, and `Settles`.
  `NobodyWaitsForever` (callers and
  message tasks), `CatchesUp` (the subscription, with the stream).
- Promises: `FutureMatchesState` (both modules), `ImplementsConnectionStates`,
  `ImplementsPromise`, `ResolvedOnce`.
- Staleness: `StaleAttemptsAreInert`, `ImplementsSessions`, `NoTimerLeftBehind` (both modules), `OneChain`, `RoutesRight`.
- Tokens: `NoRejectedTokenSent`.
- What the application is told: `StopAnnounced`.
- Order: `PushesWait`, `InOrderOnce`, `ServerInOrderOnce`.
- Positions: `PositionReached`, `ServerPositionReached`, `NeverBack`, `RaisedComesAgain`.
- The server's view: `SubscribedIsHeld`, `NoSecondSubscribe`, `NothingLeftOnServer`,
  `NothingLeftRegistered`.
- Payloads: `DeltaMeetsReference`, `FrameMeetsReference`.

Every property of a passing run has a mutant in `PROJECT.json`: a definition named
`Faulty...` is its successor in the module with a plausible bug, and with it TLC
finds the property violated.

### Bounds

`MaxCalls` bounds the calls of the application that have an effect, `MaxFaults` the
failures and silences of network, server, get_token and get_state, `MaxSessions` the
connections a subscription sees. Everything else (attempts, timers, futures, queues)
is bounded by these. Three calls are connect, disconnect, connect (or set_token in
between): the shortest history in which an attempt, a teardown or a token request
of the first connection meets the second, and in which two teardowns supersede a
`connect()`. For a subscription they are subscribe, unsubscribe, subscribe. Two
faults are a failure and a failure of the retry, or a lost connection and a refused
subscribe. `SubscriptionFlow` was also explored with three faults and with four calls,
without a new result.

`MaxPublished` = 2 is a publication whose handler runs when the session ends and one
that comes live, recovered or both; `MaxRaises` lets one handler raise. `MaxCommands`
= 3 is a connect, a subscribe and a refresh or call, or the connects of two
connections and a call in between; more connections come from `MaxFaults`, and
`MaxPushes` = 2 are one whose handler calls the server and one that waits behind it.
`Worlds` are the instances of `ServerSubscriptions`: channels and subscriptions hardly
interact, so they are checked with two of each and then together; `MaxId` = 3 suffices
for two subscriptions that swap ids. Symmetry under permutations of channels and of
subscriptions is used for that module only, of which only safety is checked. The
radices of `PayloadCodecs` are 2, 7 and 4 instead of 64, 256 and 128, which makes
numbers of several digits, checksums that wrap and varints of three bytes short.
`SizeAssumption` says that the sizes of the deltas compared fit a number of a delta, 32 bits
in the code, which `get_int()` cuts off.

Deadlock is not checked: a client that is disconnected and whose application calls
nothing more rightly stops.

### Fairness

Weak fairness of: ready tasks (the event loop runs them), armed timers that fire,
handshakes and commands that end (`open_timeout` and the command timeout), handlers
and get_token or get_state that return, messages of a connection that stays up.
Nothing obliges the application to call, the transport to end, or a ping to come.
Handlers that never return are the application's own deadlock and are excluded;
but a handler that waits for an answer of the server is not assumed to return:
`BlockedTimesOut` is the timer that ends its wait, and that it does is what
`NobodyWaitsForever` shows. Of a refresh chain only a step whose command is through has to go on.
`Settles` is about a connection that stays: its premise is `<>[](session # 0)`;
`StreamPositions` assumes what it shows, that flows start and the client reconnects.
`ServerSubscriptions` states no fairness, since nothing it does has to happen.

## 4. Proofs

For every value of the constants, with only the named assumptions on bounds and
configuration, and that `Nobody`, the value of no channel and no subscription, is neither.

`ClientLifecycleProofs`, about `ClientLifecycle`:

- `TypeCorrectness`, and `CoreInvariance`: the inductive invariant `CoreInv` holds.
- From it `OneConnectionAlways`, `NoTransportLeaks`, `FutureAlwaysMatches`,
  `TimersAreCleared`, `StopIsAnnounced`, and `NeverStranded` (which needs
  a `Patient` application, see Findings).

The stated properties are not inductive: `OneConnection` says nothing of an
attempt that is about to set `conn`, `ConnectingHasWork` nothing of where the current
attempt is. `CoreInv` adds four facts to them. `Identities`: no attempt or transition
has a number above the latest, and attempts have different numbers. `OpenedAreOpen`:
an attempt about to resume with a transport has it, and it is not the connection.
`Phases`: where the current attempt is suspended decides whether there is a
connection and what the state is, so that its next step finds what it relies on.
`CurrentTransition`: what the last `connect()` or teardown says of the state and of
the last event. The proof has a lemma for `Teardown`, which all the ways to end a connection share, and
one step per action.

`ClientAttemptProofs` proves `RefinesConnectionStates`: initial states map to
initial states and every step to a step or a stutter of `ConnectionStates`, and `RefinesSessions`: the same for `Sessions`, where only the
ends and the successes of connections are steps. It also proves
`StaleAttemptsStayInert`, an action property: wherever an overtaken attempt goes on, but
from the wait for its reply, which a teardown ends, the step changes neither state,
connection, timers nor token, and is no teardown; and `RejectedTokensStay`, from an
invariant about tokens.

`RefreshProofs`, about `RefreshChains`: `RefreshTypes`,
`OneChainAlways`, `PushesAlwaysWait` and `OutcomesStay` (an action property), from
`RefreshInvariance`. Its invariant has two halves. `CmdInv` is about commands: what is
registered belongs to the present connection, a gate is open only when its reply is
applied or will not come (`Gates`), a message task waits for one thing (`OneBlocked`),
and for every gated reply until it is applied (`ReplyHeld`); the last two give
`PushesWait`. What a step may do to a command (`SameCmds`, `OneMore`) is stated with
it and gives `ResolvedOnce`. `ChainInv` is about owners: nothing belongs to an owner
that is still to come (`KnownOwners`), so that a new one starts without steps; connect
and subscribe replies are applied once (`ConnectsOnce`, `SubscribesOnce`), so that no
owner starts while there is one; and a chain that is to go on is its timer or one step
(`ChainsGoOn`). `OwnersMove` is the lemma for all that starts and ends owners,
`StepMoves`, `LateStepEnds`, `StepHandsOver` and `StepStarts` are those for the steps.
`ChainsFollowSessions` says that the connections of this module are `Sessions`.

`SubscriptionProofs` and `SubscriptionServerProofs`, about `SubscriptionFlow`:

- `SubscriptionTypeOK`; `FutureAlwaysMatches`, `NoTimerOutlivesSubscribing` and
  `SubscriptionImplementsPromise`. One list says what a step may do to state, future,
  timer and flows (`StateStep`: nothing, start, succeed, fall back, stop); the lemma that
  every action is on it is the work, the three theorems follow from the list alone.
- `SubscribingAlwaysHasWork`, for the `Prompt` applications (see Findings 4 and 5): a step
  that takes a task, a flow or a timer away leaves another, or the state or the
  connection changes (`FlowWork` and the lemmas after it).
- `SubscribedAlwaysHeld`, `NeverAskedTwice`, `NothingStaysBehind`, from `ServerInvariance`.
  None of the three is inductive: each depends on commands and replies under way. The
  argument is that every flow, and every end of a session or of subscribing, takes a new
  number. A number belongs to one flow (`Numbered`) and, once sent, to one command, which
  for the present number is the last on the wire (`Ordered`); a flow in get_state or
  get_token has sent nothing (`Unsent`).
  So once the reply to the present number is on its way no command is, and the reply and
  the pushes behind it tell what the server holds (`RepliesTell`); that is handed on to the
  flow (`FlowsKnow`) and to the subscribed state (`SubscribedKnows`). In the other
  direction, what the server holds, or will, some flow or the state accounts for
  (`Expected`), and between two subscribes on the wire is an unsubscribe (`Alternates`).

`PositionProofs`, about `StreamPositions`:

- `PositionTypeOK`, and `PositionPlaces`: `PlaceInv` holds. Its part `Orderly` says the
  above about attempt numbers for this module; here sessions have numbers too, and a handler
  carries the number of its session. Its part `Places` relates positions: none is ahead of
  the stream (`Known`), a command on the way carries the position of the subscription
  (`Waiting`), and so does the reply (`Answers`). `Feed` is the central notion: from a position
  on, the messages under way are the publications after it without a gap, up to a push that
  ends them, and without one they reach the end of the stream. It holds from the position a
  reply brings; in a session, from its position, or from where the one handler of the
  session will leave off (`InSession`).
- `PositionIsReached` and `PositionNeverBack` follow: what a session commits is the
  publication that was given last, and `Feed` says that all before it were.
- `PositionInOrderOnce` takes one invariant more, `Deliveries`: what was given of an epoch is
  not past what would be committed now (`Limit`) nor past what a reply on the way brings,
  and the publication being handled is the pending one. As the property, that part is for
  a subscription without get_state of which no handler has raised.
- `RaisedStaysAhead`, also with several handlers and get_state: the handler of the present
  session is about a publication that the position has not reached (`SessionHandler`), and
  what is pending when it raises is taken back before the client stops.

`ServerProofs`, about `ServerSubscriptions`. All rests on `Base`: types; nothing is on the
wire or applied before the connect reply (`Closed`); at most one task of the present
connection waits for a handler (`Tasks`), and it is giving the publication that
`_server_pending` says (`Pending`); once connected, a registered channel without a position
is one that the reply being applied will tell again or drop (`Validated`). Three invariants are built on it:

- `Channel(c)`, for positions. `Flow` is what `Feed` is in `PositionProofs`, with one more
  source: after a position nothing is missing, neither among the recovered publications that
  the task of the reply has still to give, nor behind them on the wire, up to a push that
  ends the channel or to the end of the stream. It holds from the registered position, from
  that of a reply still to be told, and from a subscribe push on the way.
  `ServerPositionAlwaysReached` and `ServerAlwaysInOrder` follow, through handlers that
  outlive their connection and commits at a teardown.
- `Kept(c)`, for the registry: what is registered but not on the connection is dropped, by an
  unsubscribe push on the way or at the end of the reply being applied, whatever a task of an
  older connection registers or drops meanwhile. `NothingStaysRegistered` follows.
- `AllSessions`, for routes. `Exchange` says of each subscription what `Ordered` and
  `RepliesTell` say in `SubscriptionServerProofs`: the answer to the latest attempt comes
  once, and only pushes of its session follow it. `OneMeaning` says that an id of a connection
  belongs to one subscription, in what the server sends, in the table and in the
  subscription. `PushesRouteRight` follows.

`LostOnlyByLateReplies` bounds finding 6: a channel the application was told of leaves the
registry only at the end of a connect reply whose connection is over. Its property,
`ForgetsOnlyLate`, is defined with the proof. `ServerTypeOK` and `ServerFollowsSessions` take
`Base` alone.

`CodecProofs`, about `PayloadCodecs`:

- `FrameRoundTrip`: any messages that are put in one frame come out of it.
- `DeltaRoundTrip`: for any source and any commands, a delta makes what its commands mean if
  they fit the source, is refused if one does not, and is refused if it is cut anywhere. Two
  hypotheses remain, both of the 32 bits that `get_int()` keeps: the size of the target, and
  the offset of every copy (`Cmds`), are below `Word`.
- `FrameMeetsReferenceAlways` and `DeltaMeetsReferenceAlways` state the same as the
  invariants that the run `positions` checks.

These are about recursive functions, and need induction, which the library states for an
operator, a form the provers cannot use. Here a formula about numbers is the set of the numbers
at which it holds: `Least` (every set of naturals has a least member; from the library's
theorem that strict inclusion is well-founded on the subsets of a finite set, applied to
intervals) gives `UpTo`, induction about a set. `Recursion` builds, by `UpTo`, the functions that `PayloadCodecs`
defines by recursion; `QuotientsRec`, `ValuesRec`, `SumsRec`, `FlattenRec`, `MessagesRec` and
`RoundsRec` are their equations, and everything else follows from these.

- Numbers: the digits of a number have it as their value (`DigitsValue`), so that a varint
  (`VarintDecoded`) or a number of a delta (`NumberRead`) that stands in a buffer is read
  to its end. Frames follow by induction over the messages (`NextRead`).
- Checksum: `checksum()` adds the bytes column by column and the rest apart, the reference
  adds words; `ChecksumAgrees` shows that both are the same, byte by byte.
- Buffers that are cut: `Begins` says that as much of a sequence as the buffer has stands
  there. A number whose end is missing is read with a digit for its end (`NumberAndEnd`): this
  is what the step back of `get_int()` does, and it is why a cut delta is refused; of a copy that
  ends just behind its `@`, the end that is read is the `@` itself, which is not a comma.
  `CommandRead` and `TrailerRead` are the rounds of the loop in such a buffer.
- The loop: after m commands that are in the buffer and fit, it has their output (`LoopReads`);
  from the first that does not fit, or is cut, it does not get to its end (`LoopFails`); after
  all of them it takes the trailer, if it is there (`LoopEnds`). `Applied` joins these with the
  header.

Only model-checked: liveness under fairness (`ConnectingEnds`, `Settles`, `CatchesUp`,
`NobodyWaitsForever`), which is beyond the prover. Every invariant and every action property
of the runs is stated by a theorem.

## 5. Findings

Each is a run whose single property states what the code, its comments or its
documentation say, and which TLC violates.

1. `stale_ping` / `PingTimerOwned`: `_handle_ping()` awaits the pong and arms the
   ping timer without looking at the connection again (2118). If sending the pong
   tears the connection down, the timer of a dead connection runs on and later
   tears down whatever connection or attempt there is.
2. `announced` / `ConnectingAnnounced`: a ping timeout spawned just before the loss
   of the connection is found runs a second teardown while the first is in the
   subscriptions' handlers. The first is superseded (2039), the second does not see
   CONNECTED as the previous state: `on_connecting` is never called.
3. `cancelled_connect` / `ConnectingHasWork`: a `connect()` cancelled while it awaits
   `on_connecting` (1085) leaves the client connecting with nothing in progress;
   only the attempt is shielded.
4. `slow_handler` / `SubscribingHasWork`: an `on_subscribed` of an earlier session
   that returns late disarms the resubscribe timer of the present one (2756).
5. `cancelled_state` / `SubscribingHasWork`: a get_state that raises
   `CancelledError` ends the flow without retry (1583); get_token is handled.
6. `server_late` / `ToldIsRegistered`: a connect reply whose last handler returns after
   its connection was lost still drops the channels it does not have (987), which the
   next connection's reply may have registered: the application was told that they are
   subscribed, and their publications are dropped. `LostOnlyByLateReplies` shows that there
   is no other way to this.
7. `late_raise` / `RaisedNeverCounts`: "a publication whose callback raised doesn't count as
   delivered: after `connect()`, a recoverable subscription receives it again"
   (`README.md:113` of the repository). Not if its session ended first: the publication is
   committed then (2592), and there is nothing left to take back when the handler raises.
   The comment at 2461-2464 says that it counts as delivered when the handler itself leaves
   the session; a lost connection commits as well. `RaisedComesAgain`, which holds, is the
   same of a handler that raises in its session.

The passing runs keep the triggers of 3, 4 and 5 out exactly where the property
they break is checked (`PatientHasWork` and `ConnectingEnds` are about the `Patient`
applications, `PromptHasWork` and `Settles` about the `Prompt` ones), and leave them in
for every other property.

Good to know when reading traces, though not findings:

- A `disconnect()` and `connect()` in one tick of the loop can let a task spawned by
  the first `connect()` start its attempt while the second one is still in
  `on_connecting`. Timer and attempt may then coexist for a moment, and
  `on_connecting` may return after `on_connected` was called; nothing breaks.
- `PositionReached` and `InOrderOnce` count a publication as given when its handler is
  called, whether or not it raises: `RaisedComesAgain` and finding 7 are about those that do.
- A connection closed with 3014 while get_state runs (1609): the position get_state
  returns afterwards is used, because an invalidation does not change the attempt. The
  server then answers that it cannot recover from it, if it can not.

## 6. Not modelled

- Delays: an armed timer may fire at any time. Backoff counters (`_reconnect_attempts`)
  and random delays are left out with them, as is the grace period of `_TimeoutTimer`.
- Suspensions inside `send()` other than the pong's: a send that fails is the loss
  of the connection right after it. `on_unsubscribed` handlers, which only delay.
- `remove_subscription()`, and replies that cannot be decoded after connecting.
- Subscriptions that do not recover: they have no position. In `StreamPositions`, the base of
  a delta, which moves with the position; in `ServerSubscriptions`, handlers that raise
  (as in `StreamPositions`) and lost streams; a channel subscribed both ways at once.
- In `Commands`, what calls return, and the wait of `ready()` before them
  (`FutureMatchesState` is about that).
- In `PayloadCodecs`, that `get_int()` takes the lower seven bits of a byte (`& 0x7F`,
  `fossil.py:156`): a byte of 128 or more is no digit here. A well-formed delta, whole or
  cut, has no such byte where a number is read; the properties are about those.
- The JSON codec, tags filter, data types, contexts, codes, generated protobuf code,
  proxy, TLS and headers: no behaviour the properties can tell apart.

## 7. Plan

1. Several subscriptions over one connection in `SubscriptionFlow`, with
   `remove_subscription()`.
