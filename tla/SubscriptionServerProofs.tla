------------------------ MODULE SubscriptionServerProofs ------------------------
(***************************************************************************)
(* What the server holds and what the client believes, for every           *)
(* application and every number of calls, faults and sessions of           *)
(* SubscriptionFlow: a subscribed subscription is held, the server is not  *)
(* asked twice, and nothing stays behind after an unsubscribe().           *)
(*                                                                         *)
(* The argument: an attempt number is used by one flow and for one         *)
(* command, and every unsubscribe() starts a new number.  So a command     *)
(* with the present number is the last one on its way; once its reply is   *)
(* on the way nothing else is, and the reply tells what the server holds.  *)
(***************************************************************************)
EXTENDS SubscriptionProofs, SequenceTheorems

-----------------------------------------------------------------------------
(* The invariant *)

\* A connection that is over left nothing behind.
Linked ==
    session = 0 =>
        /\ commands = <<>> /\ messages = <<>> /\ held = FALSE
        /\ \A f \in flows : f.conn < transport_id

\* An attempt number belongs to one flow.
Numbered ==
    /\ \A f \in flows : f.attempt <= attempt /\ f.conn <= transport_id
    /\ \A f, g \in flows : f.attempt = g.attempt => f = g

Subscribes(wire, i) == wire[i].op = "subscribe"

\* The command of the present attempt is the last one.
Ordered ==
    /\ \A i \in 1..Len(commands) : Subscribes(commands, i) =>
         /\ commands[i].attempt <= attempt
         /\ commands[i].attempt = attempt => i = Len(commands)
    /\ \A i \in 1..Len(messages) : Subscribes(messages, i) => messages[i].attempt <= attempt

\* A flow that did not send its command yet.
EarlyPc == {"getState", "stateHandler", "token", "tokenHandler"}
Unsent ==
    \A f \in flows : f.pc \in EarlyPc =>
        /\ \A i \in 1..Len(commands) : Subscribes(commands, i) => commands[i].attempt # f.attempt
        /\ \A i \in 1..Len(messages) : Subscribes(messages, i) => messages[i].attempt # f.attempt

\* A reply of the present attempt, on the way: behind a success comes the push that
\* takes it back, if there is one.
PushFrom(i) == \E j \in i..Len(messages) : messages[j].op = "push"
RepliesTell ==
    \A i \in 1..Len(messages) : Subscribes(messages, i) /\ messages[i].attempt = attempt =>
        /\ commands = <<>>
        /\ messages[i].out = "ok" => (held /\ ~PushFrom(i + 1)) \/ (~held /\ PushFrom(i + 1))
        /\ messages[i].out # "ok" /\ refused = "no" => ~held

\* A reply of the present attempt, handed to its flow.
Handed(f) == f.pc = "replied" /\ f.attempt = attempt /\ f.conn = session /\ f.out # "timeout"
FlowsKnow ==
    \A f \in flows : Handed(f) =>
        /\ commands = <<>>
        /\ f.out = "ok" => (held /\ ~PushFrom(1)) \/ (~held /\ PushFrom(1))
        /\ f.out # "ok" /\ refused = "no" => ~held

SubscribedKnows ==
    state = "subscribed" =>
        /\ session # 0 /\ commands = <<>>
        /\ (held /\ ~PushFrom(1)) \/ (~held /\ PushFrom(1))

\* The server holds the subscription once the commands on the way arrived.
NoUnsubscribeFrom(i) == \A j \in i..Len(commands) : commands[j].op # "unsubscribe"
WillHold ==
    \/ held /\ NoUnsubscribeFrom(1)
    \/ \E i \in 1..Len(commands) : Subscribes(commands, i) /\ NoUnsubscribeFrom(i + 1)

\* A flow that has not heard the answer, or heard a success.
Waits(f) ==
    \/ f.pc \in {"reply", "timeoutHandler"}
    \/ f.pc = "replied" /\ f.out \in {"ok", "timeout"}

Expected ==
    refused = "no" /\ WillHold => state = "subscribed" \/ \E f \in flows : Current(f) /\ Waits(f)

\* An unsubscribe before every subscribe that is not the first.
Alternates ==
    refused = "no" =>
        /\ \A i, j \in 1..Len(commands) :
             i < j /\ Subscribes(commands, i) /\ Subscribes(commands, j)
             => \E k \in (i + 1)..(j - 1) : commands[k].op = "unsubscribe"
        /\ held => \A j \in 1..Len(commands) : Subscribes(commands, j)
                   => \E k \in 1..(j - 1) : commands[k].op = "unsubscribe"

ServerInv ==
    /\ Linked /\ Numbered /\ Ordered /\ Unsent /\ RepliesTell /\ FlowsKnow /\ SubscribedKnows
    /\ Expected /\ Alternates

-----------------------------------------------------------------------------
(* Facts about one flow *)

serverVars == <<transport_id, session, state, attempt, wireVars>>

Moved(f, pc, out) == [f EXCEPT !.pc = pc, !.out = out]

LEMMA MovedFacts ==
    ASSUME Types, NEW f \in flows, NEW pc, NEW out
    PROVE  /\ Moved(f, pc, out).conn = f.conn /\ Moved(f, pc, out).attempt = f.attempt
           /\ Moved(f, pc, out).pc = pc /\ Moved(f, pc, out).out = out
           /\ At(f, pc, out) = (flows \ {f}) \cup {Moved(f, pc, out)}
BY DEF Types, FlowTypes, Flow, Moved, At

LEMMA Facts ==
    ASSUME Types
    PROVE  /\ transport_id \in Nat \ {0} /\ session \in {0, transport_id} /\ attempt \in Nat
           /\ flows \subseteq Flow
           /\ \A f \in flows : f.conn \in Nat \ {0} /\ f.attempt \in Nat \ {0}
           /\ commands \in Seq(Command) /\ messages \in Seq(Answer)
           /\ Len(commands) \in Nat /\ Len(messages) \in Nat
           /\ \A i \in 1..Len(commands) : commands[i].attempt \in Nat
           /\ \A i \in 1..Len(messages) : messages[i].attempt \in Nat
<1> USE DEF Types
<1>1. /\ transport_id \in Nat \ {0} /\ session \in {0, transport_id} /\ attempt \in Nat
      /\ flows \subseteq Flow
  BY DEF ConnTypes, SubTypes, FlowTypes
<1>2. \A f \in flows : f.conn \in Nat \ {0} /\ f.attempt \in Nat \ {0}
  BY DEF FlowTypes, Flow
<1>3. commands \in Seq(Command) /\ messages \in Seq(Answer)
  BY DEF WireTypes
<1>4. \A i \in 1..Len(commands) : commands[i].attempt \in Nat
  <2>1. \A i \in 1..Len(commands) : commands[i] \in Command
    BY <1>3
  <2> QED
    BY <2>1 DEF Command
<1>5. \A i \in 1..Len(messages) : messages[i].attempt \in Nat
  BY <1>3 DEF Answer, Message
<1> QED
  BY <1>1, <1>2, <1>3, <1>4, <1>5

\* The flow of the present attempt heard something else than a success: the server is
\* not going to hold the subscription.
LEMMA NotExpected ==
    ASSUME ServerInv, NEW f \in flows, Current(f), ~Waits(f), refused = "no"
    PROVE  ~WillHold
BY DEF ServerInv, Numbered, Expected, Current

\* Nothing the invariant is about changes.
LEMMA ServerSame ==
    ASSUME ServerInv, UNCHANGED <<serverVars, flows>>
    PROVE  ServerInv'
BY DEF ServerInv, serverVars, wireVars, Linked, Numbered, Ordered, Subscribes, Unsent, RepliesTell,
   PushFrom, FlowsKnow, Handed, SubscribedKnows, NoUnsubscribeFrom, WillHold, Waits, Current,
   Expected, Alternates

\* A flow ends that no success waits for.
LEMMA FlowEnds ==
    ASSUME Types, ServerInv, UNCHANGED serverVars, NEW f \in flows,
           Ends(f), ~(Current(f) /\ Waits(f))
    PROVE  ServerInv'
<1> USE DEF serverVars, wireVars
<1>0. flows' = flows \ {f}
  BY DEF Ends
<1>1. Linked' /\ Numbered'
  BY <1>0 DEF ServerInv, Linked, Numbered
<1>2. Ordered' /\ Unsent'
  BY <1>0 DEF ServerInv, Ordered, Unsent, Subscribes
<1>3. RepliesTell' /\ FlowsKnow' /\ SubscribedKnows'
  BY <1>0 DEF ServerInv, RepliesTell, FlowsKnow, SubscribedKnows, Subscribes, PushFrom, Handed
<1>4. Expected' /\ Alternates'
  <2>1. WillHold' => WillHold
    BY DEF WillHold, NoUnsubscribeFrom, Subscribes
  <2>2. \A g \in flows : Current(g) /\ Waits(g) => g \in flows' /\ Current(g)' /\ Waits(g)'
    BY <1>0 DEF Current, Waits
  <2>3. Expected'
    BY <2>1, <2>2 DEF ServerInv, Expected
  <2>4. Alternates'
    BY DEF ServerInv, Alternates, Subscribes
  <2> QED
    BY <2>3, <2>4
<1> QED
  BY <1>1, <1>2, <1>3, <1>4 DEF ServerInv

\* A flow goes on, without hearing anything but a timeout.
LEMMA FlowGoesOn ==
    ASSUME Types, ServerInv, UNCHANGED serverVars, NEW f \in flows, NEW pc, NEW out,
           flows' = At(f, pc, out),
           pc \in EarlyPc => f.pc \in EarlyPc,
           pc = "replied" => out = "timeout",
           Current(f) /\ Waits(f) => pc = "timeoutHandler" \/ (pc = "replied" /\ out = "timeout")
    PROVE  ServerInv'
<1> USE DEF serverVars, wireVars
<1> DEFINE h == Moved(f, pc, out)
<1>0. /\ flows' = (flows \ {f}) \cup {h}
      /\ h.conn = f.conn /\ h.attempt = f.attempt /\ h.pc = pc /\ h.out = out
  BY MovedFacts
<1> HIDE DEF h
<1>1. Linked' /\ Numbered'
  BY <1>0 DEF ServerInv, Linked, Numbered
<1>2. Ordered' /\ Unsent'
  BY <1>0 DEF ServerInv, Ordered, Unsent, Subscribes
<1>3. RepliesTell' /\ FlowsKnow' /\ SubscribedKnows'
  BY <1>0 DEF ServerInv, RepliesTell, FlowsKnow, SubscribedKnows, Subscribes, PushFrom, Handed
<1>4. Expected' /\ Alternates'
  <2>1. WillHold' => WillHold
    BY DEF WillHold, NoUnsubscribeFrom, Subscribes
  <2>2. \A g \in flows : Current(g) /\ Waits(g) =>
          \E e \in flows' : Current(e)' /\ Waits(e)'
    BY <1>0 DEF Current, Waits
  <2>3. Expected'
    BY <2>1, <2>2 DEF ServerInv, Expected
  <2>4. Alternates'
    BY DEF ServerInv, Alternates, Subscribes
  <2> QED
    BY <2>3, <2>4
<1> QED
  BY <1>1, <1>2, <1>3, <1>4 DEF ServerInv

-----------------------------------------------------------------------------
(* Steps that change the attempt, the connection or the wire *)

\* The present attempt is given up, and the server is not going to hold anything.
LEMMA LeavesAttempt ==
    ASSUME Types, ServerInv, attempt' = attempt + 1, state' # "subscribed",
           UNCHANGED <<transport_id, session, held, refused, messages>>, flows' \subseteq flows,
           \/ UNCHANGED commands /\ (refused = "no" => ~WillHold)
           \/ session # 0 /\ Send("unsubscribe", 0)
    PROVE  ServerInv'
<1>0. /\ session' = session /\ transport_id' = transport_id
      /\ held' = held /\ refused' = refused /\ messages' = messages
  OBVIOUS
<1>1. /\ Len(commands') \in Nat /\ Len(commands) \in Nat /\ Len(commands') >= Len(commands)
      /\ \A i \in 1..Len(commands) : commands'[i] = commands[i]
      /\ \A i \in 1..Len(commands') : Subscribes(commands', i) => i \in 1..Len(commands)
  BY Facts DEF Send, Subscribes
<1>2. Linked'
  BY <1>0 DEF ServerInv, Linked
<1>3. Numbered'
  BY <1>0, Facts DEF ServerInv, Numbered
<1>4. Ordered'
  BY <1>0, <1>1, Facts DEF ServerInv, Ordered, Subscribes
<1>5. Unsent'
  BY <1>0, <1>1, Facts DEF ServerInv, Unsent, Subscribes
<1>6. RepliesTell' /\ FlowsKnow' /\ SubscribedKnows'
  <2>1. \A i \in 1..Len(messages') : Subscribes(messages', i) => messages'[i].attempt # attempt'
    BY <1>0, Facts DEF ServerInv, Ordered, Subscribes
  <2>2. \A f \in flows' : ~Handed(f)'
    BY Facts DEF ServerInv, Numbered, Handed
  <2> QED
    BY <2>1, <2>2 DEF RepliesTell, FlowsKnow, SubscribedKnows
<1>7. refused' = "no" => ~WillHold'
  <2>1. CASE UNCHANGED commands /\ (refused = "no" => ~WillHold)
    BY <1>0, <2>1 DEF WillHold, NoUnsubscribeFrom, Subscribes
  <2>2. CASE Send("unsubscribe", 0)
    <3>1. /\ Len(commands') = Len(commands) + 1
          /\ commands'[Len(commands')].op = "unsubscribe"
      BY <2>2, Facts DEF Send
    <3> QED
      BY <1>1, <3>1 DEF WillHold, NoUnsubscribeFrom
  <2> QED
    BY <2>1, <2>2
<1>8. Alternates'
  <2>1. SUFFICES ASSUME refused = "no"
                 PROVE  /\ \A i, j \in 1..Len(commands') :
                             i < j /\ Subscribes(commands', i) /\ Subscribes(commands', j)
                             => \E k \in (i + 1)..(j - 1) : commands'[k].op = "unsubscribe"
                        /\ held => \A j \in 1..Len(commands') : Subscribes(commands', j)
                                   => \E k \in 1..(j - 1) : commands'[k].op = "unsubscribe"
    BY <1>0 DEF Alternates
  <2>2. \A i \in 1..Len(commands') : Subscribes(commands', i)
            => i \in 1..Len(commands) /\ Subscribes(commands, i)
    BY <1>1 DEF Subscribes
  <2>3. ASSUME NEW i \in 1..Len(commands'), NEW j \in 1..Len(commands'), i < j,
               Subscribes(commands', i), Subscribes(commands', j)
        PROVE  \E k \in (i + 1)..(j - 1) : commands'[k].op = "unsubscribe"
    <3>1. PICK k \in (i + 1)..(j - 1) : commands[k].op = "unsubscribe"
      BY <2>1, <2>2, <2>3 DEF ServerInv, Alternates
    <3>2. k \in 1..Len(commands)
      BY <1>1, <2>2, <2>3
    <3> QED
      BY <1>1, <3>1, <3>2
  <2>4. ASSUME held, NEW j \in 1..Len(commands'), Subscribes(commands', j)
        PROVE  \E k \in 1..(j - 1) : commands'[k].op = "unsubscribe"
    <3>1. PICK k \in 1..(j - 1) : commands[k].op = "unsubscribe"
      BY <2>1, <2>2, <2>4 DEF ServerInv, Alternates
    <3>2. k \in 1..Len(commands)
      BY <1>1, <2>2, <2>4
    <3> QED
      BY <1>1, <3>1, <3>2
  <2> QED
    BY <2>3, <2>4
<1> QED
  BY <1>2, <1>3, <1>4, <1>5, <1>6, <1>7, <1>8 DEF ServerInv, Expected

\* The same for the subscribed state, which a flow enters that heard of a success.
LEMMA Succeeded ==
    ASSUME Types, ServerInv, UNCHANGED <<transport_id, session, wireVars>>,
           NEW f \in flows, f.pc = "replied", f.out = "ok", Current(f),
           MoveSubscribed(f)
    PROVE  ServerInv'
<1> USE DEF wireVars
<1> DEFINE h == Moved(f, "subscribedHandler", "ok")
<1>0. /\ attempt' = attempt + 1 /\ state' = "subscribed"
      /\ flows' \subseteq (flows \ {f}) \cup {h}
      /\ h.conn = f.conn /\ h.attempt = f.attempt /\ h.pc = "subscribedHandler"
  BY MovedFacts DEF MoveSubscribed, Ends
<1> HIDE DEF h
<1>1. Linked'
  BY <1>0 DEF ServerInv, Linked, Current
<1>2. Numbered'
  BY <1>0, Facts DEF ServerInv, Numbered
<1>3. Ordered' /\ Unsent'
  <2>1. Ordered'
    BY <1>0, Facts DEF ServerInv, Ordered, Subscribes
  <2>2. \A g \in flows' : g.pc \in EarlyPc => g \in flows
    BY <1>0 DEF EarlyPc
  <2>3. Unsent'
    BY <2>2 DEF ServerInv, Unsent, Subscribes
  <2> QED
    BY <2>1, <2>3
<1>4. Handed(f) /\ session # 0
  BY Facts DEF Handed, Current
<1>5. SubscribedKnows'
  BY <1>4 DEF ServerInv, FlowsKnow, SubscribedKnows, PushFrom
<1>6. RepliesTell' /\ FlowsKnow'
  <2>1. \A i \in 1..Len(messages') : Subscribes(messages', i) => messages'[i].attempt # attempt'
    BY <1>0, Facts DEF ServerInv, Ordered, Subscribes
  <2>2. \A g \in flows' : ~Handed(g)'
    BY <1>0, Facts DEF ServerInv, Numbered, Handed
  <2> QED
    BY <2>1, <2>2 DEF RepliesTell, FlowsKnow
<1>7. Expected' /\ Alternates'
  BY <1>0 DEF Expected, ServerInv, Alternates, Subscribes
<1> QED
  BY <1>1, <1>2, <1>3, <1>5, <1>6, <1>7 DEF ServerInv

LEMMA Closes ==
    ASSUME Types, ServerInv, NEW rest \in SUBSET flows, CloseConnection(rest)
    PROVE  ServerInv'
<1>0. /\ session' = 0 /\ transport_id' = transport_id + 1
      /\ commands' = <<>> /\ messages' = <<>> /\ held' = FALSE
      /\ flows' \subseteq flows
      /\ attempt' \in {attempt, attempt + 1} /\ state' # "subscribed"
  BY DEF CloseConnection, Link!Close, EnterSubscribing, subVars
<1>1. Linked' /\ Numbered'
  BY <1>0, Facts DEF ServerInv, Linked, Numbered
<1>2. Ordered' /\ Unsent' /\ RepliesTell' /\ SubscribedKnows' /\ Alternates'
  BY <1>0 DEF Ordered, Unsent, RepliesTell, SubscribedKnows, Alternates
<1>3. FlowsKnow'
  BY <1>0, Facts DEF FlowsKnow, Handed
<1>4. Expected'
  BY <1>0 DEF Expected, WillHold
<1> QED
  BY <1>1, <1>2, <1>3, <1>4 DEF ServerInv

\* A subscribe command is sent for an attempt, and the server is not going to hold
\* the subscription before it arrives.
LEMMA SendAlternates ==
    ASSUME Types, ServerInv, NEW i \in Nat, Send("subscribe", i),
           UNCHANGED <<held, refused>>, refused = "no" => ~WillHold
    PROVE  Alternates'
<1>0. SUFFICES ASSUME refused = "no" PROVE Alternates'
  BY DEF Alternates
<1>1. /\ Len(commands') = Len(commands) + 1 /\ Len(commands) \in Nat
      /\ \A j \in 1..Len(commands) : commands'[j] = commands[j]
  BY Facts DEF Send
<1>2. \A j \in 1..Len(commands) : Subscribes(commands, j) =>
        \E k \in (j + 1)..Len(commands) : commands[k].op = "unsubscribe"
  BY <1>0 DEF WillHold, NoUnsubscribeFrom
<1>3. held => \E k \in 1..Len(commands) : commands[k].op = "unsubscribe"
  BY <1>0 DEF WillHold, NoUnsubscribeFrom
<1>4. ASSUME NEW a \in 1..Len(commands'), NEW b \in 1..Len(commands'), a < b,
             Subscribes(commands', a), Subscribes(commands', b)
      PROVE  \E k \in (a + 1)..(b - 1) : commands'[k].op = "unsubscribe"
  <2>1. CASE b \in 1..Len(commands)
    <3>1. a \in 1..Len(commands) /\ Subscribes(commands, a) /\ Subscribes(commands, b)
      BY <1>1, <1>4, <2>1 DEF Subscribes
    <3>2. PICK k \in (a + 1)..(b - 1) : commands[k].op = "unsubscribe"
      BY <1>0, <1>4, <2>1, <3>1 DEF ServerInv, Alternates
    <3> QED
      BY <1>1, <2>1, <3>1, <3>2
  <2>2. CASE b = Len(commands) + 1
    <3>1. a \in 1..Len(commands) /\ Subscribes(commands, a)
      BY <1>1, <1>4, <2>2 DEF Subscribes
    <3>2. PICK k \in (a + 1)..Len(commands) : commands[k].op = "unsubscribe"
      BY <1>2, <3>1
    <3> QED
      BY <1>1, <2>2, <3>1, <3>2
  <2> QED
    BY <1>1, <2>1, <2>2
<1>5. ASSUME held, NEW b \in 1..Len(commands'), Subscribes(commands', b)
      PROVE  \E k \in 1..(b - 1) : commands'[k].op = "unsubscribe"
  <2>1. CASE b \in 1..Len(commands)
    <3>1. Subscribes(commands, b)
      BY <1>1, <1>5, <2>1 DEF Subscribes
    <3>2. PICK k \in 1..(b - 1) : commands[k].op = "unsubscribe"
      BY <1>0, <1>5, <2>1, <3>1 DEF ServerInv, Alternates
    <3> QED
      BY <1>1, <2>1, <3>2
  <2>2. CASE b = Len(commands) + 1
    <3>1. PICK k \in 1..Len(commands) : commands[k].op = "unsubscribe"
      BY <1>3, <1>5
    <3> QED
      BY <1>1, <2>2, <3>1
  <2> QED
    BY <1>1, <2>1, <2>2
<1> QED
  BY <1>4, <1>5 DEF Alternates

\* A new flow h, which sends its command at once or later.
LEMMA StartsFlow ==
    ASSUME Types, ServerInv, UNCHANGED <<transport_id, session, state, messages, held, refused>>,
           session # 0, state = "subscribing", ~InFlight, attempt' = attempt + 1,
           NEW h, h.conn = transport_id, h.attempt = attempt + 1, flows' = flows \cup {h},
           \/ h.pc \in EarlyPc /\ UNCHANGED commands
           \/ h.pc = "reply" /\ Send("subscribe", h.attempt)
    PROVE  ServerInv'
<1>0. /\ session' = session /\ transport_id' = transport_id /\ state' = state
      /\ held' = held /\ refused' = refused /\ messages' = messages
  OBVIOUS
<1>1. refused = "no" => ~WillHold
  BY Facts DEF ServerInv, Expected, InFlight, Current
<1>2. /\ Len(commands') \in Nat /\ Len(commands) \in Nat
      /\ \A i \in 1..Len(commands) : commands'[i] = commands[i]
      /\ Len(commands') = Len(commands)
         \/ (h.pc = "reply" /\ Len(commands') = Len(commands) + 1
             /\ commands'[Len(commands')].attempt = attempt'
             /\ commands'[Len(commands')].op = "subscribe")
  BY Facts DEF Send, EarlyPc
<1>3. Linked' /\ Numbered'
  BY <1>0, Facts DEF ServerInv, Linked, Numbered
<1>4. Ordered'
  BY <1>0, <1>2, Facts DEF ServerInv, Ordered, Subscribes
<1>5. Unsent'
  <2>1. ASSUME NEW f \in flows', f.pc \in EarlyPc
        PROVE  /\ \A i \in 1..Len(commands') :
                    Subscribes(commands', i) => commands'[i].attempt # f.attempt
               /\ \A i \in 1..Len(messages') :
                    Subscribes(messages', i) => messages'[i].attempt # f.attempt
    <3>1. CASE f \in flows
      <4>1. f.attempt < attempt'
        BY <3>1, Facts DEF ServerInv, Numbered
      <4> QED
        BY <1>0, <1>2, <2>1, <3>1, <4>1 DEF ServerInv, Unsent, Subscribes
    <3>2. CASE f = h
      <4>1. Len(commands') = Len(commands)
        BY <1>2, <2>1, <3>2 DEF EarlyPc
      <4> QED
        BY <1>0, <1>2, <3>2, <4>1, Facts DEF ServerInv, Ordered, Subscribes
    <3> QED
      BY <3>1, <3>2
  <2> QED
    BY <2>1 DEF Unsent
<1>6. RepliesTell' /\ FlowsKnow' /\ SubscribedKnows'
  <2>1. \A i \in 1..Len(messages') : Subscribes(messages', i) => messages'[i].attempt # attempt'
    BY <1>0, Facts DEF ServerInv, Ordered, Subscribes
  <2>2. \A f \in flows' : ~Handed(f)'
    BY Facts DEF ServerInv, Numbered, Handed, EarlyPc
  <2> QED
    BY <1>0, <2>1, <2>2 DEF RepliesTell, FlowsKnow, SubscribedKnows
<1>7. Expected'
  <2>1. CASE h.pc = "reply"
    <3>1. h \in flows' /\ Current(h)' /\ Waits(h)'
      BY <1>0, <2>1, Facts DEF Current, Waits
    <3> QED
      BY <3>1 DEF Expected
  <2>2. CASE h.pc \in EarlyPc
    <3>1. commands' = commands
      BY <2>2 DEF EarlyPc
    <3>2. WillHold' => WillHold
      BY <1>0, <3>1 DEF WillHold, NoUnsubscribeFrom, Subscribes
    <3> QED
      BY <1>0, <1>1, <3>2 DEF Expected
  <2> QED
    BY <2>1, <2>2
<1>8. Alternates'
  <2>1. CASE UNCHANGED commands
    BY <1>0, <2>1 DEF ServerInv, Alternates, Subscribes
  <2>2. CASE Send("subscribe", h.attempt)
    BY <1>1, <2>2, SendAlternates, Facts
  <2> QED
    BY <2>1, <2>2
<1> QED
  BY <1>3, <1>4, <1>5, <1>6, <1>7, <1>8 DEF ServerInv

\* The flow of the present attempt sends its command.
LEMMA SendsLater ==
    ASSUME Types, ServerInv,
           UNCHANGED <<transport_id, session, state, attempt, messages, held, refused>>,
           NEW f \in flows, f.pc \in EarlyPc, Current(f), Send("subscribe", f.attempt),
           NEW h, h.conn = f.conn, h.attempt = f.attempt, h.pc = "reply",
           flows' = (flows \ {f}) \cup {h}
    PROVE  ServerInv'
<1>0. /\ session' = session /\ transport_id' = transport_id /\ state' = state
      /\ attempt' = attempt /\ held' = held /\ refused' = refused /\ messages' = messages
      /\ f.attempt = attempt /\ f.conn = session /\ session # 0 /\ state = "subscribing"
  BY Facts DEF Current
<1>1. refused = "no" => ~WillHold
  BY NotExpected DEF EarlyPc, Waits
<1>2. /\ Len(commands) \in Nat /\ Len(commands') = Len(commands) + 1
      /\ \A i \in 1..Len(commands) : commands'[i] = commands[i]
      /\ commands'[Len(commands')].attempt = attempt
  BY <1>0, Facts DEF Send
<1>3. Linked' /\ Numbered'
  BY <1>0 DEF ServerInv, Linked, Numbered
<1>4. /\ \A i \in 1..Len(commands) : Subscribes(commands, i) => commands[i].attempt # attempt
      /\ \A i \in 1..Len(messages) : Subscribes(messages, i) => messages[i].attempt # attempt
  BY <1>0 DEF ServerInv, Unsent
<1>5. Ordered'
  <2>1. \A i \in 1..Len(messages') : Subscribes(messages', i) => messages'[i].attempt <= attempt'
    BY <1>0 DEF ServerInv, Ordered, Subscribes
  <2>2. ASSUME NEW i \in 1..Len(commands'), Subscribes(commands', i)
        PROVE  /\ commands'[i].attempt <= attempt'
               /\ commands'[i].attempt = attempt' => i = Len(commands')
    <3>1. CASE i \in 1..Len(commands)
      <4>1. Subscribes(commands, i) /\ commands'[i] = commands[i]
        BY <1>2, <2>2, <3>1 DEF Subscribes
      <4> QED
        BY <1>0, <1>4, <3>1, <4>1 DEF ServerInv, Ordered
    <3>2. CASE i = Len(commands) + 1
      BY <1>0, <1>2, <3>2, Facts
    <3> QED
      BY <1>2, <3>1, <3>2
  <2> QED
    BY <2>1, <2>2 DEF Ordered
<1>6. Unsent'
  <2>1. \A g \in flows' : g.pc \in EarlyPc => g \in flows /\ g.attempt # attempt
    BY <1>0 DEF ServerInv, Numbered, EarlyPc
  <2> QED
    BY <1>0, <1>2, <2>1 DEF ServerInv, Unsent, Subscribes
<1>7. RepliesTell' /\ FlowsKnow' /\ SubscribedKnows'
  <2>1. \A g \in flows' : ~Handed(g)'
    BY <1>0 DEF ServerInv, Numbered, Handed, EarlyPc
  <2> QED
    BY <1>0, <1>4, <2>1 DEF RepliesTell, FlowsKnow, SubscribedKnows, Subscribes
<1>8. Expected'
  <2>1. h \in flows' /\ Current(h)' /\ Waits(h)'
    BY <1>0 DEF Current, Waits
  <2> QED
    BY <2>1 DEF Expected
<1>9. Alternates'
  BY <1>1, SendAlternates, Facts
<1> QED
  BY <1>3, <1>5, <1>6, <1>7, <1>8, <1>9 DEF ServerInv

-----------------------------------------------------------------------------
(* Messages of the server *)

LEMMA Received ==
    ASSUME Types, NEW op, Receives(op)
    PROVE  /\ session # 0 /\ ~Busy
           /\ Len(messages) \in Nat \ {0} /\ messages[1] = Head(messages) /\ messages[1].op = op
           /\ Len(messages') = Len(messages) - 1
           /\ \A i \in 1..Len(messages') : messages'[i] = messages[i + 1]
BY Facts DEF Receives

LEMMA NoneHanded ==
    ASSUME Types, session # 0, ~Busy
    PROVE  \A f \in flows : ~Handed(f)
BY DEF Busy, Handed

\* The messages behind the one that is received are told of what they were told of.
LEMMA RestOfReplies ==
    ASSUME Types, ServerInv, NEW op, Receives(op),
           UNCHANGED <<attempt, commands, held>>, refused' = "no" => refused = "no"
    PROVE  RepliesTell'
<1>1. SUFFICES ASSUME NEW i \in 1..Len(messages'), Subscribes(messages', i),
                      messages'[i].attempt = attempt
               PROVE  /\ commands = <<>>
                      /\ messages'[i].out = "ok" =>
                           (held /\ ~PushFrom(i + 1)') \/ (~held /\ PushFrom(i + 1)')
                      /\ messages'[i].out # "ok" /\ refused' = "no" => ~held
  BY Zenon DEF RepliesTell
<1>2. /\ i + 1 \in 1..Len(messages) /\ messages[i + 1] = messages'[i]
      /\ Subscribes(messages, i + 1)
  BY <1>1, Received DEF Subscribes
<1>3. PushFrom(i + 1)' <=> PushFrom(i + 2)
  <2>1. ASSUME PushFrom(i + 1)' PROVE PushFrom(i + 2)
    <3>1. PICK j \in (i + 1)..Len(messages') : messages'[j].op = "push"
      BY <2>1 DEF PushFrom
    <3>2. j + 1 \in (i + 2)..Len(messages) /\ messages[j + 1].op = "push"
      BY <1>1, <3>1, Received
    <3> QED
      BY <3>2 DEF PushFrom
  <2>2. ASSUME PushFrom(i + 2) PROVE PushFrom(i + 1)'
    <3>1. PICK j \in (i + 2)..Len(messages) : messages[j].op = "push"
      BY <2>2 DEF PushFrom
    <3>2. j - 1 \in (i + 1)..Len(messages') /\ messages'[j - 1].op = "push"
      BY <1>1, <3>1, Received
    <3> QED
      BY <3>2 DEF PushFrom
  <2> QED
    BY <2>1, <2>2
<1>4. (i + 1) + 1 = i + 2
  BY <1>1
<1> QED
  BY <1>1, <1>2, <1>3, <1>4 DEF ServerInv, RepliesTell

\* When the message is no push, as many pushes are on the way as before.
LEMMA PushesBehind ==
    ASSUME Types, NEW op, Receives(op)
    PROVE  /\ PushFrom(1)' <=> PushFrom(2)
           /\ op # "push" => (PushFrom(1)' <=> PushFrom(1))
<1>1. ASSUME PushFrom(1)' PROVE PushFrom(2)
  <2>1. PICK j \in 1..Len(messages') : messages'[j].op = "push"
    BY <1>1 DEF PushFrom
  <2>2. j + 1 \in 2..Len(messages) /\ messages[j + 1].op = "push"
    BY <2>1, Received
  <2> QED
    BY <2>2 DEF PushFrom
<1>2. ASSUME PushFrom(2) PROVE PushFrom(1)'
  <2>1. PICK j \in 2..Len(messages) : messages[j].op = "push"
    BY <1>2 DEF PushFrom
  <2>2. j - 1 \in 1..Len(messages') /\ messages'[j - 1].op = "push"
    BY <2>1, Received
  <2> QED
    BY <2>2 DEF PushFrom
<1>3. op # "push" => (PushFrom(1) <=> PushFrom(2))
  BY Received DEF PushFrom
<1> QED
  BY <1>1, <1>2, <1>3

\* What is behind the message keeps its attempts.
LEMMA RestOfOrder ==
    ASSUME Types, ServerInv, NEW op, Receives(op), UNCHANGED <<attempt, commands>>
    PROVE  /\ Ordered'
           /\ (\A f \in flows' : f.pc \in EarlyPc => f \in flows) => Unsent'
<1>1. \A i \in 1..Len(messages') :
        i + 1 \in 1..Len(messages) /\ messages'[i] = messages[i + 1]
  BY Received
<1>2. Ordered'
  BY <1>1 DEF ServerInv, Ordered, Subscribes
<1>3. (\A f \in flows' : f.pc \in EarlyPc => f \in flows) => Unsent'
  BY <1>1 DEF ServerInv, Unsent, Subscribes
<1> QED
  BY <1>2, <1>3

\* A message that changes nothing the server is told of.
LEMMA Dropped ==
    ASSUME Types, ServerInv, NEW op, Receives(op), op = "push" => state # "subscribed",
           UNCHANGED <<transport_id, session, state, attempt, commands, held, flows>>,
           refused' = "no" => refused = "no"
    PROVE  ServerInv'
<1>1. Linked' /\ Numbered'
  BY Received DEF ServerInv, Linked, Numbered
<1>2. Ordered' /\ Unsent'
  BY RestOfOrder
<1>3. RepliesTell'
  BY RestOfReplies
<1>4. FlowsKnow'
  BY Received, NoneHanded DEF FlowsKnow, Handed
<1>5. SubscribedKnows'
  BY PushesBehind DEF ServerInv, SubscribedKnows
<1>6. Expected'
  BY DEF ServerInv, Expected, WillHold, NoUnsubscribeFrom, Subscribes, Current, Waits
<1>7. Alternates'
  BY DEF ServerInv, Alternates, Subscribes
<1> QED
  BY <1>1, <1>2, <1>3, <1>4, <1>5, <1>6, <1>7 DEF ServerInv

\* A reply reaches the flow that waits for it, or is dropped.
LEMMA ServerReplies == ASSUME Types, ServerInv, ReplyArrives PROVE ServerInv'
<1> DEFINE m == Head(messages)
           reply(f) == f.pc = "reply" /\ f.attempt = m.attempt
           told(f) == Moved(f, "replied", m.out)
<1>0. /\ UNCHANGED <<transport_id, session, state, attempt, commands, held, refused>>
      /\ Receives("subscribe") /\ session # 0 /\ ~Busy
  BY Received DEF ReplyArrives, linkVars, subVars
<1>1. /\ \A f \in flows : told(f).conn = f.conn /\ told(f).attempt = f.attempt
                          /\ told(f).pc = "replied" /\ told(f).out = m.out
      /\ \A f \in flows : (~reply(f) => f \in flows') /\ (reply(f) => told(f) \in flows')
      /\ \A g \in flows' : \/ g \in flows /\ ~reply(g)
                          \/ \E f \in flows : reply(f) /\ g = told(f)
  <2>1. \A f \in flows : told(f).conn = f.conn /\ told(f).attempt = f.attempt
                         /\ told(f).pc = "replied" /\ told(f).out = m.out
    BY MovedFacts
  <2>2. flows' = (flows \ {f \in flows : reply(f)}) \cup {told(f) : f \in {g \in flows : reply(g)}}
    BY DEF ReplyArrives, Moved
  <2> HIDE DEF told, reply
  <2> QED
    BY <2>1, <2>2
<1> HIDE DEF told
<1>2. Linked' /\ Numbered'
  BY <1>0, <1>1 DEF ServerInv, Linked, Numbered
<1>3. Ordered' /\ Unsent'
  BY <1>0, <1>1, RestOfOrder DEF EarlyPc
<1>4. RepliesTell' /\ SubscribedKnows'
  BY <1>0, RestOfReplies, PushesBehind DEF ServerInv, SubscribedKnows
<1>5. m.attempt = attempt =>
        /\ commands = <<>>
        /\ m.out = "ok" => (held /\ ~PushFrom(2)) \/ (~held /\ PushFrom(2))
        /\ m.out # "ok" /\ refused = "no" => ~held
  BY <1>0, Received DEF ServerInv, RepliesTell, Subscribes
<1>6. FlowsKnow'
  <2>1. SUFFICES ASSUME NEW g \in flows', Handed(g)'
                 PROVE  /\ commands' = <<>>
                        /\ g.out = "ok" =>
                             (held' /\ ~PushFrom(1)') \/ (~held' /\ PushFrom(1)')
                        /\ g.out # "ok" /\ refused' = "no" => ~held'
    BY Zenon DEF FlowsKnow
  <2>2. g \notin flows
    BY <1>0, <2>1, NoneHanded DEF Handed
  <2>3. m.attempt = attempt /\ g.out = m.out
    BY <1>0, <1>1, <2>1, <2>2 DEF Handed
  <2>4. PushFrom(1)' <=> PushFrom(2)
    BY <1>0, PushesBehind
  <2> QED
    BY <1>0, <1>5, <2>3, <2>4
<1>7. Expected'
  <2>1. SUFFICES ASSUME refused = "no", WillHold, state # "subscribed"
                 PROVE  \E g \in flows' : Current(g)' /\ Waits(g)'
    BY <1>0 DEF Expected, WillHold, NoUnsubscribeFrom, Subscribes
  <2>2. PICK f \in flows : Current(f) /\ Waits(f)
    BY <2>1 DEF ServerInv, Expected
  <2>3. CASE ~reply(f)
    BY <1>0, <1>1, <2>2, <2>3 DEF Current, Waits
  <2>4. CASE reply(f)
    <3>1. m.attempt = attempt
      BY <2>2, <2>4 DEF Current
    <3>2. m.out = "ok"
      BY <1>5, <2>1, <3>1 DEF WillHold
    <3> QED
      BY <1>0, <1>1, <2>2, <2>4, <3>2 DEF Current, Waits
  <2> QED
    BY <2>3, <2>4
<1>8. Alternates'
  BY <1>0 DEF ServerInv, Alternates, Subscribes
<1> QED
  BY <1>2, <1>3, <1>4, <1>6, <1>7, <1>8 DEF ServerInv

LEMMA ServerWire == ASSUME Types, ServerInv, Wire PROVE ServerInv'
<1>1. CASE UnsubscribeReplyArrives
  BY <1>1, Dropped DEF UnsubscribeReplyArrives, linkVars, subVars
<1>2. CASE PushArrives /\ state # "subscribed"
  BY <1>2, Dropped DEF PushArrives, linkVars, subVars
<1>3. CASE PushArrives /\ state = "subscribed"
  <2>1. /\ attempt' = attempt + 1 /\ state' # "subscribed" /\ Receives("push")
        /\ UNCHANGED <<transport_id, session, commands, held, refused, flows>>
    BY <1>3 DEF PushArrives, MoveUnsubscribed, EnterSubscribing, linkVars
  <2>2. PushFrom(1) /\ ~WillHold
    <3>1. PushFrom(1)
      BY <2>1, Received DEF PushFrom
    <3> QED
      BY <1>3, <3>1 DEF ServerInv, SubscribedKnows, WillHold
  <2>3. Linked' /\ Numbered'
    BY <2>1, Received, Facts DEF ServerInv, Linked, Numbered
  <2>4. Len(messages') \in Nat /\ \A i \in 1..Len(messages') :
          i + 1 \in 1..Len(messages) /\ messages'[i] = messages[i + 1]
    BY <2>1, Received
  <2>5. Ordered' /\ Unsent'
    <3>1. Ordered'
      BY <2>1, <2>4, Facts DEF ServerInv, Ordered, Subscribes
    <3>2. Unsent'
      BY <2>1, <2>4 DEF ServerInv, Unsent, Subscribes
    <3> QED
      BY <3>1, <3>2
  <2>6. RepliesTell' /\ FlowsKnow' /\ SubscribedKnows'
    <3>1. \A i \in 1..Len(messages') :
            Subscribes(messages', i) => messages'[i].attempt # attempt'
      BY <2>1, <2>4, Facts DEF ServerInv, Ordered, Subscribes
    <3>2. \A f \in flows' : ~Handed(f)'
      BY <2>1, Facts DEF ServerInv, Numbered, Handed
    <3> QED
      BY <2>1, <3>1, <3>2 DEF RepliesTell, FlowsKnow, SubscribedKnows
  <2>7. Expected' /\ Alternates'
    <3>1. ~WillHold'
      BY <2>1, <2>2 DEF WillHold, NoUnsubscribeFrom, Subscribes
    <3> QED
      BY <2>1, <3>1 DEF Expected, ServerInv, Alternates, Subscribes
  <2> QED
    BY <2>3, <2>5, <2>6, <2>7 DEF ServerInv
<1>4. CASE ReplyArrives
  BY <1>4, ServerReplies
<1> QED
  BY <1>1, <1>2, <1>3, <1>4 DEF Wire

-----------------------------------------------------------------------------
(* Steps of the server *)

\* A command that is handled, and a message that is delivered.
LEMMA HandledFacts ==
    ASSUME Types, NEW op, ServerHandles(op), NEW i \in Nat, NEW out, NEW reply, Deliver(reply, i, out)
    PROVE  /\ UNCHANGED <<transport_id, session, state, attempt, flows>>
           /\ Len(commands) \in Nat \ {0} /\ commands[1] = Head(commands) /\ commands[1].op = op
           /\ Len(commands') = Len(commands) - 1 /\ commands' \in Seq(Command)
           /\ \A j \in 1..Len(commands') : commands'[j] = commands[j + 1]
           /\ Len(messages') = Len(messages) + 1 /\ Len(messages) \in Nat
           /\ \A j \in 1..Len(messages) : messages'[j] = messages[j]
           /\ messages'[Len(messages')] = [op |-> reply, attempt |-> i, out |-> out]
<1>1. UNCHANGED <<transport_id, session, state, attempt, flows>>
  BY DEF ServerHandles, linkVars, subVars
<1>2. commands \in Seq(Command) /\ commands # <<>> /\ commands' = Tail(commands)
      /\ Head(commands).op = op
  BY Facts DEF ServerHandles
<1>3. messages' = Append(messages, [op |-> reply, attempt |-> i, out |-> out])
      /\ messages \in Seq(Answer)
  BY Facts DEF Deliver
<1>4. /\ Len(commands) \in Nat \ {0} /\ commands[1] = Head(commands)
      /\ Len(commands') = Len(commands) - 1 /\ commands' \in Seq(Command)
      /\ \A j \in 1..Len(commands') : commands'[j] = commands[j + 1]
  BY <1>2
<1>5. /\ Len(messages') = Len(messages) + 1 /\ Len(messages) \in Nat
      /\ \A j \in 1..Len(messages) : messages'[j] = messages[j]
      /\ messages'[Len(messages')] = [op |-> reply, attempt |-> i, out |-> out]
  BY <1>3
<1> QED
  BY <1>1, <1>2, <1>4, <1>5

\* While a command is on the way no reply of the present attempt is, no flow was handed
\* one, and the subscription is not subscribed.
LEMMA CommandOnTheWay ==
    ASSUME Types, ServerInv, commands # <<>>
    PROVE  /\ session # 0 /\ state # "subscribed"
           /\ \A i \in 1..Len(messages) : Subscribes(messages, i) => messages[i].attempt # attempt
           /\ \A f \in flows : ~Handed(f)
BY DEF ServerInv, Linked, SubscribedKnows, RepliesTell, FlowsKnow

\* What is said of the commands behind the one that is handled.
Behind ==
    /\ Len(commands) \in Nat \ {0} /\ Len(commands') = Len(commands) - 1
    /\ \A j \in 1..Len(commands') : commands'[j] = commands[j + 1]

LEMMA LaterCommands ==
    ASSUME Behind,
           \E i \in 1..Len(commands') : Subscribes(commands', i) /\ NoUnsubscribeFrom(i + 1)'
    PROVE  WillHold
<1>1. PICK i \in 1..Len(commands') : Subscribes(commands', i) /\ NoUnsubscribeFrom(i + 1)'
  OBVIOUS
<1>2. i + 1 \in 1..Len(commands) /\ Subscribes(commands, i + 1)
  BY <1>1 DEF Behind, Subscribes
<1>3. ASSUME NEW j \in ((i + 1) + 1)..Len(commands) PROVE commands[j].op # "unsubscribe"
  <2>1. j - 1 \in (i + 1)..Len(commands') /\ commands'[j - 1] = commands[j]
    BY <1>1, <1>3 DEF Behind
  <2> QED
    BY <1>1, <2>1 DEF NoUnsubscribeFrom
<1> QED
  BY <1>2, <1>3 DEF WillHold, NoUnsubscribeFrom

LEMMA LaterAlternate ==
    ASSUME Behind, ServerInv, refused = "no"
    PROVE  \A a, b \in 1..Len(commands') :
             a < b /\ Subscribes(commands', a) /\ Subscribes(commands', b)
             => \E k \in (a + 1)..(b - 1) : commands'[k].op = "unsubscribe"
<1>1. SUFFICES ASSUME NEW a \in 1..Len(commands'), NEW b \in 1..Len(commands'), a < b,
                      Subscribes(commands', a), Subscribes(commands', b)
               PROVE  \E k \in (a + 1)..(b - 1) : commands'[k].op = "unsubscribe"
  OBVIOUS
<1>2. /\ a + 1 \in 1..Len(commands) /\ Subscribes(commands, a + 1)
      /\ b + 1 \in 1..Len(commands) /\ Subscribes(commands, b + 1) /\ a + 1 < b + 1
  BY <1>1 DEF Behind, Subscribes
<1>3. PICK k \in ((a + 1) + 1)..((b + 1) - 1) : commands[k].op = "unsubscribe"
  BY <1>2 DEF ServerInv, Alternates
<1>4. k - 1 \in (a + 1)..(b - 1) /\ k - 1 \in 1..Len(commands') /\ (k - 1) + 1 = k
  BY <1>1, <1>3 DEF Behind
<1>5. commands'[k - 1] = commands[k]
  BY <1>4 DEF Behind
<1> QED
  BY <1>3, <1>4, <1>5

LEMMA ServerSubscribesKeeps == ASSUME Types, ServerInv, ServerSubscribes PROVE ServerInv'
<1> DEFINE c == Head(commands)
<1>0. commands # <<>> /\ c \in Command /\ c.op = "subscribe" /\ c.attempt \in Nat
  <2>1. commands # <<>> /\ c \in Command /\ c.op = "subscribe"
    BY Facts DEF ServerSubscribes, ServerHandles
  <2> QED
    BY <2>1 DEF Command
<1>1. PICK out \in SubscribeError \cup {"ok"} :
        /\ Deliver("subscribe", c.attempt, out)
        /\ out = "ok" => held' = TRUE
        /\ held' = FALSE => out # "ok" /\ held = FALSE
        /\ held' = TRUE => out = "ok" \/ held = TRUE
  <2>1. CASE /\ Deliver("subscribe", c.attempt, IF held THEN "permanent" ELSE "ok")
             /\ held' = TRUE
    <3>1. held = TRUE \/ held = FALSE
      BY DEF Types, WireTypes
    <3>2. CASE held = TRUE
      <4>1. Deliver("subscribe", c.attempt, "permanent")
        BY <2>1, <3>2
      <4> QED
        BY <2>1, <3>2, <4>1 DEF SubscribeError
    <3>3. CASE held = FALSE
      <4>1. Deliver("subscribe", c.attempt, "ok")
        BY <2>1, <3>3
      <4> QED
        BY <2>1, <3>3, <4>1
    <3> QED
      BY <3>1, <3>2, <3>3
  <2>2. CASE /\ ~held /\ UNCHANGED held
             /\ \E out \in SubscribeError : Deliver("subscribe", c.attempt, out)
    <3>1. PICK out \in SubscribeError : Deliver("subscribe", c.attempt, out)
      BY <2>2
    <3>2. held = FALSE /\ held' = FALSE /\ out # "ok"
      BY <2>2 DEF Types, WireTypes, SubscribeError
    <3> QED
      BY <3>1, <3>2
  <2> QED
    BY <2>1, <2>2 DEF ServerSubscribes
<1>2. /\ UNCHANGED <<transport_id, session, state, attempt, flows>> /\ refused' = refused
      /\ Len(commands) \in Nat \ {0} /\ commands[1] = c /\ Subscribes(commands, 1)
      /\ Len(commands') = Len(commands) - 1 /\ commands' \in Seq(Command)
      /\ \A j \in 1..Len(commands') : commands'[j] = commands[j + 1]
      /\ Len(messages') = Len(messages) + 1 /\ Len(messages) \in Nat
      /\ \A j \in 1..Len(messages) : messages'[j] = messages[j]
      /\ messages'[Len(messages')] = [op |-> "subscribe", attempt |-> c.attempt, out |-> out]
  BY <1>0, <1>1, HandledFacts DEF ServerSubscribes, Subscribes
<1> HIDE DEF c
<1>3. Linked' /\ Numbered'
  BY <1>0, <1>2, CommandOnTheWay DEF ServerInv, Linked, Numbered
<1>4. c.attempt <= attempt /\ (c.attempt = attempt => Len(commands) = 1)
  BY <1>2 DEF ServerInv, Ordered
<1>5. Ordered'
  <2>1. \A i \in 1..Len(commands') : Subscribes(commands', i) =>
          /\ commands'[i].attempt <= attempt'
          /\ commands'[i].attempt = attempt' => i = Len(commands')
    <3>1. \A i \in 1..Len(commands') : Subscribes(commands', i) =>
            /\ i + 1 \in 1..Len(commands) /\ Subscribes(commands, i + 1)
            /\ commands'[i] = commands[i + 1]
      BY <1>2 DEF Subscribes
    <3>2. \A i \in 1..Len(commands') : i + 1 = Len(commands) => i = Len(commands')
      BY <1>2
    <3> QED
      BY <1>2, <3>1, <3>2 DEF ServerInv, Ordered
  <2>2. \A i \in 1..Len(messages') : Subscribes(messages', i) => messages'[i].attempt <= attempt'
    <3>1. \A i \in 1..Len(messages) : Subscribes(messages', i) => messages'[i].attempt <= attempt
      BY <1>2 DEF ServerInv, Ordered, Subscribes
    <3>2. messages'[Len(messages')].attempt <= attempt
      BY <1>2, <1>4
    <3> QED
      BY <1>2, <3>1, <3>2
  <2> QED
    BY <2>1, <2>2 DEF Ordered
<1>6. Unsent'
  <2>1. SUFFICES ASSUME NEW f \in flows, f.pc \in EarlyPc
                 PROVE  /\ \A i \in 1..Len(commands') :
                             Subscribes(commands', i) => commands'[i].attempt # f.attempt
                        /\ \A i \in 1..Len(messages') :
                             Subscribes(messages', i) => messages'[i].attempt # f.attempt
    BY <1>2 DEF Unsent
  <2>2. \A i \in 1..Len(commands') : Subscribes(commands', i) => commands'[i].attempt # f.attempt
    BY <1>2, <2>1 DEF ServerInv, Unsent, Subscribes
  <2>3. c.attempt # f.attempt
    BY <1>2, <2>1 DEF ServerInv, Unsent
  <2>4. \A i \in 1..Len(messages) : Subscribes(messages', i) => messages'[i].attempt # f.attempt
    BY <1>2, <2>1 DEF ServerInv, Unsent, Subscribes
  <2> QED
    BY <1>2, <2>2, <2>3, <2>4
<1>7. FlowsKnow' /\ SubscribedKnows'
  BY <1>0, <1>2, CommandOnTheWay DEF FlowsKnow, SubscribedKnows, Handed
<1>8. refused = "no" => ~held
  BY <1>2 DEF ServerInv, Alternates
<1>9. RepliesTell'
  <2>1. SUFFICES ASSUME NEW i \in 1..Len(messages'), Subscribes(messages', i),
                        messages'[i].attempt = attempt
                 PROVE  /\ commands' = <<>>
                        /\ messages'[i].out = "ok" =>
                             (held' /\ ~PushFrom(i + 1)') \/ (~held' /\ PushFrom(i + 1)')
                        /\ messages'[i].out # "ok" /\ refused' = "no" => ~held'
    BY <1>2, Zenon DEF RepliesTell
  <2>2. i = Len(messages')
    BY <1>0, <1>2, <2>1, CommandOnTheWay DEF Subscribes
  <2>3. c.attempt = attempt /\ messages'[i].out = out
    BY <1>2, <2>1, <2>2
  <2>4. commands' = <<>>
    <3>1. Len(commands) = 1 /\ Len(commands') = Len(commands) - 1
      BY <1>2, <1>4, <2>3
    <3>2. Len(commands') = 0
      BY <3>1
    <3>3. commands' \in Seq(Command)
      BY <1>2
    <3> QED
      BY <3>2, <3>3, EmptySeq
  <2>5. ~PushFrom(i + 1)'
    BY <1>2, <2>2 DEF PushFrom
  <2>6. out = "ok" => held' = TRUE
    BY <1>1
  <2>7. out # "ok" /\ refused' = "no" => ~held'
    BY <1>1, <1>2, <1>8
  <2> QED
    BY <2>3, <2>4, <2>5, <2>6, <2>7
<1>10. Expected'
  <2>1. SUFFICES ASSUME refused = "no", WillHold' PROVE WillHold
    BY <1>2 DEF ServerInv, Expected, Current, Waits
  <2>2. CASE held' /\ NoUnsubscribeFrom(1)'
    <3>1. NoUnsubscribeFrom(2)
      <4>1. SUFFICES ASSUME NEW j \in 2..Len(commands) PROVE commands[j].op # "unsubscribe"
        BY DEF NoUnsubscribeFrom
      <4>2. j - 1 \in 1..Len(commands') /\ commands'[j - 1] = commands[j]
        BY <1>2, <4>1
      <4> QED
        BY <2>2, <4>2 DEF NoUnsubscribeFrom
    <3>2. 1 \in 1..Len(commands) /\ NoUnsubscribeFrom(1 + 1)
      BY <1>2, <3>1
    <3> QED
      BY <1>2, <3>2 DEF WillHold
  <2>3. CASE \E i \in 1..Len(commands') : Subscribes(commands', i) /\ NoUnsubscribeFrom(i + 1)'
    BY <1>2, <2>3, LaterCommands DEF Behind
  <2> QED
    BY <2>1, <2>2, <2>3 DEF WillHold
<1>11. Alternates'
  <2>1. SUFFICES ASSUME refused = "no" PROVE Alternates'
    BY <1>2 DEF Alternates
  <2>2. \A a, b \in 1..Len(commands') : a < b /\ Subscribes(commands', a) /\ Subscribes(commands', b)
          => \E k \in (a + 1)..(b - 1) : commands'[k].op = "unsubscribe"
    BY <1>2, <2>1, LaterAlternate DEF Behind
  <2>3. ASSUME NEW b \in 1..Len(commands'), Subscribes(commands', b)
        PROVE  \E k \in 1..(b - 1) : commands'[k].op = "unsubscribe"
    <3>1. b + 1 \in 1..Len(commands) /\ Subscribes(commands, b + 1)
      BY <1>2, <2>3 DEF Subscribes
    <3>2. PICK k \in 2..b : commands[k].op = "unsubscribe"
      BY <1>2, <2>1, <3>1 DEF ServerInv, Alternates
    <3>3. k - 1 \in 1..(b - 1) /\ commands'[k - 1].op = "unsubscribe"
      BY <1>2, <2>3, <3>2
    <3> QED
      BY <3>3
  <2> QED
    BY <2>2, <2>3 DEF Alternates
<1> QED
  BY <1>3, <1>5, <1>6, <1>7, <1>9, <1>10, <1>11 DEF ServerInv

LEMMA ServerUnsubscribesKeeps == ASSUME Types, ServerInv, ServerUnsubscribes PROVE ServerInv'
<1>1. PICK out \in {"ok", "refused"} :
        /\ Deliver("unsubscribe", 0, out)
        /\ refused' = "no" => refused = "no" /\ held' = FALSE
  BY DEF ServerUnsubscribes
<1>2. /\ UNCHANGED <<transport_id, session, state, attempt, flows>>
      /\ Behind /\ commands # <<>> /\ commands' \in Seq(Command)
      /\ Len(messages') = Len(messages) + 1 /\ Len(messages) \in Nat
      /\ \A j \in 1..Len(messages) : messages'[j] = messages[j]
      /\ messages'[Len(messages')].op = "unsubscribe"
  <2>1. ServerHandles("unsubscribe") /\ commands # <<>>
    BY DEF ServerUnsubscribes, ServerHandles
  <2>2. UNCHANGED <<transport_id, session, state, attempt, flows>> /\ Behind
        /\ commands' \in Seq(Command)
    BY <1>1, <2>1, HandledFacts DEF Behind
  <2>3. /\ Len(messages') = Len(messages) + 1 /\ Len(messages) \in Nat
        /\ \A j \in 1..Len(messages) : messages'[j] = messages[j]
        /\ messages'[Len(messages')] = [op |-> "unsubscribe", attempt |-> 0, out |-> out]
    BY <1>1, <2>1, HandledFacts
  <2> QED
    BY <2>1, <2>2, <2>3
<1>3. /\ \A i \in 1..Len(commands') : Subscribes(commands', i) =>
            /\ i + 1 \in 1..Len(commands) /\ Subscribes(commands, i + 1)
            /\ commands'[i] = commands[i + 1]
      /\ \A i \in 1..Len(commands') : i + 1 = Len(commands) => i = Len(commands')
  BY <1>2 DEF Behind, Subscribes
<1>4. \A i \in 1..Len(messages') : Subscribes(messages', i) =>
        /\ i \in 1..Len(messages) /\ Subscribes(messages, i) /\ messages'[i] = messages[i]
  BY <1>2 DEF Subscribes
<1>5. Linked' /\ Numbered'
  BY <1>2, CommandOnTheWay DEF ServerInv, Linked, Numbered
<1>6. Ordered' /\ Unsent'
  <2>1. Ordered'
    <3>1. \A i \in 1..Len(commands') : Subscribes(commands', i) =>
            /\ commands'[i].attempt <= attempt
            /\ commands'[i].attempt = attempt => i = Len(commands')
      BY <1>3 DEF ServerInv, Ordered
    <3>2. \A i \in 1..Len(messages') : Subscribes(messages', i) => messages'[i].attempt <= attempt
      BY <1>4 DEF ServerInv, Ordered
    <3> QED
      BY <1>2, <3>1, <3>2 DEF Ordered
  <2>2. Unsent'
    BY <1>2, <1>3, <1>4 DEF ServerInv, Unsent
  <2> QED
    BY <2>1, <2>2
<1>7. RepliesTell' /\ FlowsKnow' /\ SubscribedKnows'
  <2>1. \A i \in 1..Len(messages') : Subscribes(messages', i) => messages'[i].attempt # attempt'
    BY <1>2, <1>4, CommandOnTheWay
  <2>2. \A f \in flows' : ~Handed(f)'
    BY <1>2, CommandOnTheWay DEF Handed
  <2>3. state' # "subscribed"
    BY <1>2, CommandOnTheWay
  <2> QED
    BY <2>1, <2>2, <2>3 DEF RepliesTell, FlowsKnow, SubscribedKnows
<1>8. Expected'
  <2>1. SUFFICES ASSUME refused' = "no", WillHold' PROVE WillHold
    BY <1>1, <1>2 DEF ServerInv, Expected, Current, Waits
  <2>2. \E i \in 1..Len(commands') : Subscribes(commands', i) /\ NoUnsubscribeFrom(i + 1)'
    BY <1>1, <2>1 DEF WillHold
  <2> QED
    BY <1>2, <2>2, LaterCommands
<1>9. Alternates'
  <2>1. SUFFICES ASSUME refused' = "no" PROVE Alternates'
    BY DEF Alternates
  <2>2. \A a, b \in 1..Len(commands') : a < b /\ Subscribes(commands', a) /\ Subscribes(commands', b)
          => \E k \in (a + 1)..(b - 1) : commands'[k].op = "unsubscribe"
    BY <1>1, <1>2, <2>1, LaterAlternate
  <2> QED
    BY <1>1, <2>1, <2>2 DEF Alternates
<1> QED
  BY <1>5, <1>6, <1>7, <1>8, <1>9 DEF ServerInv

LEMMA ServerPushesKeeps == ASSUME Types, ServerInv, ServerPushes PROVE ServerInv'
<1>1. /\ UNCHANGED <<transport_id, session, state, attempt, flows, commands, refused>>
      /\ held /\ held' = FALSE
  BY DEF ServerPushes, linkVars, subVars
<1>2. PICK out : Deliver("push", 0, out)
  BY DEF ServerPushes
<1>3. /\ Len(messages') = Len(messages) + 1 /\ Len(messages) \in Nat
      /\ \A j \in 1..Len(messages) : messages'[j] = messages[j]
      /\ messages'[Len(messages')].op = "push"
  BY <1>2, Facts DEF Deliver
<1>4. \A i \in 1..Len(messages') : Subscribes(messages', i) =>
        i \in 1..Len(messages) /\ Subscribes(messages, i) /\ messages'[i] = messages[i]
  BY <1>3 DEF Subscribes
<1>5. Linked' /\ Numbered'
  BY <1>1 DEF ServerInv, Linked, Numbered
<1>6. Ordered' /\ Unsent'
  BY <1>1, <1>4 DEF ServerInv, Ordered, Unsent, Subscribes
<1>7. \A i \in 1..(Len(messages) + 1) : PushFrom(i)'
  BY <1>3 DEF PushFrom
<1>8. RepliesTell'
  <2>1. SUFFICES ASSUME NEW i \in 1..Len(messages'), Subscribes(messages', i),
                        messages'[i].attempt = attempt
                 PROVE  commands = <<>> /\ PushFrom(i + 1)'
    BY <1>1, Zenon DEF RepliesTell
  <2>2. i \in 1..Len(messages) /\ Subscribes(messages, i) /\ messages[i].attempt = attempt
    BY <1>4, <2>1
  <2>3. i + 1 \in 1..(Len(messages) + 1)
    BY <1>3, <2>2
  <2> QED
    BY <1>7, <2>2, <2>3 DEF ServerInv, RepliesTell
<1>9. FlowsKnow' /\ SubscribedKnows'
  <2>1. PushFrom(1)'
    BY <1>3, <1>7
  <2>2. (\A f \in flows' : Handed(f)' => commands = <<>>)
        /\ (state' = "subscribed" => session # 0 /\ commands = <<>>)
    BY <1>1 DEF ServerInv, FlowsKnow, SubscribedKnows, Handed
  <2> QED
    BY <1>1, <2>1, <2>2 DEF FlowsKnow, SubscribedKnows
<1>10. Expected' /\ Alternates'
  <2>1. WillHold' => WillHold
    BY <1>1 DEF WillHold, NoUnsubscribeFrom, Subscribes
  <2>2. Expected'
    BY <1>1, <2>1 DEF ServerInv, Expected, Current, Waits
  <2>3. Alternates'
    BY <1>1 DEF ServerInv, Alternates, Subscribes
  <2> QED
    BY <2>2, <2>3
<1> QED
  BY <1>5, <1>6, <1>8, <1>9, <1>10 DEF ServerInv

-----------------------------------------------------------------------------
(* Every step *)

LEMMA ServerApplication == ASSUME Types, ServerInv, Application PROVE ServerInv'
<1>1. CASE Subscribe
  <2>1. /\ UNCHANGED <<transport_id, session, attempt, wireVars, flows>>
        /\ state = "unsubscribed" /\ state' = "subscribing"
    BY <1>1 DEF Subscribe, linkVars
  <2>2. Linked' /\ Numbered' /\ Ordered' /\ Unsent'
    BY <2>1 DEF ServerInv, wireVars, Linked, Numbered, Ordered, Unsent, Subscribes
  <2>3. RepliesTell' /\ FlowsKnow' /\ SubscribedKnows'
    BY <2>1 DEF ServerInv, wireVars, RepliesTell, FlowsKnow, SubscribedKnows, Subscribes, PushFrom,
       Handed
  <2>4. Expected' /\ Alternates'
    <3>1. refused = "no" => ~WillHold
      BY <2>1 DEF ServerInv, Expected, Current
    <3>2. WillHold' => WillHold
      BY <2>1 DEF wireVars, WillHold, NoUnsubscribeFrom, Subscribes
    <3>3. Expected'
      BY <2>1, <3>1, <3>2 DEF Expected, wireVars
    <3>4. Alternates'
      BY <2>1 DEF ServerInv, wireVars, Alternates, Subscribes
    <3> QED
      BY <3>3, <3>4
  <2> QED
    BY <2>2, <2>3, <2>4 DEF ServerInv
<1>2. CASE Unsubscribe
  <2>1. /\ attempt' = attempt + 1 /\ state' # "subscribed" /\ flows' = flows
        /\ UNCHANGED <<transport_id, session, held, refused, messages>>
    BY <1>2 DEF Unsubscribe, MoveUnsubscribed, linkVars
  <2>2. \/ session # 0 /\ Send("unsubscribe", 0)
        \/ session = 0 /\ UNCHANGED commands
    BY <1>2 DEF Unsubscribe, TellsServer
  <2>3. session = 0 => ~WillHold
    BY DEF ServerInv, Linked, WillHold
  <2> QED
    BY <2>1, <2>2, <2>3, LeavesAttempt
<1> QED
  BY <1>1, <1>2 DEF Application

LEMMA ServerConnected == ASSUME Types, ServerInv, Connected PROVE ServerInv'
<1>1. /\ session = 0 /\ session' = transport_id /\ session' # 0
      /\ UNCHANGED <<transport_id, state, attempt, wireVars, flows>>
  BY Facts DEF Connected, Link!Open, subVars
<1>2. /\ commands = <<>> /\ messages = <<>> /\ held = FALSE
      /\ commands' = <<>> /\ messages' = <<>> /\ held' = FALSE
      /\ \A f \in flows : f.conn < transport_id
  BY <1>1 DEF ServerInv, Linked, wireVars
<1>3. Linked' /\ Numbered' /\ Ordered' /\ Unsent' /\ RepliesTell' /\ Alternates'
  BY <1>1, <1>2 DEF ServerInv, Linked, Numbered, Ordered, Unsent, RepliesTell, Alternates
<1>4. FlowsKnow'
  BY <1>1, <1>2, Facts DEF FlowsKnow, Handed
<1>5. SubscribedKnows' /\ Expected'
  BY <1>1, <1>2 DEF ServerInv, SubscribedKnows, Expected, WillHold
<1> QED
  BY <1>3, <1>4, <1>5 DEF ServerInv

LEMMA ServerStart == ASSUME Types, ServerInv, StartFlow PROVE ServerInv'
<1>0. UNCHANGED <<transport_id, session, state, messages, held, refused>>
  BY DEF StartFlow, linkVars
<1>1. CASE UNCHANGED <<attempt, flows, commands>>
  BY <1>0, <1>1, ServerSame DEF serverVars, wireVars
<1>2. CASE ~(session = 0 \/ state # "subscribing" \/ InFlight)
  <2>1. /\ session # 0 /\ state = "subscribing" /\ ~InFlight /\ attempt' = attempt + 1
    BY <1>2 DEF StartFlow
  <2>2. CASE flows' = flows \cup {NewFlow} /\ UNCHANGED commands
    <3>1. NewFlow.conn = transport_id /\ NewFlow.attempt = attempt + 1 /\ NewFlow.pc \in EarlyPc
      BY DEF NewFlow, EarlyPc
    <3> QED
      BY <1>0, <2>1, <2>2, <3>1, StartsFlow
  <2>3. CASE Proceed(flows, NewFlow)
    <3>1. /\ \A pc : /\ [NewFlow EXCEPT !.pc = pc].conn = transport_id
                     /\ [NewFlow EXCEPT !.pc = pc].attempt = attempt + 1
                     /\ [NewFlow EXCEPT !.pc = pc].pc = pc
          /\ NewFlow.attempt = attempt + 1
      BY DEF NewFlow
    <3>2. CASE flows' = flows \cup {[NewFlow EXCEPT !.pc = "token"]} /\ UNCHANGED commands
      <4>1. [NewFlow EXCEPT !.pc = "token"].pc \in EarlyPc
        BY <3>1 DEF EarlyPc
      <4> QED
        BY <1>0, <2>1, <3>1, <3>2, <4>1, StartsFlow
    <3>3. CASE /\ flows' = flows \cup {[NewFlow EXCEPT !.pc = "reply"]}
               /\ Send("subscribe", attempt + 1)
      BY <1>0, <2>1, <3>1, <3>3, StartsFlow
    <3> QED
      BY <2>3, <3>1, <3>2, <3>3 DEF Proceed
  <2> QED
    BY <1>2, <2>2, <2>3 DEF StartFlow
<1> QED
  BY <1>1, <1>2 DEF StartFlow

LEMMA ServerGoesOn == ASSUME Types, ServerInv, GetStateReturns \/ TokenReturns PROVE ServerInv'
<1>1. PICK f \in flows : /\ f.pc \in {"getState", "token"}
                         /\ UNCHANGED <<linkVars, state, attempt, messages, held, refused>>
                         /\ \/ ~Current(f) /\ Ends(f) /\ UNCHANGED commands
                            \/ Current(f) /\ Proceed(flows \ {f}, f)
                            \/ Current(f) /\ flows' = At(f, "reply", "none")
                               /\ Send("subscribe", f.attempt)
  BY DEF GetStateReturns, TokenReturns, subVars
<1>2. f.pc \in EarlyPc /\ ~Waits(f)
  BY <1>1 DEF EarlyPc, Waits
<1>3. CASE ~Current(f) /\ Ends(f) /\ UNCHANGED commands
  BY <1>1, <1>3, FlowEnds DEF serverVars, wireVars, linkVars
<1>4. CASE Current(f) /\ flows' = At(f, "reply", "none") /\ Send("subscribe", f.attempt)
  BY <1>1, <1>2, <1>4, MovedFacts, SendsLater DEF linkVars
<1>5. CASE Current(f) /\ Proceed(flows \ {f}, f)
  <2>1. /\ [f EXCEPT !.pc = "token"] = Moved(f, "token", f.out)
        /\ [f EXCEPT !.pc = "reply"] = Moved(f, "reply", f.out)
    BY DEF Types, FlowTypes, Flow, Moved
  <2>2. CASE flows' = (flows \ {f}) \cup {[f EXCEPT !.pc = "token"]} /\ UNCHANGED commands
    <3>1. flows' = At(f, "token", f.out)
      BY <2>1, <2>2, MovedFacts
    <3> QED
      BY <1>1, <1>2, <2>2, <3>1, FlowGoesOn DEF serverVars, wireVars, linkVars
  <2>3. CASE /\ flows' = (flows \ {f}) \cup {[f EXCEPT !.pc = "reply"]}
             /\ Send("subscribe", f.attempt)
    BY <1>1, <1>2, <1>5, <2>1, <2>3, MovedFacts, SendsLater DEF linkVars
  <2> QED
    BY <1>5, <2>2, <2>3 DEF Proceed
<1> QED
  BY <1>1, <1>3, <1>4, <1>5

LEMMA ServerAnswers == ASSUME Types, ServerInv, Answers PROVE ServerInv'
<1>1. CASE GetStateReturns \/ TokenReturns
  BY <1>1, ServerGoesOn
<1>2. CASE GetStateFails \/ GetStateCancelled
  <2>1. PICK f \in flows : /\ f.pc = "getState" /\ UNCHANGED serverVars
                           /\ Ends(f) \/ flows' = At(f, "stateHandler", "none")
    BY <1>2 DEF GetStateFails, GetStateCancelled, linkVars, subVars, serverVars
  <2>2. f.pc \in EarlyPc /\ ~Waits(f)
    BY <2>1 DEF EarlyPc, Waits
  <2> QED
    BY <2>1, <2>2, FlowEnds, FlowGoesOn
<1>3. CASE TokenFails
  <2>1. PICK f \in flows : TokenFails!(f)
    BY <1>3 DEF TokenFails
  <2>2. f.pc \in EarlyPc /\ ~Waits(f)
    BY <2>1 DEF EarlyPc, Waits
  <2>3. CASE UNCHANGED subVars /\ (Ends(f) \/ flows' = At(f, "tokenHandler", "none"))
    BY <2>1, <2>2, <2>3, FlowEnds, FlowGoesOn DEF serverVars, linkVars, subVars
  <2>4. CASE Current(f) /\ Ends(f) /\ MoveUnsubscribed
    <3>1. refused = "no" => ~WillHold
      BY <2>2, <2>4, NotExpected
    <3> QED
      BY <2>1, <2>4, <3>1, LeavesAttempt DEF MoveUnsubscribed, Ends, linkVars, wireVars
  <2> QED
    BY <2>1, <2>3, <2>4
<1> QED
  BY <1>1, <1>2, <1>3 DEF Answers

LEMMA ServerReplied == ASSUME Types, ServerInv, RepliedResumes PROVE ServerInv'
<1>1. PICK f \in flows : RepliedResumes!(f)
  BY DEF RepliedResumes
<1>0. UNCHANGED <<transport_id, session, wireVars>>
  BY <1>1 DEF linkVars
<1>2. CASE ~Current(f) /\ Ends(f) /\ UNCHANGED subVars
  BY <1>0, <1>2, FlowEnds DEF serverVars, subVars
<1>3. CASE Current(f) /\ f.out = "ok" /\ MoveSubscribed(f)
  BY <1>0, <1>1, <1>3, Succeeded
<1>4. CASE Current(f) /\ ErrorHandler(f)
  <2>1. /\ UNCHANGED subVars /\ ~Waits(f)
        /\ \E pc \in {"expiredHandler", "errorHandler"} : flows' = At(f, pc, f.out)
    BY <1>1, <1>4 DEF ErrorHandler, Waits
  <2> QED
    BY <1>0, <2>1, FlowGoesOn DEF serverVars, subVars, EarlyPc
<1>5. CASE Current(f) /\ ResetPosition(f)
  <2>1. Ends(f) /\ UNCHANGED <<state, attempt>> /\ ~Waits(f)
    BY <1>1, <1>5 DEF ResetPosition, Waits
  <2> QED
    BY <1>0, <2>1, FlowEnds DEF serverVars
<1>6. CASE Current(f) /\ f.out = "permanent" /\ MoveUnsubscribed /\ Ends(f)
  <2>1. refused = "no" => ~WillHold
    BY <1>1, <1>6, NotExpected DEF Waits
  <2> QED
    BY <1>0, <1>6, <2>1, LeavesAttempt DEF MoveUnsubscribed, Ends, wireVars
<1>7. CASE Current(f) /\ f.out = "timeout" /\ flows' = At(f, "timeoutHandler", f.out) /\ UNCHANGED subVars
  BY <1>0, <1>7, FlowGoesOn DEF serverVars, subVars, EarlyPc
<1> QED
  BY <1>1, <1>2, <1>3, <1>4, <1>5, <1>6, <1>7

LEMMA ServerHandlers == ASSUME Types, ServerInv, Handlers PROVE ServerInv'
<1>1. CASE SubscribeHandlerReturns \/ ConnectedHandlerReturns \/ MoveHandlerReturns
  BY <1>1, ServerSame DEF SubscribeHandlerReturns, ConnectedHandlerReturns, MoveHandlerReturns,
     linkVars, subVars, serverVars
<1>2. CASE StateHandlerReturns \/ TokenHandlerReturns \/ ErrorHandlerReturns
           \/ SubscribedHandlerReturns
  <2>1. PICK f \in flows :
          /\ f.pc \in {"stateHandler", "tokenHandler", "errorHandler", "subscribedHandler"}
          /\ Ends(f) /\ UNCHANGED serverVars
    BY <1>2 DEF StateHandlerReturns, TokenHandlerReturns, ErrorHandlerReturns,
       SubscribedHandlerReturns, linkVars, subVars, serverVars
  <2> QED
    BY <2>1, FlowEnds DEF Waits
<1>3. CASE TimeoutHandlerReturns
  <2>1. PICK f \in flows : TimeoutHandlerReturns!(f)
    BY <1>3 DEF TimeoutHandlerReturns
  <2>2. CASE Current(f)
    BY <2>1, <2>2, Closes
  <2>3. CASE ~Current(f)
    BY <2>1, <2>3, FlowEnds DEF linkVars, subVars, serverVars
  <2> QED
    BY <2>2, <2>3
<1>4. CASE ExpiredHandlerReturns
  <2>1. PICK f \in flows : ExpiredHandlerReturns!(f)
    BY <1>4 DEF ExpiredHandlerReturns
  <2>2. CASE Current(f)
    <3>1. refused = "no" => ~WillHold
      BY <2>1, <2>2, NotExpected DEF Waits
    <3> QED
      BY <2>1, <2>2, <3>1, LeavesAttempt DEF MoveUnsubscribed, Ends, linkVars, wireVars
  <2>3. CASE ~Current(f)
    BY <2>1, <2>3, FlowEnds DEF linkVars, subVars, serverVars
  <2> QED
    BY <2>2, <2>3
<1> QED
  BY <1>1, <1>2, <1>3, <1>4 DEF Handlers

LEMMA ServerOthers ==
    ASSUME Types, ServerInv,
           LoseConnection \/ UnsubscribeFails \/ Schedule \/ ResubscribeTimerFires \/ ReplyTimesOut
    PROVE  ServerInv'
<1>1. CASE LoseConnection \/ UnsubscribeFails
  BY <1>1, Closes DEF LoseConnection, UnsubscribeFails
<1>2. CASE Schedule \/ ResubscribeTimerFires
  BY <1>2, ServerSame DEF Schedule, ResubscribeTimerFires, linkVars, serverVars
<1>3. CASE ReplyTimesOut
  <2>1. PICK f \in flows : f.pc = "reply" /\ flows' = At(f, "replied", "timeout")
    BY <1>3 DEF ReplyTimesOut
  <2>2. UNCHANGED serverVars
    BY <1>3 DEF ReplyTimesOut, linkVars, subVars, serverVars
  <2> QED
    BY <2>1, <2>2, FlowGoesOn DEF EarlyPc
<1> QED
  BY <1>1, <1>2, <1>3

LEMMA ServerStep == Types /\ ServerInv /\ [Next]_vars => ServerInv'
<1> SUFFICES ASSUME Types, ServerInv, [Next]_vars PROVE ServerInv'
  OBVIOUS
<1>1. CASE UNCHANGED vars
  BY <1>1, ServerSame DEF vars, linkVars, subVars, serverVars
<1>2. CASE Next
  BY <1>2, ServerApplication, ServerConnected, ServerStart, ServerAnswers, ServerReplied,
     ServerHandlers, ServerOthers, ServerWire, ServerSubscribesKeeps, ServerUnsubscribesKeeps,
     ServerPushesKeeps DEF Next, Tasks, Server
<1> QED
  BY <1>1, <1>2

LEMMA ServerInit == Init => ServerInv
BY DEF Init, ServerInv, Linked, Numbered, Ordered, Unsent, RepliesTell, FlowsKnow,
   SubscribedKnows, WillHold, NoUnsubscribeFrom, Expected, Alternates

\* Commands, replies, flows and what the server holds agree, in every state of every run.
THEOREM ServerInvariance == Spec => []ServerInv
<1>1. Init => Types /\ ServerInv
  BY TypeInit, ServerInit
<1>2. (Types /\ ServerInv) /\ [Next]_vars => (Types /\ ServerInv)'
  BY TypeStep, ServerStep
<1> QED
  BY <1>1, <1>2, PTL DEF Spec

\* A subscription is subscribed only over the connection there is, and the server holds
\* it or a push that says otherwise is on the way: _subscribe_attempt() compares attempt
\* and connection before it applies a reply.
THEOREM SubscribedAlwaysHeld == Spec => []SubscribedIsHeld
<1>1. ServerInv => SubscribedIsHeld
  BY DEF ServerInv, SubscribedKnows, PushFrom, SubscribedIsHeld
<1> QED
  BY <1>1, ServerInvariance, PTL

\* The server is not asked to subscribe while it holds the subscription, unless it
\* refused an unsubscribe on this connection (_inflight, _unsubscribe()).
THEOREM NeverAskedTwice == Spec => []NoSecondSubscribe
<1>1. ServerInv /\ Types => NoSecondSubscribe
  <2>1. SUFFICES ASSUME ServerInv, Types, refused = "no", NEW j \in 1..Len(commands),
                        commands[j].op = "subscribe"
                 PROVE  \/ \E i \in 1..(j - 1) : commands[i].op = "unsubscribe"
                        \/ ~held /\ \A i \in 1..(j - 1) : commands[i].op # "subscribe"
    BY DEF NoSecondSubscribe
  <2>2. CASE held
    BY <2>1, <2>2 DEF ServerInv, Alternates, Subscribes
  <2>3. CASE \E i \in 1..(j - 1) : commands[i].op = "subscribe"
    <3>1. PICK i \in 1..(j - 1) : commands[i].op = "subscribe"
      BY <2>3
    <3>2. i \in 1..Len(commands) /\ i < j
      BY <2>1, <3>1, Facts
    <3>3. PICK k \in (i + 1)..(j - 1) : commands[k].op = "unsubscribe"
      BY <2>1, <3>1, <3>2 DEF ServerInv, Alternates, Subscribes
    <3> QED
      BY <3>1, <3>3
  <2> QED
    BY <2>2, <2>3
<1> QED
  BY <1>1, ServerInvariance, SubscriptionTypes, PTL

\* Once every command arrived the server does not hold a subscription the application
\* unsubscribed from: unsubscribe() tells the server also while a subscribe is under way.
THEOREM NothingStaysBehind == Spec => []NothingLeftOnServer
<1>1. ServerInv => NothingLeftOnServer
  <2>1. SUFFICES ASSUME ServerInv, state = "unsubscribed", commands = <<>>, refused = "no", held
                 PROVE  FALSE
    BY DEF NothingLeftOnServer
  <2>2. WillHold
    BY <2>1 DEF WillHold, NoUnsubscribeFrom
  <2> QED
    BY <2>1, <2>2 DEF ServerInv, Expected, Current
<1> QED
  BY <1>1, ServerInvariance, PTL
=============================================================================
