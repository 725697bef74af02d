---------------------------- MODULE ConnectionStates ----------------------------
(***************************************************************************)
(* What centrifuge-python's Client promises about its connection, seen     *)
(* from the application: a state, and the promise that ready() waits for.  *)
(*                                                                         *)
(*   - the client is disconnected, connecting or connected (ClientState);  *)
(*   - the promise is resolved when the connection is established, broken  *)
(*     when the client stops, and never replaced while somebody may still  *)
(*     be waiting for it;                                                  *)
(*   - a client that is connecting does not stay connecting for ever.      *)
(*                                                                         *)
(* Nothing is said of attempts, transports, timers, tokens or event        *)
(* handlers: ClientLifecycle is how the code does it, and implements this. *)
(***************************************************************************)
EXTENDS Naturals

VARIABLES
    state,      \* "disconnected", "connecting" or "connected"
    promise     \* [n, st]: the n-th promise, "pending", "result" or "exception"

vars == <<state, promise>>

States == {"disconnected", "connecting", "connected"}

Pending == "pending"

\* A promise somebody may be waiting for is kept, a finished one is replaced.
Renewed(p) == IF p.st = Pending THEN p ELSE [n |-> p.n + 1, st |-> Pending]

Resolved(p, how) == [p EXCEPT !.st = how]

Init ==
    /\ state = "disconnected"
    /\ promise = [n |-> 0, st |-> Pending]

\* The application asks for a connection.
Begin ==
    /\ state = "disconnected"
    /\ state' = "connecting"
    /\ promise' = Renewed(promise)

\* The server accepted the connection.
Establish ==
    /\ state = "connecting"
    /\ promise.st = Pending
    /\ state' = "connected"
    /\ promise' = Resolved(promise, "result")

\* The connection is lost, and the client connects again by itself.
Lose ==
    /\ state = "connected"
    /\ state' = "connecting"
    /\ promise' = Renewed(promise)

\* The client stops, asked to by the application or told to by the server.
Stop ==
    /\ state # "disconnected"
    /\ state' = "disconnected"
    /\ promise' = Resolved(Renewed(promise), "exception")

Next == Begin \/ Establish \/ Lose \/ Stop

\* Connecting ends, one way or the other.
Conclude == Establish \/ (state = "connecting" /\ Stop)

Fairness == WF_vars(Conclude)

SafeSpec == Init /\ [][Next]_vars

Spec == SafeSpec /\ Fairness
=============================================================================
