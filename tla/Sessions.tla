-------------------------------- MODULE Sessions --------------------------------
(***************************************************************************)
(* The connection as the rest of the client sees it through _transport_id  *)
(* and state: sessions one after the other, each with an identity of its   *)
(* own.  ClientLifecycle implements this, SubscriptionFlow builds on it.   *)
(***************************************************************************)
EXTENDS Naturals

VARIABLES
    latest,     \* the latest identity given out (Client._transport_id)
    session     \* the identity of the established connection, or 0

vars == <<latest, session>>

Init == latest = 0 /\ session = 0

\* An attempt starts, or an attempt is given up: its identity is not used again.
NewIdentity == session = 0 /\ latest' = latest + 1 /\ UNCHANGED session

Open == session = 0 /\ latest # 0 /\ session' = latest /\ UNCHANGED latest

Close == session # 0 /\ session' = 0 /\ latest' = latest + 1

Next == NewIdentity \/ Open \/ Close

Spec == Init /\ [][Next]_vars
=============================================================================
