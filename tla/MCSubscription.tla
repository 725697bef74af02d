----------------------------- MODULE MCSubscription -----------------------------
(* SubscriptionFlow for TLC: the applications, and a set of each kind of run. *)
EXTENDS SubscriptionFlow

\* Only a get_state can be cancelled.
AllApps == {a \in App : a.cancels => a.get_state}

SlowApp == {[get_token |-> TRUE, get_state |-> FALSE, slow |-> TRUE, cancels |-> FALSE]}

CancellingApp == {[get_token |-> FALSE, get_state |-> TRUE, slow |-> FALSE, cancels |-> TRUE]}
=============================================================================
