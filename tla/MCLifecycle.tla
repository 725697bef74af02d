------------------------------ MODULE MCLifecycle ------------------------------
(* ClientLifecycle for TLC: the applications, and a set of each kind of run. *)
EXTENDS ClientLifecycle

AllApps == App

CancellingApp == {[get_token |-> FALSE, cancels |-> TRUE]}

PlainApp == {[get_token |-> FALSE, cancels |-> FALSE]}
=============================================================================
