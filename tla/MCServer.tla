-------------------------------- MODULE MCServer --------------------------------
(* ServerSubscriptions for TLC: server-side subscriptions, client-side ones, or one of *)
(* each.  Channels are alike, and so are subscriptions.                               *)
EXTENDS ServerSubscriptions, TLC

CONSTANTS c1, c2, s1, s2
SomeChannels == {c1, c2}
SomeSubs == {s1, s2}
World(channels, subs, limits) == [channels |-> channels, subs |-> subs,
    events |-> limits[1], calls |-> limits[2], faults |-> limits[3]]
EachAndBoth == {World({c1, c2}, {}, <<3, 0, 2>>), World({}, {s1, s2}, <<2, 2, 1>>),
                World({c1}, {s1}, <<2, 0, 1>>)}
ServerSide == {World({c1, c2}, {}, <<1, 0, 1>>)}
Alike == Permutations(SomeChannels) \cup Permutations(SomeSubs)
=============================================================================
