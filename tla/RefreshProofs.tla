------------------------------ MODULE RefreshProofs ------------------------------
(***************************************************************************)
(* Proofs about RefreshChains, for every number of commands, pushes and    *)
(* faults and every choice of chains: types, one outcome per command,      *)
(* pushes behind an applied reply, and one chain per owner.  The first     *)
(* half is about the steps of Commands: the inductive invariant of         *)
(* commands, futures and message tasks, and what a step may do to them.    *)
(***************************************************************************)
EXTENDS RefreshChains, FiniteSetTheorems, SequenceTheorems, TLAPS

-----------------------------------------------------------------------------
(* What a step may do to a command *)

\* A resolved future keeps its outcome, a caller does not go back.
Later(c, d) ==
    /\ d.kind = c.kind /\ d.conn = c.conn
    /\ c.future # "pending" => d.future = c.future
    /\ c.pc = "over" => d.pc = "over"
    /\ d.pc = "waiting" => c.pc = "waiting"

\* No command is added.
SameCmds ==
    /\ cmds' \in Seq(Cmd) /\ Id' = Id
    /\ \A i \in Id : Later(cmds[i], cmds'[i])

\* Command c is added.
OneMore(c) ==
    /\ cmds' \in Seq(Cmd) /\ Id' = Id \cup {Len(cmds) + 1} /\ Len(cmds) + 1 \notin Id
    /\ \A i \in Id : cmds'[i] = cmds[i]
    /\ cmds'[Len(cmds) + 1] = c

LEMMA SettleType ==
    ASSUME NEW c \in Cmd, NEW r \in Result
    PROVE  /\ Settle(c, r) \in Cmd
           /\ Settle(c, r).kind = c.kind /\ Settle(c, r).conn = c.conn
           /\ Settle(c, r).pc = c.pc
           /\ c.future # "pending" => Settle(c, r) = c
           /\ c.future = "pending" => Settle(c, r).future = r
           /\ Later(c, Settle(c, r))
<1> USE DEF Later
<1>1. CASE c.future = "pending"
  <2>1. Settle(c, r) = [c EXCEPT !.future = r]
    BY <1>1 DEF Settle
  <2> QED
    BY <2>1, <1>1 DEF Cmd, Result
<1>2. CASE c.future # "pending"
  <2>1. Settle(c, r) = c
    BY <1>2 DEF Settle
  <2> QED
    BY <2>1, <1>2
<1> QED
  BY <1>1, <1>2

LEMMA SameLength ==
    ASSUME cmds \in Seq(Cmd), cmds' \in [Id -> Cmd],
           \A i \in Id : Later(cmds[i], cmds'[i])
    PROVE  SameCmds
<1>1. Len(cmds) \in Nat
  BY LenProperties
<1>2. cmds' \in Seq(Cmd)
  BY <1>1, SeqDef DEF Id
<1>3. DOMAIN cmds' = 1..Len(cmds)
  BY DEF Id
<1>4. Len(cmds') \in Nat /\ DOMAIN cmds' = 1..Len(cmds')
  BY <1>2, LenProperties
<1>5. Len(cmds') = Len(cmds)
  BY <1>1, <1>3, <1>4
<1> QED
  BY <1>2, <1>5 DEF SameCmds, Id

\* A step that changes one command.
LEMMA OneChanges ==
    ASSUME cmds \in Seq(Cmd), NEW i \in Id, NEW d \in Cmd, Later(cmds[i], d),
           cmds' = [cmds EXCEPT ![i] = d]
    PROVE  /\ SameCmds
           /\ cmds'[i] = d
           /\ \A j \in Id \ {i} : cmds'[j] = cmds[j]
<1>1. cmds \in [Id -> Cmd]
  BY LenProperties DEF Id
<1>2. cmds' \in [Id -> Cmd] /\ cmds'[i] = d /\ \A j \in Id \ {i} : cmds'[j] = cmds[j]
  BY <1>1
<1>3. \A j \in Id : Later(cmds[j], cmds'[j])
  BY <1>2 DEF Later
<1> QED
  BY <1>2, <1>3, SameLength

LEMMA Appended ==
    ASSUME cmds \in Seq(Cmd), NEW c \in Cmd, cmds' = Append(cmds, c)
    PROVE  OneMore(c)
<1>1. Len(cmds) \in Nat
  BY LenProperties
<1>2. /\ cmds' \in Seq(Cmd) /\ Len(cmds') = Len(cmds) + 1
      /\ \A i \in 1..Len(cmds) : cmds'[i] = cmds[i]
      /\ cmds'[Len(cmds) + 1] = c
  BY <1>1, AppendProperties
<1> QED
  BY <1>1, <1>2 DEF OneMore, Id

-----------------------------------------------------------------------------
(* The invariant of commands, futures and the message task *)

LinkTypes ==
    /\ transport_id \in Nat /\ conn \in {0, transport_id} /\ connected \in BOOLEAN
    /\ connected => conn # 0
    /\ pushes \in Nat /\ faults \in Nat

CmdTypes ==
    /\ cmds \in Seq(Cmd) /\ inflight \subseteq Id /\ done \subseteq Id
    /\ blocked \subseteq [conn : Nat \ {0}, on : Nat]
    /\ commands \in Seq(Id) /\ messages \in Seq(Id \cup {Push})

\* A command is of a connection there was; a connect or subscribe, of one that is not 0.
Connections ==
    \A i \in Id : cmds[i].conn <= transport_id /\ (cmds[i].kind \in Gated => cmds[i].conn # 0)

\* Registered commands are of the present connection, and only a cancelled caller's
\* future is done while its command is registered.
Registered ==
    \A i \in inflight :
        /\ cmds[i].conn = conn /\ conn # 0
        /\ cmds[i].kind \in Gated => cmds[i].future = "pending"

\* Who waits for a future has not gone on.
PendingWaits == \A i \in Id : cmds[i].future = "pending" => cmds[i].pc = "waiting"

\* A gate is open when its reply is applied, or will not come.
Gates ==
    \A i \in done : cmds[i].kind \in Gated =>
        cmds[i].pc = "over" \/ cmds[i].future \notin {"pending", "reply"}

\* The message task of a connection waits for one thing, and for every gated reply
\* until it is applied.
OneBlocked == \A b, d \in blocked : b.conn = d.conn => b = d
ReplyHeld ==
    \A i \in Id : cmds[i].kind \in Gated /\ cmds[i].future = "reply" /\ cmds[i].pc # "over"
        => [conn |-> cmds[i].conn, on |-> i] \in blocked

CmdInv == /\ LinkTypes /\ CmdTypes /\ Connections /\ Registered /\ PendingWaits /\ Gates
          /\ OneBlocked /\ ReplyHeld

LEMMA CmdInvTypes == CmdInv <=> /\ CommandsTypeOK /\ Connections /\ Registered /\ PendingWaits
                                /\ Gates /\ OneBlocked /\ ReplyHeld
BY DEF CmdInv, CommandsTypeOK, LinkTypes, CmdTypes

LEMMA CmdsAreRecords ==
    ASSUME cmds \in Seq(Cmd)
    PROVE  \A i \in Id : cmds[i] \in Cmd
BY ElementOfSeq DEF Id

LEMMA IssueKeeps ==
    ASSUME CmdInv, NEW kind \in Kind, NEW place \in {"task", "push", "gate"}, NEW host \in Nat,
           kind \in Gated => conn # 0, Issue(kind, place, host), faults' \in Nat
    PROVE  CmdInv' /\ OneMore(NewCmd(kind, place, host))
<1> DEFINE n == Len(cmds) + 1
           c == NewCmd(kind, place, host)
<1> USE DEF CmdInv
<1>1. /\ c \in Cmd /\ c.kind = kind /\ c.conn = conn /\ c.pc = "waiting"
      /\ c.future \in {"pending", "disconnected"}
      /\ c.future = "pending" <=> conn # 0
  BY DEF LinkTypes, NewCmd, Cmd, Result
<1>2. OneMore(c)
  BY <1>1, Appended DEF CmdTypes, Issue
<1>3. LinkTypes'
  BY DEF LinkTypes, Issue, linkVars
<1>4. /\ n \in Id' /\ Id \subseteq Id' /\ n \notin Id
      /\ \A i \in Id' : i = n \/ i \in Id
      /\ \A i \in Id : cmds'[i] = cmds[i]
      /\ cmds'[n] = c
  BY <1>2 DEF OneMore
<1> HIDE DEF n, c
<1>5. /\ inflight' \subseteq inflight \cup {n} /\ (n \in inflight' => conn # 0)
      /\ UNCHANGED <<done, blocked, transport_id, conn>>
  BY <1>4 DEF Issue, linkVars, n, CmdTypes
<1>6. CmdTypes'
  <2>1. commands' \in Seq(Id')
    <3>1. commands \in Seq(Id')
      BY <1>4, SeqMonotonic DEF CmdTypes
    <3>2. Append(commands, n) \in Seq(Id')
      BY <3>1, <1>4, AppendProperties
    <3> QED
      BY <3>1, <3>2 DEF Issue, n
  <2>2. messages' \in Seq(Id' \cup {Push})
    <3>1. Id \cup {Push} \subseteq Id' \cup {Push}
      BY <1>4
    <3> QED
      BY <3>1, SeqMonotonic DEF CmdTypes, Issue
  <2>3. inflight' \subseteq Id' /\ done' \subseteq Id' /\ cmds' \in Seq(Cmd)
        /\ blocked' \subseteq [conn : Nat \ {0}, on : Nat]
    BY <1>2, <1>4, <1>5 DEF CmdTypes, OneMore
  <2> QED
    BY <2>1, <2>2, <2>3 DEF CmdTypes
<1>7. Connections'
  <2>1. conn <= transport_id
    BY DEF LinkTypes
  <2> QED
    BY <1>1, <1>4, <1>5, <2>1 DEF Connections
<1>8. Registered'
  BY <1>1, <1>4, <1>5 DEF Registered, CmdTypes
<1>9. PendingWaits'
  BY <1>1, <1>4 DEF PendingWaits
<1>10. Gates'
  BY <1>1, <1>4, <1>5 DEF Gates, CmdTypes
<1>11. OneBlocked'
  BY <1>5 DEF OneBlocked
<1>12. ReplyHeld'
  BY <1>1, <1>4, <1>5 DEF ReplyHeld
<1> QED
  BY <1>2, <1>3, <1>6, <1>7, <1>8, <1>9, <1>10, <1>11, <1>12 DEF c

\* A step that changes command i, and may open its gate.
LEMMA OneStep ==
    ASSUME CmdInv, NEW i \in Id, NEW d \in Cmd, Later(cmds[i], d),
           cmds' = [cmds EXCEPT ![i] = d],
           UNCHANGED <<transport_id, conn, inflight, blocked, wireVars>>, LinkTypes',
           done' = done \/ done' = done \cup {i},
           cmds[i].kind \in Gated => d.future = cmds[i].future,
           d.future = "pending" => d.pc = "waiting",
           d.kind \in Gated /\ i \in done' => d.pc = "over" \/ d.future \notin {"pending", "reply"}
    PROVE  CmdInv' /\ SameCmds
<1> USE DEF CmdInv, wireVars
<1>1. /\ SameCmds /\ cmds'[i] = d
      /\ \A j \in Id \ {i} : cmds'[j] = cmds[j]
  BY OneChanges DEF CmdTypes
<1>2. /\ Id' = Id /\ cmds' \in Seq(Cmd) /\ \A j \in Id : Later(cmds[j], cmds'[j])
      /\ \A j \in Id : j = i \/ cmds'[j] = cmds[j]
  BY <1>1 DEF SameCmds
<1>3. CmdTypes'
  BY <1>2 DEF CmdTypes
<1>4. Connections'
  BY <1>2 DEF Connections, Later
<1>5. Registered'
  BY <1>1, <1>2 DEF Registered, Later, CmdTypes
<1>6. PendingWaits'
  BY <1>1, <1>2 DEF PendingWaits
<1>7. Gates'
  <2> SUFFICES ASSUME NEW j \in done', cmds'[j].kind \in Gated
               PROVE  cmds'[j].pc = "over" \/ cmds'[j].future \notin {"pending", "reply"}
    BY DEF Gates
  <2>1. CASE j = i
    BY <2>1, <1>1
  <2>2. CASE j # i
    BY <2>2, <1>2 DEF Gates, CmdTypes
  <2> QED
    BY <2>1, <2>2
<1>8. OneBlocked'
  BY DEF OneBlocked
<1>9. ReplyHeld'
  <2> SUFFICES ASSUME NEW j \in Id, cmds'[j].kind \in Gated, cmds'[j].future = "reply",
                      cmds'[j].pc # "over"
               PROVE  [conn |-> cmds'[j].conn, on |-> j] \in blocked
    BY <1>2 DEF ReplyHeld
  <2>1. Later(cmds[j], cmds'[j]) /\ cmds[j].future = "reply"
    BY <1>1, <1>2 DEF Later
  <2> QED
    BY <2>1 DEF Later, ReplyHeld
<1> QED
  BY <1>1, <1>3, <1>4, <1>5, <1>6, <1>7, <1>8, <1>9

LEMMA TeardownKeeps ==
    ASSUME CmdInv, NEW ended \in SUBSET Id, \A i \in ended : cmds[i].future # "pending",
           Teardown(ended), faults' \in Nat
    PROVE  CmdInv' /\ SameCmds
<1> USE DEF CmdInv
<1>0. \A i \in Id : cmds[i] \in Cmd
  BY CmdsAreRecords DEF CmdTypes
<1>1. \A i \in Id :
          /\ i \in ended => cmds'[i] = [cmds[i] EXCEPT !.pc = "over"]
          /\ i \notin ended /\ i \in inflight => cmds'[i] = Settle(cmds[i], "disconnected")
          /\ i \notin ended /\ i \notin inflight => cmds'[i] = cmds[i]
  BY DEF Teardown, Failed
<1>2. \A i \in Id :
          /\ cmds'[i] \in Cmd /\ Later(cmds[i], cmds'[i])
          /\ cmds'[i].future = "pending" => cmds'[i] = cmds[i]
          /\ cmds'[i].future = "reply" => cmds[i].future = "reply"
          /\ i \in ended => cmds'[i].pc = "over"
          /\ i \in inflight \ ended => cmds'[i].future # "pending"
          /\ i \in inflight \ ended /\ cmds[i].kind \in Gated => cmds'[i].future = "disconnected"
  <2> TAKE i \in Id
  <2>0. cmds[i] \in Cmd /\ "disconnected" \in Result
    BY <1>0 DEF Result
  <2>1. CASE i \in ended
    <3>1. cmds'[i] = [cmds[i] EXCEPT !.pc = "over"]
      BY <1>1, <2>1
    <3> QED
      BY <3>1, <2>0, <2>1 DEF Cmd, Later
  <2>2. CASE i \notin ended /\ i \in inflight
    <3>1. cmds'[i] = Settle(cmds[i], "disconnected")
      BY <1>1, <2>2
    <3>2. cmds[i].kind \in Gated => cmds[i].future = "pending"
      BY <2>2 DEF Registered
    <3>3. cmds[i].future = "pending" \/ cmds'[i] = cmds[i]
      BY <3>1, <2>0, SettleType
    <3>4. /\ Settle(cmds[i], "disconnected") \in Cmd
          /\ Later(cmds[i], Settle(cmds[i], "disconnected"))
          /\ cmds[i].future = "pending" => Settle(cmds[i], "disconnected").future = "disconnected"
      BY <2>0, SettleType
    <3> QED
      BY <3>1, <3>2, <3>3, <3>4, <2>2
  <2>3. CASE i \notin ended /\ i \notin inflight
    BY <2>0, <2>3, <1>1 DEF Later
  <2> QED
    BY <2>1, <2>2, <2>3
<1>3. SameCmds
  <2>1. cmds' \in [Id -> Cmd]
    BY <1>2 DEF Teardown
  <2> QED
    BY <2>1, <1>2, SameLength DEF CmdTypes
<1>4. Id' = Id /\ cmds' \in Seq(Cmd)
  BY <1>3 DEF SameCmds
<1>5. LinkTypes'
  <2>1. transport_id' = transport_id + 1 /\ conn' = 0 /\ connected' = FALSE /\ pushes' = pushes
    BY DEF Teardown
  <2>2. transport_id \in Nat /\ pushes \in Nat
    BY DEF LinkTypes
  <2>3. transport_id' \in Nat /\ conn' \in {0, transport_id'} /\ pushes' \in Nat
    BY <2>1, <2>2
  <2>4. connected' \in BOOLEAN /\ (connected' => conn' # 0)
    BY <2>1
  <2> QED
    BY <2>3, <2>4, Zenon DEF LinkTypes
<1>6. CmdTypes'
  <2>1. inflight' \subseteq Id /\ done' \subseteq Id /\ blocked' = blocked
    BY DEF CmdTypes, Teardown, Opened
  <2>2. commands' \in Seq(Id) /\ messages' \in Seq(Id \cup {Push})
    BY EmptySeq DEF Teardown
  <2> QED
    BY <2>1, <2>2, <1>4 DEF CmdTypes
<1>7. Connections'
  <2> SUFFICES ASSUME NEW i \in Id
               PROVE  /\ cmds'[i].conn <= transport_id'
                      /\ cmds'[i].kind \in Gated => cmds'[i].conn # 0
    BY <1>4 DEF Connections
  <2>1. cmds'[i].conn = cmds[i].conn /\ cmds'[i].kind = cmds[i].kind /\ cmds[i].conn \in Nat
    BY <1>0, <1>2 DEF Later, Cmd
  <2>2. transport_id \in Nat /\ transport_id' = transport_id + 1
    BY DEF LinkTypes, Teardown
  <2>3. cmds[i].conn <= transport_id /\ (cmds[i].kind \in Gated => cmds[i].conn # 0)
    BY DEF Connections
  <2> QED
    BY <2>1, <2>2, <2>3
<1>8. Registered'
  BY DEF Registered, Teardown
<1>9. PendingWaits'
  BY <1>2, <1>4 DEF PendingWaits
<1>10. Gates'
  <2> SUFFICES ASSUME NEW j \in done', cmds'[j].kind \in Gated
               PROVE  cmds'[j].pc = "over" \/ cmds'[j].future \notin {"pending", "reply"}
    BY DEF Gates
  <2>1. j \in Id /\ cmds[j].kind \in Gated
    BY <1>2, <1>4, <1>6 DEF CmdTypes, Later
  <2>2. CASE j \in done
    BY <2>1, <2>2, <1>2 DEF Gates, Later
  <2>3. CASE j \in ended
    BY <2>3, <2>1, <1>2
  <2>4. CASE j \in inflight \ ended
    BY <2>4, <2>1, <1>2
  <2> QED
    BY <2>2, <2>3, <2>4 DEF Teardown, Opened
<1>11. OneBlocked'
  BY DEF OneBlocked, Teardown
<1>12. ReplyHeld'
  BY <1>2, <1>4 DEF ReplyHeld, Teardown, Later
<1> QED
  BY <1>3, <1>5, <1>6, <1>7, <1>8, <1>9, <1>10, <1>11, <1>12

-----------------------------------------------------------------------------
(* The steps of module Commands *)

\* What most steps do to the commands: they add no connect or subscribe command.
CmdsGoOn == SameCmds \/ \E c \in Cmd : c.kind \notin Gated /\ OneMore(c)

\* The connect command of the next connection.
ConnectCmd == [kind |-> "connect", place |-> "task", host |-> 0,
               conn |-> transport_id + 1, future |-> "pending", pc |-> "waiting"]

LEMMA NothingChanges ==
    ASSUME cmds \in Seq(Cmd), UNCHANGED cmds
    PROVE  SameCmds
BY DEF SameCmds, Later, Id

LEMMA OpenTransportKeeps ==
    ASSUME CmdInv, OpenTransport
    PROVE  CmdInv' /\ ConnectCmd \in Cmd /\ OneMore(ConnectCmd)
<1> DEFINE n == Len(cmds) + 1
           c == ConnectCmd
<1> USE DEF CmdInv
<1>1. transport_id \in Nat /\ conn = 0 /\ inflight = {}
  BY DEF LinkTypes, OpenTransport, Registered
<1>2. c \in Cmd
  BY <1>1 DEF Cmd, Kind, Gated, ConnectCmd
<1>3. OneMore(c)
  BY <1>2, Appended DEF CmdTypes, OpenTransport, ConnectCmd
<1>4. /\ n \in Id' /\ Id \subseteq Id' /\ n \notin Id
      /\ \A i \in Id' : i = n \/ i \in Id
      /\ \A i \in Id : cmds'[i] = cmds[i]
      /\ cmds'[n] = c /\ cmds' \in Seq(Cmd)
  BY <1>3 DEF OneMore
<1>5. /\ c.conn = transport_id' /\ c.conn # 0 /\ c.future = "pending" /\ c.pc = "waiting"
      /\ transport_id' = transport_id + 1 /\ conn' = transport_id'
  BY <1>1 DEF OpenTransport, ConnectCmd
<1>6. inflight' = {n} /\ commands' = <<n>> /\ UNCHANGED <<done, blocked, messages>>
  BY <1>1 DEF OpenTransport
<1> HIDE DEF n, c
<1>7. LinkTypes'
  <2>1. UNCHANGED <<connected, pushes, faults>>
    BY DEF OpenTransport
  <2>2. connected' => conn' # 0
    BY <1>1, <1>5
  <2>3. transport_id' \in Nat /\ conn' \in {0, transport_id'}
    BY <1>1, <1>5
  <2> QED
    BY <2>1, <2>2, <2>3 DEF LinkTypes
<1>8. CmdTypes'
  <2>1. commands' \in Seq(Id')
    BY <1>4, <1>6
  <2>2. messages' \in Seq(Id' \cup {Push})
    <3>1. Id \cup {Push} \subseteq Id' \cup {Push}
      BY <1>4
    <3> QED
      BY <3>1, <1>6, SeqMonotonic DEF CmdTypes
  <2>3. inflight' \subseteq Id' /\ done' \subseteq Id'
        /\ blocked' \subseteq [conn : Nat \ {0}, on : Nat]
    BY <1>4, <1>6 DEF CmdTypes
  <2> QED
    BY <2>1, <2>2, <2>3, <1>4 DEF CmdTypes
<1>9. Connections'
  <2> SUFFICES ASSUME NEW i \in Id'
               PROVE  /\ cmds'[i].conn <= transport_id'
                      /\ cmds'[i].kind \in Gated => cmds'[i].conn # 0
    BY DEF Connections
  <2>1. CASE i = n
    BY <2>1, <1>1, <1>4, <1>5
  <2>2. CASE i \in Id
    <3>1. cmds[i].conn \in Nat
      BY <2>2, CmdsAreRecords DEF CmdTypes, Cmd
    <3>2. cmds[i].conn <= transport_id /\ (cmds[i].kind \in Gated => cmds[i].conn # 0)
      BY <2>2 DEF Connections
    <3>3. cmds'[i] = cmds[i]
      BY <2>2, <1>4
    <3> QED
      BY <3>1, <3>2, <3>3, <1>1, <1>5
  <2> QED
    BY <2>1, <2>2, <1>4
<1>10. Registered'
  BY <1>1, <1>4, <1>5, <1>6 DEF Registered
<1>11. PendingWaits'
  BY <1>4, <1>5 DEF PendingWaits
<1>12. Gates'
  BY <1>4, <1>6 DEF Gates, CmdTypes
<1>13. OneBlocked'
  BY <1>6 DEF OneBlocked
<1>14. ReplyHeld'
  BY <1>4, <1>5, <1>6 DEF ReplyHeld
<1> QED
  BY <1>2, <1>3, <1>7, <1>8, <1>9, <1>10, <1>11, <1>12, <1>13, <1>14 DEF c

LEMMA ExpireKeeps ==
    ASSUME CmdInv, NEW i \in inflight, cmds[i].future = "pending", Expire(i), faults' \in Nat
    PROVE  CmdInv' /\ CmdsGoOn
<1> DEFINE d == Settle(cmds[i], "timeout")
<1> USE DEF CmdInv
<1>1. i \in Id /\ cmds[i] \in Cmd /\ "timeout" \in Result
  BY CmdsAreRecords DEF CmdTypes, Result
<1>2. /\ d \in Cmd /\ d.kind = cmds[i].kind /\ d.conn = cmds[i].conn
      /\ d.pc = "waiting" /\ d.future = "timeout" /\ Later(cmds[i], d)
  BY <1>1, SettleType DEF PendingWaits
<1>3. cmds' = [cmds EXCEPT ![i] = d]
  <2>1. cmds \in [Id -> Cmd]
    BY LenProperties DEF CmdTypes, Id
  <2> QED
    BY <2>1, <1>1 DEF Expire, Failed
<1> HIDE DEF d
<1>4. /\ SameCmds /\ cmds'[i] = d
      /\ \A j \in Id \ {i} : cmds'[j] = cmds[j]
  BY <1>1, <1>2, <1>3, OneChanges DEF CmdTypes
<1>5. /\ Id' = Id /\ cmds' \in Seq(Cmd)
      /\ \A j \in Id : j = i \/ cmds'[j] = cmds[j]
  BY <1>4 DEF SameCmds
<1>6. /\ inflight' = inflight \ {i} /\ done \subseteq done' /\ done' \subseteq done \cup {i}
      /\ UNCHANGED <<blocked, commands, messages, transport_id, conn, connected, pushes>>
  BY DEF Expire, Opened, linkVars, wireVars
<1>7. LinkTypes'
  BY <1>6 DEF LinkTypes
<1>8. CmdTypes'
  BY <1>1, <1>5, <1>6 DEF CmdTypes
<1>9. Connections'
  BY <1>2, <1>4, <1>5, <1>6 DEF Connections
<1>10. Registered'
  BY <1>5, <1>6 DEF Registered, CmdTypes
<1>11. PendingWaits'
  BY <1>2, <1>4, <1>5 DEF PendingWaits
<1>12. Gates'
  <2> SUFFICES ASSUME NEW j \in done', cmds'[j].kind \in Gated
               PROVE  cmds'[j].pc = "over" \/ cmds'[j].future \notin {"pending", "reply"}
    BY DEF Gates
  <2>1. CASE j = i
    BY <2>1, <1>2, <1>4
  <2>2. CASE j # i
    BY <2>2, <1>5, <1>6 DEF Gates, CmdTypes
  <2> QED
    BY <2>1, <2>2
<1>13. OneBlocked'
  BY <1>6 DEF OneBlocked
<1>14. ReplyHeld'
  BY <1>2, <1>4, <1>5, <1>6 DEF ReplyHeld
<1> QED
  BY <1>4, <1>7, <1>8, <1>9, <1>10, <1>11, <1>12, <1>13, <1>14 DEF CmdsGoOn

\* A caller goes on: its command changes only in `pc', and its gate may open.
LEMMA PcChanges ==
    ASSUME CmdInv, NEW i \in Id, NEW pc \in {"applying", "over"},
           cmds[i].pc # "over", pc = "applying" => cmds[i].pc = "waiting",
           cmds[i].future # "pending",
           cmds' = [cmds EXCEPT ![i].pc = pc],
           UNCHANGED <<transport_id, conn, inflight, blocked, wireVars>>, LinkTypes',
           done' = done \/ (done' = done \cup {i} /\ pc = "over")
    PROVE  CmdInv' /\ CmdsGoOn
<1> DEFINE d == [cmds[i] EXCEPT !.pc = pc]
<1>1. cmds[i] \in Cmd
  BY CmdsAreRecords DEF CmdInv, CmdTypes
<1>2. /\ d \in Cmd /\ d.kind = cmds[i].kind /\ d.conn = cmds[i].conn
      /\ d.future = cmds[i].future /\ d.pc = pc
  BY <1>1 DEF Cmd
<1>3. cmds' = [cmds EXCEPT ![i] = d]
  OBVIOUS
<1> HIDE DEF d
<1>4. Later(cmds[i], d)
  BY <1>2 DEF Later
<1>5. d.kind \in Gated /\ i \in done' => d.pc = "over" \/ d.future \notin {"pending", "reply"}
  BY <1>2 DEF CmdInv, Gates
<1>6. CmdInv' /\ SameCmds
  BY <1>2, <1>3, <1>4, <1>5, OneStep
<1> QED
  BY <1>6 DEF CmdsGoOn

LEMMA CancelKeeps ==
    ASSUME CmdInv, Cancel
    PROVE  CmdInv' /\ CmdsGoOn
<1>1. PICK i \in Id :
          /\ cmds[i].kind = "rpc" /\ cmds[i].pc = "waiting"
          /\ cmds' = [cmds EXCEPT ![i] = [Settle(@, "cancelled") EXCEPT !.pc = "over"]]
  BY DEF Cancel
<1> DEFINE c == Settle(cmds[i], "cancelled")
           d == [c EXCEPT !.pc = "over"]
<1>2. cmds[i] \in Cmd /\ "cancelled" \in Result
  BY CmdsAreRecords DEF CmdInv, CmdTypes, Result
<1>3. /\ c \in Cmd /\ c.kind = "rpc" /\ c.future # "pending" /\ Later(cmds[i], c)
  BY <1>1, <1>2, SettleType DEF Result
<1>4. cmds' = [cmds EXCEPT ![i] = d]
  BY <1>1
<1> HIDE DEF c
<1>5. d \in Cmd /\ d.kind = "rpc" /\ d.future # "pending" /\ Later(cmds[i], d) /\ d.pc = "over"
  BY <1>3 DEF Cmd, Later
<1> HIDE DEF d
<1>6. LinkTypes'
  <2>1. faults' \in Nat
    BY DEF Cancel, Fault, CmdInv, LinkTypes
  <2>2. UNCHANGED <<transport_id, conn, connected, pushes>>
    BY DEF Cancel, linkVars
  <2> QED
    BY <2>1, <2>2 DEF CmdInv, LinkTypes
<1>7. UNCHANGED <<transport_id, conn, inflight, blocked, wireVars, done>>
  BY DEF Cancel, linkVars
<1>8. CmdInv' /\ SameCmds
  BY <1>1, <1>4, <1>5, <1>6, <1>7, OneStep DEF Gated
<1> QED
  BY <1>8 DEF CmdsGoOn

LEMMA CallerKeeps ==
    ASSUME CmdInv, CallerResumes \/ GatedGivesUp \/ Applied
    PROVE  CmdInv' /\ CmdsGoOn
<1>0. UNCHANGED <<transport_id, conn, connected, inflight, blocked, wireVars, pushes, faults>>
  BY DEF CallerResumes, GatedGivesUp, Applied, linkVars
<1>1. LinkTypes'
  BY <1>0 DEF CmdInv, LinkTypes
<1>2. PICK i \in Id :
          /\ cmds[i].pc # "over" /\ cmds[i].future # "pending"
          /\ cmds' = [cmds EXCEPT ![i].pc = "over"]
          /\ done' = done \/ done' = done \cup {i}
  BY DEF CallerResumes, GatedGivesUp, Applied, Resumes, Leave, CmdInv, PendingWaits
<1> QED
  BY <1>0, <1>1, <1>2, PcChanges

LEMMA AppliesKeeps ==
    ASSUME CmdInv, NEW i \in Id, Applies(i), connected' \in BOOLEAN, connected' => conn # 0
    PROVE  CmdInv' /\ CmdsGoOn
<1>0. UNCHANGED <<transport_id, conn, inflight, done, blocked, wireVars, pushes, faults>>
  BY DEF Applies
<1>1. LinkTypes'
  BY <1>0 DEF CmdInv, LinkTypes
<1>2. /\ cmds[i].pc = "waiting" /\ cmds[i].future # "pending"
      /\ cmds' = [cmds EXCEPT ![i].pc = "applying"]
  BY DEF Applies, Resumes
<1> QED
  BY <1>0, <1>1, <1>2, PcChanges

LEMMA ReplyArrivesKeeps ==
    ASSUME CmdInv, ReplyArrives
    PROVE  CmdInv' /\ CmdsGoOn
<1> DEFINE i == Head(messages)
           d == Settle(cmds[i], "reply")
<1> USE DEF CmdInv
<1>1. /\ conn # 0 /\ messages # <<>> /\ messages' = Tail(messages) /\ i # Push
      /\ \A b \in blocked : b.conn # conn
      /\ inflight' = inflight \ {i}
      /\ UNCHANGED <<transport_id, conn, connected, done, commands, pushes, faults>>
  BY DEF ReplyArrives, Receives, Busy, linkVars
<1>2. LinkTypes'
  BY <1>1 DEF LinkTypes
<1>3. messages' \in Seq(Id \cup {Push}) /\ i \in Id
  BY <1>1, HeadTailProperties DEF CmdTypes
<1>4. cmds[i] \in Cmd /\ "reply" \in Result
  BY <1>3, CmdsAreRecords DEF CmdTypes, Result
<1>5. CASE i \notin inflight
  <2>1. UNCHANGED <<cmds, blocked>> /\ inflight' = inflight
    BY <1>1, <1>5 DEF ReplyArrives
  <2>2. SameCmds /\ Id' = Id
    BY <2>1, NothingChanges DEF CmdTypes, SameCmds
  <2>3. CmdTypes'
    BY <1>1, <1>3, <2>1, <2>2 DEF CmdTypes
  <2>4. Connections' /\ Registered' /\ PendingWaits' /\ Gates' /\ OneBlocked' /\ ReplyHeld'
    BY <1>1, <2>1, <2>2 DEF Connections, Registered, PendingWaits, Gates, OneBlocked, ReplyHeld
  <2> QED
    BY <1>2, <2>2, <2>3, <2>4 DEF CmdsGoOn
<1>6. CASE i \in inflight
  <2>1. /\ d \in Cmd /\ d.kind = cmds[i].kind /\ d.conn = cmds[i].conn /\ d.pc = cmds[i].pc
        /\ d.future # "pending" /\ Later(cmds[i], d)
    BY <1>4, SettleType DEF Result
  <2>2. cmds' = [cmds EXCEPT ![i] = d]
    BY <1>6 DEF ReplyArrives
  <2> HIDE DEF d
  <2>3. /\ SameCmds /\ cmds'[i] = d
        /\ \A j \in Id \ {i} : cmds'[j] = cmds[j]
    BY <1>3, <2>1, <2>2, OneChanges DEF CmdTypes
  <2>4. /\ Id' = Id /\ cmds' \in Seq(Cmd)
        /\ \A j \in Id : j = i \/ cmds'[j] = cmds[j]
    BY <2>3 DEF SameCmds
  <2>5. cmds[i].conn = conn /\ (d.kind \in Gated => cmds[i].future = "pending")
    BY <1>6, <2>1 DEF Registered
  <2>6. d.kind \in Gated => i \notin done
    BY <1>3, <2>1, <2>5 DEF Gates, PendingWaits
  <2> DEFINE w == [conn |-> conn, on |-> i]
  <2>7. /\ blocked' = blocked \/ blocked' = blocked \cup {w}
        /\ d.kind \in Gated => w \in blocked'
    BY <1>6, <2>1, <2>6 DEF ReplyArrives, WaitsFor
  <2>8. w \in [conn : Nat \ {0}, on : Nat] /\ w.conn = conn
    BY <1>1, <1>3 DEF LinkTypes, Id
  <2> HIDE DEF w
  <2>9. CmdTypes'
    BY <1>1, <1>3, <2>4, <2>7, <2>8 DEF CmdTypes
  <2>10. Connections'
    BY <1>1, <2>1, <2>3, <2>4 DEF Connections
  <2>11. Registered'
    BY <1>1, <2>4 DEF Registered, CmdTypes
  <2>12. PendingWaits'
    BY <2>1, <2>3, <2>4 DEF PendingWaits
  <2>13. Gates'
    <3> SUFFICES ASSUME NEW j \in done, cmds'[j].kind \in Gated
                 PROVE  cmds'[j].pc = "over" \/ cmds'[j].future \notin {"pending", "reply"}
      BY <1>1 DEF Gates
    <3> QED
      BY <2>3, <2>4, <2>6 DEF Gates, CmdTypes
  <2>14. OneBlocked'
    BY <1>1, <2>7, <2>8 DEF OneBlocked
  <2>15. ReplyHeld'
    <3> SUFFICES ASSUME NEW j \in Id, cmds'[j].kind \in Gated, cmds'[j].future = "reply",
                        cmds'[j].pc # "over"
                 PROVE  [conn |-> cmds'[j].conn, on |-> j] \in blocked'
      BY <2>4 DEF ReplyHeld
    <3>1. CASE j = i
      BY <3>1, <2>1, <2>3, <2>5, <2>7 DEF w
    <3>2. CASE j # i
      BY <3>2, <2>4, <2>7 DEF ReplyHeld
    <3> QED
      BY <3>1, <3>2
  <2> QED
    BY <1>2, <2>3, <2>9, <2>10, <2>11, <2>12, <2>13, <2>14, <2>15 DEF CmdsGoOn
<1> QED
  BY <1>5, <1>6

\* A step that changes only what a message task waits for, or what is on the way.
LEMMA WireChanges ==
    ASSUME CmdInv, UNCHANGED <<linkVars, futureVars, faults>>, pushes' \in Nat,
           commands' \in Seq(Id), messages' \in Seq(Id \cup {Push}),
           blocked' \subseteq [conn : Nat \ {0}, on : Nat], OneBlocked',
           \A i \in Id : [conn |-> cmds[i].conn, on |-> i] \in blocked /\ cmds[i].kind \in Gated
                         /\ cmds[i].future = "reply" /\ cmds[i].pc # "over"
               => [conn |-> cmds[i].conn, on |-> i] \in blocked'
    PROVE  CmdInv' /\ CmdsGoOn
<1> USE DEF CmdInv
<1>1. UNCHANGED <<transport_id, conn, connected, cmds, inflight, done, faults>>
  BY DEF linkVars, futureVars
<1>2. SameCmds /\ Id' = Id
  BY <1>1, NothingChanges DEF CmdTypes, SameCmds
<1>3. LinkTypes'
  BY <1>1 DEF LinkTypes
<1>4. CmdTypes'
  BY <1>1, <1>2 DEF CmdTypes
<1>5. Connections' /\ Registered' /\ PendingWaits' /\ Gates'
  BY <1>1, <1>2 DEF Connections, Registered, PendingWaits, Gates
<1>6. ReplyHeld'
  BY <1>1, <1>2 DEF ReplyHeld
<1> QED
  BY <1>2, <1>3, <1>4, <1>5, <1>6 DEF CmdsGoOn

LEMMA MessageTaskKeeps ==
    ASSUME CmdInv, MessageTask
    PROVE  CmdInv' /\ CmdsGoOn
<1>1. CASE ReplyArrives
  BY <1>1, ReplyArrivesKeeps
<1>2. CASE PushArrives
  <2> DEFINE w == [conn |-> conn, on |-> Push]
  <2>1. /\ conn # 0 /\ messages # <<>> /\ messages' = Tail(messages)
        /\ \A b \in blocked : b.conn # conn
        /\ blocked' = blocked \cup {w}
        /\ UNCHANGED <<linkVars, futureVars, faults, commands, pushes>>
    BY <1>2 DEF PushArrives, Receives, Busy
  <2>2. w \in [conn : Nat \ {0}, on : Nat] /\ w.conn = conn
    BY <2>1 DEF Push, CmdInv, LinkTypes
  <2> HIDE DEF w
  <2>3. messages' \in Seq(Id \cup {Push})
    BY <2>1, HeadTailProperties DEF CmdInv, CmdTypes
  <2>4. OneBlocked'
    BY <2>1, <2>2 DEF CmdInv, OneBlocked
  <2>5. blocked' \subseteq [conn : Nat \ {0}, on : Nat]
    BY <2>1, <2>2 DEF CmdInv, CmdTypes
  <2>6. commands' \in Seq(Id) /\ pushes' \in Nat
    BY <2>1 DEF CmdInv, CmdTypes, LinkTypes
  <2> QED
    BY <2>1, <2>3, <2>4, <2>5, <2>6, WireChanges
<1>3. CASE TaskGoesOn
  <2>1. PICK b \in blocked :
            /\ b.on # Push => b.on \in done
            /\ blocked' = blocked \ {b}
    BY <1>3 DEF TaskGoesOn
  <2>2. UNCHANGED <<linkVars, futureVars, faults, commands, messages, pushes>>
    BY <1>3 DEF TaskGoesOn, wireVars
  <2>3. ASSUME NEW i \in Id, cmds[i].kind \in Gated, cmds[i].future = "reply",
               cmds[i].pc # "over", [conn |-> cmds[i].conn, on |-> i] \in blocked
        PROVE  [conn |-> cmds[i].conn, on |-> i] \in blocked'
    <3>1. i \notin done /\ i # Push
      BY <2>3 DEF CmdInv, Gates, Id, Push
    <3>2. [conn |-> cmds[i].conn, on |-> i] # b
      BY <2>1, <3>1
    <3> QED
      BY <2>1, <2>3, <3>2
  <2>4. OneBlocked'
    BY <2>1 DEF CmdInv, OneBlocked
  <2>5. blocked' \subseteq [conn : Nat \ {0}, on : Nat]
    BY <2>1 DEF CmdInv, CmdTypes
  <2>6. commands' \in Seq(Id) /\ messages' \in Seq(Id \cup {Push}) /\ pushes' \in Nat
    BY <2>2 DEF CmdInv, CmdTypes, LinkTypes
  <2> QED
    BY <2>2, <2>3, <2>4, <2>5, <2>6, WireChanges
<1> QED
  BY <1>1, <1>2, <1>3 DEF MessageTask

LEMMA ServerKeeps ==
    ASSUME CmdInv, ServerAnswers \/ ServerPushes
    PROVE  CmdInv' /\ CmdsGoOn
<1>0. /\ UNCHANGED <<linkVars, futureVars, faults, blocked>>
      /\ OneBlocked' /\ blocked' \subseteq [conn : Nat \ {0}, on : Nat]
  BY DEF ServerAnswers, ServerPushes, CmdInv, OneBlocked, CmdTypes
<1>1. CASE ServerAnswers
  <2>1. Head(commands) \in Id /\ commands' \in Seq(Id) /\ pushes' \in Nat
    BY <1>1, HeadTailProperties DEF ServerAnswers, CmdInv, CmdTypes, LinkTypes
  <2>2. messages' \in Seq(Id \cup {Push})
    BY <1>1, <2>1, AppendProperties DEF ServerAnswers, CmdInv, CmdTypes
  <2> QED
    BY <1>0, <2>1, <2>2, WireChanges
<1>2. CASE ServerPushes
  <2>1. commands' \in Seq(Id) /\ pushes' \in Nat
    BY <1>2 DEF ServerPushes, CmdInv, CmdTypes, LinkTypes
  <2>2. messages' \in Seq(Id \cup {Push})
    BY <1>2, AppendProperties DEF ServerPushes, CmdInv, CmdTypes
  <2> QED
    BY <1>0, <2>1, <2>2, WireChanges
<1> QED
  BY <1>1, <1>2

LEMMA CallsKeep ==
    ASSUME CmdInv, CallFromTask \/ CallFromHandler
    PROVE  CmdInv' /\ CmdsGoOn
<1>1. faults' \in Nat
  BY DEF CallFromTask, CallFromHandler, CmdInv, LinkTypes
<1>2. PICK place \in {"task", "push", "gate"}, host \in Nat : Issue("rpc", place, host)
  <2>1. CASE CallFromTask
    BY <2>1 DEF CallFromTask
  <2>2. CASE CallFromHandler
    <3>1. \A b \in blocked : b.conn \in Nat
      BY DEF CmdInv, CmdTypes
    <3>2. \A i \in Id : i \in Nat
      BY LenProperties DEF Id, CmdInv, CmdTypes
    <3> QED
      BY <2>2, <3>1, <3>2 DEF CallFromHandler
  <2> QED
    BY <2>1, <2>2
<1>3. CmdInv' /\ OneMore(NewCmd("rpc", place, host))
  BY <1>1, <1>2, IssueKeeps DEF Kind, Gated
<1>4. NewCmd("rpc", place, host) \in Cmd /\ NewCmd("rpc", place, host).kind \notin Gated
  BY DEF NewCmd, Cmd, Kind, Gated, Result, CmdInv, LinkTypes
<1> QED
  BY <1>3, <1>4 DEF CmdsGoOn

LEMMA CommandsKeep ==
    ASSUME CmdInv,
           Callers \/ MessageTask \/ Interruptions \/ ServerAnswers \/ ServerPushes
    PROVE  CmdInv' /\ CmdsGoOn /\ UNCHANGED linkVars
<1>1. UNCHANGED linkVars
  BY DEF Callers, CallFromTask, CallFromHandler, Issue, CallerResumes, GatedGivesUp, Applied,
     MessageTask, ReplyArrives, PushArrives, TaskGoesOn, Interruptions, Cancel, TimesOut,
     BlockedTimesOut, Expire, ServerAnswers, ServerPushes
<1> SUFFICES CmdInv' /\ CmdsGoOn
  BY <1>1
<1>2. CASE Callers
  BY <1>2, CallsKeep, CallerKeeps DEF Callers
<1>3. CASE MessageTask
  BY <1>3, MessageTaskKeeps
<1>4. CASE Cancel
  BY <1>4, CancelKeeps
<1>5. CASE TimesOut \/ BlockedTimesOut
  <2>1. faults' \in Nat
    BY <1>5 DEF TimesOut, BlockedTimesOut, Fault, CmdInv, LinkTypes
  <2> QED
    BY <1>5, <2>1, ExpireKeeps DEF TimesOut, BlockedTimesOut
<1>6. CASE ServerAnswers \/ ServerPushes
  BY <1>6, ServerKeeps
<1> QED
  BY <1>2, <1>3, <1>4, <1>5, <1>6 DEF Interruptions

-----------------------------------------------------------------------------
(* The invariant of the chains *)

\* What the timers and steps of a chain belong to: the number that counts them, and
\* the present one.
Latest(chain) == IF chain = "client" THEN transport_id ELSE attempt
Owner(chain) == IF chain = "client" THEN (IF connected THEN conn ELSE 0)
                ELSE (IF subscribed THEN attempt ELSE 0)

\* Nothing belongs to an owner that is still to come.
Known(chain, owner) == owner = 0 \/ owner < Latest(chain) \/ owner = Owner(chain)

ChainTypes ==
    /\ attempt \in Nat /\ subscribed \in BOOLEAN /\ (subscribed => connected)
    /\ timer \in [Chains -> Nat] /\ expiring \in [Chains -> Nat]
    /\ steps \subseteq Step

StepCmds ==
    \A s \in steps : /\ s.pc = "waiting" <=> s.id # 0
                     /\ s.id # 0 => s.id \in Id /\ cmds[s.id].kind = "refresh"

\* One connect command per connection and one subscribe at a time, applied once.
ConnectsOnce ==
    /\ \A i, j \in Id : cmds[i].kind = "connect" /\ cmds[j].kind = "connect"
                        /\ cmds[i].conn = cmds[j].conn => i = j
    /\ connected => \A i \in Id : cmds[i].kind = "connect" /\ cmds[i].conn = conn
                                  => cmds[i].pc # "waiting"

SubscribesOnce ==
    /\ \A i, j \in Id : cmds[i].kind = "subscribe" /\ cmds[j].kind = "subscribe"
                        /\ cmds[i].conn = cmds[j].conn
                        /\ cmds[i].pc # "over" /\ cmds[j].pc # "over" => i = j
    /\ subscribed => \A i \in Id : cmds[i].kind = "subscribe" /\ cmds[i].conn = conn
                                   => cmds[i].pc # "waiting"

TimersOwned == \A c \in Chains : timer[c] \in {0, Owner(c)}
KnownOwners == /\ \A c \in Chains : Known(c, expiring[c])
               /\ \A s \in steps : Known(s.chain, s.owner)

Mine(chain) == {s \in steps : s.chain = chain /\ s.owner = Owner(chain)}

\* A chain that is to go on is its timer or one step.
GoesOn(chain) ==
    Owner(chain) # 0 /\ expiring[chain] = Owner(chain) =>
        \/ timer[chain] = Owner(chain) /\ Mine(chain) = {}
        \/ timer[chain] = 0 /\ \E s \in steps : Mine(chain) = {s}

ChainsGoOn == \A c \in Chains : GoesOn(c)

Owned == TimersOwned /\ KnownOwners /\ ChainsGoOn
Flows == ConnectsOnce /\ SubscribesOnce
ChainInv == ChainTypes /\ StepCmds /\ Flows /\ Owned
Inv == CmdInv /\ ChainInv

-----------------------------------------------------------------------------
(* The parts of the invariant about commands *)

LEMMA StepCmdsKept ==
    ASSUME CmdInv, StepCmds, SameCmds \/ \E c \in Cmd : OneMore(c), NEW s \in steps
    PROVE  s.id # 0 => s.id \in Id' /\ cmds'[s.id].kind = "refresh"
BY DEF StepCmds, SameCmds, OneMore, Later

\* Connections and sessions may end, and no connect or subscribe command is added.
LEMMA FlowsKept ==
    ASSUME CmdInv, Flows, CmdsGoOn,
           connected' => connected /\ conn' = conn,
           subscribed' => subscribed /\ conn' = conn
    PROVE  Flows'
<1> USE DEF Flows
<1>1. \A i \in Id' : cmds'[i].kind \in Gated =>
          i \in Id /\ Later(cmds[i], cmds'[i])
  BY DEF CmdsGoOn, SameCmds, OneMore, Later
<1>2. ConnectsOnce'
  BY <1>1 DEF ConnectsOnce, Gated, Later
<1>3. SubscribesOnce'
  BY <1>1 DEF SubscribesOnce, Gated, Later
<1> QED
  BY <1>2, <1>3

\* A connect or subscribe command is added while there is none.
LEMMA OneMoreFlow ==
    ASSUME CmdInv, Flows, NEW c \in Cmd, OneMore(c),
           connected' => connected /\ conn' = conn, ~subscribed',
           \A i \in Id : cmds[i].kind = c.kind /\ cmds[i].conn = c.conn => cmds[i].pc = "over",
           c.kind = "connect" => ~connected' /\ \A i \in Id : cmds[i].conn # c.conn
    PROVE  Flows'
<1> USE DEF Flows
<1>1. \A i \in Id' : (i \in Id /\ cmds'[i] = cmds[i]) \/ (i = Len(cmds) + 1 /\ cmds'[i] = c)
  <2> DEFINE n == Len(cmds) + 1
  <2>1. Id' = Id \cup {n} /\ cmds'[n] = c /\ \A i \in Id : cmds'[i] = cmds[i]
    BY DEF OneMore
  <2> HIDE DEF n
  <2>2. \A i \in Id' : (i \in Id /\ cmds'[i] = cmds[i]) \/ (i = n /\ cmds'[i] = c)
    BY <2>1
  <2> QED
    BY <2>2 DEF n
<1>2. ConnectsOnce'
  <2>1. ASSUME NEW i \in Id', NEW j \in Id', cmds'[i].kind = "connect",
               cmds'[j].kind = "connect", cmds'[i].conn = cmds'[j].conn
        PROVE  i = j
    BY <1>1, <2>1 DEF ConnectsOnce
  <2>2. ASSUME connected', NEW i \in Id', cmds'[i].kind = "connect", cmds'[i].conn = conn'
        PROVE  cmds'[i].pc # "waiting"
    <3>1. i \in Id /\ cmds'[i] = cmds[i]
      BY <1>1, <2>2
    <3> QED
      BY <2>2, <3>1 DEF ConnectsOnce
  <2> QED
    BY <2>1, <2>2 DEF ConnectsOnce
<1>3. SubscribesOnce'
  BY <1>1 DEF SubscribesOnce
<1> QED
  BY <1>2, <1>3

-----------------------------------------------------------------------------
(* The parts of the invariant about owners *)

\* Owners and what belongs to them stay, for every chain but those that end or start.
SameOwner(c) ==
    /\ Owner(c)' = Owner(c) /\ Latest(c)' = Latest(c)
    /\ timer'[c] = timer[c] /\ expiring'[c] = expiring[c]
    /\ \A s \in steps : s.chain = c => s \in steps'

OwnerEnds(c) ==
    /\ Owner(c)' = 0 /\ Latest(c)' > Latest(c)
    /\ timer'[c] = 0 /\ expiring'[c] = expiring[c]

OwnerStarts(c) ==
    /\ Owner(c) = 0 /\ Owner(c)' = Latest(c)' /\ Latest(c)' >= Latest(c)
    /\ \/ timer'[c] = Owner(c)' /\ expiring'[c] = Owner(c)'
       \/ timer'[c] = timer[c] /\ expiring'[c] = expiring[c]

LEMMA OwnerTypes ==
    ASSUME CmdInv, ChainTypes, NEW c \in Chains
    PROVE  /\ Latest(c) \in Nat /\ Owner(c) \in Nat /\ Owner(c) <= Latest(c)
           /\ timer[c] \in Nat /\ expiring[c] \in Nat
           /\ \A s \in steps : s.owner \in Nat /\ s.chain \in Chains
BY DEF CmdInv, LinkTypes, ChainTypes, Latest, Owner, Step

LEMMA OwnersMove ==
    ASSUME CmdInv, ChainTypes, Owned, CmdInv', ChainTypes', steps' \subseteq steps,
           \A c \in Chains : SameOwner(c) \/ OwnerEnds(c) \/ OwnerStarts(c)
    PROVE  Owned'
<1> USE DEF Owned
<1>0. \A c \in Chains :
          /\ Latest(c) \in Nat /\ Owner(c) \in Nat /\ Owner(c) <= Latest(c)
          /\ Latest(c)' \in Nat /\ Owner(c)' \in Nat
          /\ timer[c] \in Nat /\ expiring[c] \in Nat
          /\ timer[c] \in {0, Owner(c)} /\ Known(c, expiring[c]) /\ GoesOn(c)
  BY DEF CmdInv, LinkTypes, ChainTypes, Latest, Owner, TimersOwned, KnownOwners, ChainsGoOn
<1>1. \A s \in steps : s.owner \in Nat /\ s.chain \in Chains /\ Known(s.chain, s.owner)
  BY DEF ChainTypes, Step, KnownOwners
<1>2. ASSUME NEW c \in Chains, NEW x \in Nat, Known(c, x)
      PROVE  Known(c, x)' /\ (OwnerStarts(c) => x = 0 \/ x < Owner(c)')
  <2>1. x = 0 \/ x < Latest(c) \/ x = Owner(c)
    BY <1>2 DEF Known
  <2> QED
    BY <1>0, <2>1 DEF Known, SameOwner, OwnerEnds, OwnerStarts
<1>3. TimersOwned'
  BY <1>0 DEF TimersOwned, SameOwner, OwnerEnds, OwnerStarts
<1>4. KnownOwners'
  <2>1. ASSUME NEW c \in Chains
        PROVE  Known(c, expiring[c])'
    <3>1. Known(c, expiring[c])'
      <4>1. CASE expiring'[c] = expiring[c]
        <5>1. expiring'[c] = 0 \/ expiring'[c] < Latest(c)' \/ expiring'[c] = Owner(c)'
          BY <1>0, <1>2, <4>1 DEF Known
        <5> QED
          BY <5>1 DEF Known
      <4>2. CASE expiring'[c] = Owner(c)'
        BY <4>2 DEF Known
      <4> QED
        BY <4>1, <4>2 DEF SameOwner, OwnerEnds, OwnerStarts
    <3> QED
      BY <3>1
  <2>2. ASSUME NEW s \in steps'
        PROVE  Known(s.chain, s.owner)'
    BY <1>1, <1>2
  <2> QED
    BY <2>1, <2>2 DEF KnownOwners
<1>5. ASSUME NEW c \in Chains
      PROVE  GoesOn(c)'
  <2>1. CASE SameOwner(c)
    <3>1. Mine(c)' = Mine(c)
      BY <2>1 DEF Mine, SameOwner
    <3>2. Mine(c) \subseteq steps /\ Mine(c) \subseteq steps'
      BY <2>1 DEF Mine, SameOwner
    <3> QED
      BY <1>0, <2>1, <3>1, <3>2 DEF GoesOn, SameOwner
  <2>2. CASE OwnerEnds(c)
    BY <2>2 DEF GoesOn, OwnerEnds
  <2>3. CASE OwnerStarts(c)
    <3>1. CASE timer'[c] = Owner(c)' /\ expiring'[c] = Owner(c)'
      <4>1. SUFFICES ASSUME Owner(c)' # 0
                     PROVE  Mine(c)' = {}
        BY <3>1 DEF GoesOn
      <4>2. \A s \in steps : s.chain = c => s.owner # Owner(c)'
        BY <1>0, <1>1, <1>2, <2>3, <4>1
      <4> QED
        BY <4>2 DEF Mine
    <3>2. CASE expiring'[c] = expiring[c]
      <4>1. expiring[c] = 0 \/ expiring[c] < Owner(c)'
        BY <1>0, <1>2, <2>3
      <4> QED
        BY <1>0, <3>2, <4>1 DEF GoesOn
    <3> QED
      BY <2>3, <3>1, <3>2 DEF OwnerStarts
  <2> QED
    BY <2>1, <2>2, <2>3
<1> QED
  BY <1>3, <1>4, <1>5 DEF ChainsGoOn

LEMMA CurrentOwner ==
    ASSUME NEW s \in steps
    PROVE  /\ Current(s) => s.owner = Owner(s.chain)
           /\ ~Current(s) => Owner(s.chain) = 0 \/ s.owner # Owner(s.chain)
BY DEF Current, ConnectionCurrent, Owner

\* No owner ends or starts.
SameOwners == UNCHANGED <<transport_id, conn, connected, attempt, subscribed>>

LEMMA OwnersStay ==
    ASSUME SameOwners
    PROVE  /\ \A c \in Chains : Owner(c)' = Owner(c) /\ Latest(c)' = Latest(c)
           /\ \A c \in Chains, x \in Nat : Known(c, x)' <=> Known(c, x)
BY DEF SameOwners, Owner, Latest, Known

\* A step goes on.
LEMMA StepMoves ==
    ASSUME ChainTypes, Owned, ChainTypes', SameOwners, UNCHANGED <<timer, expiring>>,
           NEW s \in steps, NEW t \in Step, t.chain = s.chain, t.owner = s.owner,
           steps' = (steps \ {s}) \cup {t}
    PROVE  Owned'
<1> USE DEF Owned
<1>0. /\ \A c \in Chains : timer[c] \in Nat /\ expiring[c] \in Nat
      /\ \A r \in steps : r.owner \in Nat /\ r.chain \in Chains
  BY DEF ChainTypes, Step
<1>1. TimersOwned'
  BY OwnersStay DEF TimersOwned
<1>2. KnownOwners'
  <2>1. \A c \in Chains : Known(c, expiring[c])'
    BY <1>0, OwnersStay DEF KnownOwners
  <2>2. \A r \in steps' : Known(r.chain, r.owner)'
    BY <1>0, OwnersStay DEF KnownOwners
  <2> QED
    BY <2>1, <2>2 DEF KnownOwners
<1>3. ASSUME NEW c \in Chains
      PROVE  GoesOn(c)'
  <2> SUFFICES ASSUME Owner(c) # 0, expiring[c] = Owner(c)
               PROVE  \/ timer[c] = Owner(c) /\ Mine(c)' = {}
                      \/ timer[c] = 0 /\ \E r \in steps' : Mine(c)' = {r}
    BY OwnersStay DEF GoesOn
  <2>1. Mine(c)' = {r \in steps' : r.chain = c /\ r.owner = Owner(c)}
    BY OwnersStay DEF Mine
  <2>2. CASE timer[c] = Owner(c) /\ Mine(c) = {}
    <3>1. Mine(c)' = {}
      BY <2>1, <2>2 DEF Mine
    <3> QED
      BY <2>2, <3>1
  <2>3. CASE timer[c] = 0 /\ \E r \in steps : Mine(c) = {r}
    <3>1. PICK r \in steps : Mine(c) = {r}
      BY <2>3
    <3>2. r.chain = c /\ r.owner = Owner(c)
      BY <3>1 DEF Mine
    <3>3. CASE r = s
      <4>1. Mine(c)' = {t}
        BY <2>1, <3>1, <3>2, <3>3 DEF Mine
      <4> QED
        BY <2>3, <4>1
    <3>4. CASE r # s
      <4>1. Mine(c)' = {r}
        BY <2>1, <3>1, <3>2, <3>4 DEF Mine
      <4> QED
        BY <2>3, <3>4, <4>1
    <3> QED
      BY <3>3, <3>4
  <2> QED
    BY <2>2, <2>3 DEF GoesOn, ChainsGoOn
<1> QED
  BY <1>1, <1>2, <1>3 DEF ChainsGoOn

\* A step whose owner is over ends.
LEMMA LateStepEnds ==
    ASSUME ChainTypes, Owned, SameOwners, UNCHANGED <<timer, expiring>>,
           NEW s \in steps, ~Current(s), steps' = steps \ {s}
    PROVE  Owned'
<1> USE DEF Owned
<1>0. /\ \A c \in Chains : timer[c] \in Nat /\ expiring[c] \in Nat
      /\ \A r \in steps : r.owner \in Nat /\ r.chain \in Chains
  BY DEF ChainTypes, Step
<1>1. TimersOwned'
  BY OwnersStay DEF TimersOwned
<1>2. KnownOwners'
  BY <1>0, OwnersStay DEF KnownOwners
<1>3. ASSUME NEW c \in Chains
      PROVE  GoesOn(c)'
  <2>1. SUFFICES ASSUME Owner(c) # 0
                 PROVE  GoesOn(c)'
    BY OwnersStay DEF GoesOn
  <2>2. Mine(c)' = Mine(c)
    BY <2>1, OwnersStay, CurrentOwner DEF Mine
  <2>3. Mine(c) \subseteq steps'
    BY <2>1, CurrentOwner DEF Mine
  <2> QED
    BY <2>2, <2>3, OwnersStay DEF GoesOn, ChainsGoOn
<1> QED
  BY <1>1, <1>2, <1>3 DEF ChainsGoOn

\* A step of the present owner ends: the timer is set, or the chain is not to go on.
LEMMA StepHandsOver ==
    ASSUME ChainTypes, Owned, SameOwners, NEW s \in steps, Current(s), steps' = steps \ {s},
           \/ Arm(s.chain, s.owner) /\ UNCHANGED expiring
           \/ Expires(s.chain, 0) /\ UNCHANGED timer
    PROVE  Owned'
<1> USE DEF Owned
<1>0. /\ \A c \in Chains : timer[c] \in Nat /\ expiring[c] \in Nat
      /\ \A r \in steps : r.owner \in Nat /\ r.chain \in Chains
      /\ s.owner = Owner(s.chain)
  BY CurrentOwner DEF ChainTypes, Step
<1>1. \A c \in Chains :
          /\ timer'[c] = timer[c] \/ (c = s.chain /\ timer'[c] = Owner(c))
          /\ expiring'[c] = expiring[c] \/ (c = s.chain /\ expiring'[c] = 0)
          /\ c = s.chain => timer'[c] = Owner(c) \/ expiring'[c] = 0
  BY <1>0 DEF Arm, Expires, ChainTypes
<1>2. TimersOwned'
  BY <1>1, OwnersStay DEF TimersOwned
<1>3. KnownOwners'
  <2>1. \A c \in Chains : Known(c, expiring[c]) /\ Known(c, 0)
    BY DEF KnownOwners, Known
  <2>2. \A c \in Chains : Known(c, expiring'[c]) /\ expiring'[c] \in Nat
    BY <1>0, <1>1, <2>1
  <2>3. \A c \in Chains : Known(c, expiring[c])'
    BY <2>2, OwnersStay
  <2>4. \A r \in steps' : Known(r.chain, r.owner)'
    BY <1>0, OwnersStay DEF KnownOwners
  <2> QED
    BY <2>3, <2>4 DEF KnownOwners
<1>4. ASSUME NEW c \in Chains
      PROVE  GoesOn(c)'
  <2> SUFFICES ASSUME Owner(c) # 0, expiring'[c] = Owner(c)
               PROVE  \/ timer'[c] = Owner(c) /\ Mine(c)' = {}
                      \/ timer'[c] = 0 /\ \E r \in steps' : Mine(c)' = {r}
    BY OwnersStay DEF GoesOn
  <2>0. expiring[c] = Owner(c) /\ GoesOn(c)
    BY <1>1 DEF ChainsGoOn
  <2>1. Mine(c)' = Mine(c) \ {s}
    BY OwnersStay DEF Mine
  <2>2. CASE c = s.chain
    <3>1. timer'[c] = Owner(c) /\ s \in Mine(c)
      BY <1>0, <1>1, <2>2 DEF Mine
    <3>2. \E r \in steps : Mine(c) = {r}
      BY <2>0, <3>1 DEF GoesOn
    <3> QED
      BY <2>1, <3>1, <3>2
  <2>3. CASE c # s.chain
    <3>1. timer'[c] = timer[c] /\ s \notin Mine(c) /\ Mine(c)' = Mine(c)
      BY <1>1, <2>1, <2>3 DEF Mine
    <3>2. Mine(c) \subseteq steps'
      BY <3>1 DEF Mine
    <3> QED
      BY <2>0, <3>1, <3>2 DEF GoesOn
  <2> QED
    BY <2>2, <2>3
<1> QED
  BY <1>2, <1>3, <1>4 DEF ChainsGoOn

\* A timer fires and its step starts.
LEMMA StepStarts ==
    ASSUME ChainTypes, Owned, SameOwners, NEW chain \in Chains, timer[chain] # 0,
           NEW t \in Step, t.chain = chain, t.owner = timer[chain],
           steps' = steps \cup {t}, Arm(chain, 0), UNCHANGED expiring
    PROVE  Owned'
<1> USE DEF Owned
<1>0. /\ \A c \in Chains : timer[c] \in Nat /\ expiring[c] \in Nat
      /\ \A r \in steps : r.owner \in Nat /\ r.chain \in Chains
      /\ t.owner = Owner(chain) /\ t.owner \in Nat
  BY DEF ChainTypes, Step, TimersOwned
<1>1. \A c \in Chains : timer'[c] = IF c = chain THEN 0 ELSE timer[c]
  BY DEF Arm
<1>2. TimersOwned'
  BY <1>1, OwnersStay DEF TimersOwned
<1>3. KnownOwners'
  <2>1. \A c \in Chains : Known(c, expiring[c])'
    BY <1>0, OwnersStay DEF KnownOwners
  <2>2. \A r \in steps' : Known(r.chain, r.owner)
    BY <1>0 DEF KnownOwners, Known
  <2>3. \A r \in steps' : Known(r.chain, r.owner)'
    BY <1>0, <2>2, OwnersStay
  <2> QED
    BY <2>1, <2>3 DEF KnownOwners
<1>4. ASSUME NEW c \in Chains
      PROVE  GoesOn(c)'
  <2> SUFFICES ASSUME Owner(c) # 0, expiring[c] = Owner(c)
               PROVE  \/ timer'[c] = Owner(c) /\ Mine(c)' = {}
                      \/ timer'[c] = 0 /\ \E r \in steps' : Mine(c)' = {r}
    BY OwnersStay DEF GoesOn
  <2>0. GoesOn(c)
    BY DEF ChainsGoOn
  <2>1. CASE c = chain
    <3>1. Mine(c) = {}
      BY <2>0, <2>1, <1>0 DEF GoesOn
    <3>2. Mine(c)' = {t}
      BY <1>0, <2>1, <3>1, OwnersStay DEF Mine
    <3> QED
      BY <1>1, <2>1, <3>2
  <2>2. CASE c # chain
    <3>1. timer'[c] = timer[c] /\ Mine(c)' = Mine(c)
      BY <1>1, <2>2, OwnersStay DEF Mine
    <3> QED
      BY <2>0, <3>1 DEF GoesOn
  <2> QED
    BY <2>1, <2>2
<1> QED
  BY <1>2, <1>3, <1>4 DEF ChainsGoOn

-----------------------------------------------------------------------------
(* The steps of RefreshChains *)

\* What a step does to the commands: it may add one.
AnyCmds == SameCmds \/ \E c \in Cmd : OneMore(c)

LEMMA GoOnIsAny == CmdsGoOn => AnyCmds
BY DEF CmdsGoOn, AnyCmds

LEMMA StepCmdsAfter ==
    ASSUME CmdInv, StepCmds, AnyCmds,
           \A t \in steps' :
               \/ t \in steps
               \/ t.pc # "waiting" /\ t.id = 0
               \/ t.pc = "waiting" /\ t.id # 0 /\ t.id \in Id' /\ cmds'[t.id].kind = "refresh"
    PROVE  StepCmds'
<1> SUFFICES ASSUME NEW t \in steps'
             PROVE  /\ t.pc = "waiting" <=> t.id # 0
                    /\ t.id # 0 => t.id \in Id' /\ cmds'[t.id].kind = "refresh"
  BY DEF StepCmds
<1>1. CASE t \in steps
  BY <1>1, StepCmdsKept DEF StepCmds, AnyCmds
<1>2. CASE t \notin steps
  BY <1>2
<1> QED
  BY <1>1, <1>2

\* Only steps, timers and what is expected to expire change.
LEMMA CommandsStay ==
    ASSUME CmdInv, UNCHANGED <<linkVars, futureVars, blocked, wireVars, pushes>>, faults' \in Nat
    PROVE  CmdInv' /\ CmdsGoOn /\ UNCHANGED linkVars
<1> USE DEF CmdInv
<1>1. UNCHANGED <<transport_id, conn, connected, cmds, inflight, done, blocked, commands,
                  messages, pushes>>
  BY DEF linkVars, futureVars, wireVars
<1>2. SameCmds /\ Id' = Id
  BY <1>1, NothingChanges DEF CmdTypes, SameCmds
<1>3. LinkTypes'
  BY <1>1 DEF LinkTypes
<1>4. CmdTypes'
  BY <1>1, <1>2 DEF CmdTypes
<1>5. Connections' /\ Registered' /\ PendingWaits' /\ Gates' /\ OneBlocked' /\ ReplyHeld'
  BY <1>1, <1>2 DEF Connections, Registered, PendingWaits, Gates, OneBlocked, ReplyHeld
<1> QED
  BY <1>2, <1>3, <1>4, <1>5 DEF CmdsGoOn, linkVars

\* A step of module Commands.
LEMMA NotChainsKeeps ==
    ASSUME Inv, NotChains
    PROVE  Inv' /\ AnyCmds
<1> USE DEF Inv, ChainInv
<1>0. UNCHANGED <<attempt, subscribed, timer, expiring, steps>>
  BY DEF NotChains, chainVars
<1>1. CASE OpenTransport
  <2>1. CmdInv' /\ ConnectCmd \in Cmd /\ OneMore(ConnectCmd)
    BY <1>1, OpenTransportKeeps
  <2>2. /\ conn = 0 /\ transport_id' = transport_id + 1 /\ connected' = connected
        /\ transport_id \in Nat
    BY <1>1 DEF OpenTransport, CmdInv, LinkTypes
  <2>3. ~connected /\ ~subscribed
    BY <2>2 DEF CmdInv, LinkTypes, ChainTypes
  <2>4. AnyCmds
    BY <2>1 DEF AnyCmds
  <2>5. ChainTypes'
    BY <1>0, <2>2, <2>3 DEF ChainTypes
  <2>6. StepCmds'
    BY <1>0, <2>4, StepCmdsAfter
  <2>7. Flows'
    <3>1. ConnectCmd.kind = "connect" /\ ConnectCmd.conn = transport_id + 1
      BY DEF ConnectCmd
    <3>2. \A i \in Id : cmds[i].conn # ConnectCmd.conn
      <4>1. \A i \in Id : cmds[i].conn \in Nat /\ cmds[i].conn <= transport_id
        BY CmdsAreRecords DEF CmdInv, CmdTypes, Connections, Cmd
      <4> QED
        BY <4>1, <3>1, <2>2
    <3>3. ~connected' /\ ~subscribed'
      BY <1>0, <2>2, <2>3
    <3> QED
      BY <2>1, <3>1, <3>2, <3>3, OneMoreFlow
  <2>8. \A c \in Chains : SameOwner(c) \/ OwnerEnds(c)
    <3> SUFFICES ASSUME NEW c \in Chains
                 PROVE  SameOwner(c) \/ OwnerEnds(c)
      OBVIOUS
    <3>0. timer[c] = 0 /\ Owner(c) = 0 /\ Owner(c)' = 0
      BY <1>0, <2>2, <2>3 DEF Owned, TimersOwned, Owner
    <3>1. CASE c = "client"
      BY <1>0, <2>2, <3>0, <3>1 DEF OwnerEnds, Latest
    <3>2. CASE c # "client"
      BY <1>0, <3>0, <3>2 DEF SameOwner, Latest
    <3> QED
      BY <3>1, <3>2
  <2>9. Owned'
    BY <1>0, <2>1, <2>5, <2>8, OwnersMove
  <2> QED
    BY <2>1, <2>4, <2>5, <2>6, <2>7, <2>9
<1>2. CASE Callers \/ MessageTask \/ Interruptions \/ ServerAnswers \/ ServerPushes
  <2>1. CmdInv' /\ CmdsGoOn /\ AnyCmds /\ UNCHANGED <<transport_id, conn, connected>>
    BY <1>2, CommandsKeep, GoOnIsAny DEF linkVars
  <2>2. ChainTypes'
    BY <1>0, <2>1 DEF ChainTypes
  <2>3. StepCmds'
    BY <1>0, <2>1, StepCmdsAfter
  <2>4. Flows'
    BY <1>0, <2>1, FlowsKept
  <2>5. \A c \in Chains : SameOwner(c)
    BY <1>0, <2>1 DEF SameOwner, Owner, Latest
  <2>6. Owned'
    BY <1>0, <2>1, <2>2, <2>5, OwnersMove
  <2> QED
    BY <2>1, <2>2, <2>3, <2>4, <2>6
<1> QED
  BY <1>1, <1>2 DEF NotChains

\* The connect or subscribe that is applied is the one there is.
LEMMA GatedKept ==
    ASSUME CmdInv, CmdsGoOn
    PROVE  \A i \in Id' : cmds'[i].kind \in Gated => i \in Id /\ Later(cmds[i], cmds'[i])
BY DEF CmdsGoOn, SameCmds, OneMore, Later

LEMMA AppliesPc ==
    ASSUME CmdInv, NEW i \in Id, Applies(i)
    PROVE  /\ cmds[i].pc = "waiting" /\ cmds'[i].pc = "applying"
           /\ UNCHANGED <<transport_id, conn>>
<1>1. cmds \in [Id -> Cmd] /\ cmds[i] \in Cmd
  BY LenProperties, CmdsAreRecords DEF CmdInv, CmdTypes, Id
<1>2. cmds'[i] = [cmds[i] EXCEPT !.pc = "applying"]
  BY <1>1 DEF Applies
<1> QED
  BY <1>1, <1>2 DEF Applies, Resumes, Cmd

LEMMA ConnectsKeeps ==
    ASSUME Inv, Connects
    PROVE  Inv' /\ AnyCmds
<1> USE DEF Inv, ChainInv, Flows
<1>1. PICK i \in Id :
          /\ cmds[i].kind = "connect" /\ cmds[i].conn = conn /\ Applies(i) /\ connected' = TRUE
          /\ \/ Arm("client", conn) /\ Expires("client", conn)
             \/ UNCHANGED <<timer, expiring>>
          /\ UNCHANGED <<attempt, subscribed, steps>>
  BY DEF Connects, sessionVars
<1>2. /\ cmds[i].pc = "waiting" /\ cmds'[i].pc = "applying"
      /\ UNCHANGED <<transport_id, conn>>
  BY <1>1, AppliesPc
<1>3. ~connected /\ ~subscribed /\ conn # 0 /\ conn = transport_id
  <2>1. conn # 0
    BY <1>1 DEF CmdInv, Connections, Gated
  <2> QED
    BY <1>1, <1>2, <2>1 DEF ConnectsOnce, ChainTypes, CmdInv, LinkTypes
<1>4. CmdInv' /\ CmdsGoOn
  BY <1>1, <1>3, AppliesKeeps
<1>5. AnyCmds
  BY <1>4, GoOnIsAny
<1>6. ChainTypes'
  BY <1>1, <1>3 DEF ChainTypes, CmdInv, LinkTypes, Arm, Expires
<1>7. StepCmds'
  BY <1>1, <1>4, <1>5, StepCmdsAfter
<1>8. ConnectsOnce'
  BY <1>1, <1>2, <1>4, GatedKept DEF ConnectsOnce, Gated, Later
<1>9. SubscribesOnce'
  BY <1>1, <1>3, <1>4, GatedKept DEF SubscribesOnce, Gated, Later
<1>10. ASSUME NEW c \in Chains
       PROVE  SameOwner(c) \/ OwnerStarts(c)
  <2>1. CASE c = "client"
    <3>1. Owner(c) = 0 /\ Owner(c)' = conn /\ Latest(c)' = conn /\ Latest(c) = conn
      BY <1>1, <1>2, <1>3, <2>1 DEF Owner, Latest
    <3>2. conn \in Nat
      BY DEF CmdInv, LinkTypes
    <3> QED
      BY <1>1, <2>1, <3>1, <3>2 DEF OwnerStarts, Arm, Expires
  <2>2. CASE c # "client"
    <3>1. Owner(c)' = Owner(c) /\ Latest(c)' = Latest(c)
      BY <1>1, <2>2 DEF Owner, Latest
    <3>2. timer'[c] = timer[c] /\ expiring'[c] = expiring[c]
      BY <1>1, <2>2 DEF Arm, Expires
    <3> QED
      BY <1>1, <3>1, <3>2 DEF SameOwner
  <2> QED
    BY <2>1, <2>2
<1>11. Owned'
  BY <1>1, <1>4, <1>6, <1>10, OwnersMove
<1> QED
  BY <1>4, <1>5, <1>6, <1>7, <1>8, <1>9, <1>11

LEMMA SubscribesKeeps ==
    ASSUME Inv, Subscribes
    PROVE  Inv' /\ AnyCmds
<1> USE DEF Inv, ChainInv, Flows
<1>1. PICK i \in Id :
          /\ cmds[i].kind = "subscribe" /\ ConnectionCurrent(cmds[i].conn) /\ Applies(i)
          /\ subscribed' = TRUE /\ attempt' = attempt + 1
          /\ \/ Arm("subscription", attempt + 1) /\ Expires("subscription", attempt + 1)
             \/ UNCHANGED <<timer, expiring>>
          /\ UNCHANGED <<connected, steps>>
  BY DEF Subscribes
<1>2. /\ cmds[i].pc = "waiting" /\ cmds'[i].pc = "applying"
      /\ UNCHANGED <<transport_id, conn>>
  BY <1>1, AppliesPc
<1>3. connected /\ cmds[i].conn = conn /\ ~subscribed /\ attempt \in Nat
  BY <1>1, <1>2 DEF ConnectionCurrent, SubscribesOnce, ChainTypes
<1>4. CmdInv' /\ CmdsGoOn
  BY <1>1, AppliesKeeps DEF CmdInv, LinkTypes
<1>5. AnyCmds
  BY <1>4, GoOnIsAny
<1>6. ChainTypes'
  BY <1>1, <1>3 DEF ChainTypes, Arm, Expires
<1>7. StepCmds'
  BY <1>1, <1>4, <1>5, StepCmdsAfter
<1>8. ConnectsOnce'
  BY <1>1, <1>2, <1>4, GatedKept DEF ConnectsOnce, Gated, Later
<1>9. SubscribesOnce'
  <2>1. ASSUME NEW j \in Id', NEW k \in Id', cmds'[j].kind = "subscribe",
               cmds'[k].kind = "subscribe", cmds'[j].conn = cmds'[k].conn,
               cmds'[j].pc # "over", cmds'[k].pc # "over"
        PROVE  j = k
    BY <1>4, <2>1, GatedKept DEF SubscribesOnce, Gated, Later
  <2>2. ASSUME NEW k \in Id', cmds'[k].kind = "subscribe", cmds'[k].conn = conn',
               cmds'[k].pc = "waiting"
        PROVE  FALSE
    <3>1. /\ k \in Id /\ cmds[k].kind = "subscribe" /\ cmds[k].conn = conn
          /\ cmds[k].pc = "waiting"
      BY <1>2, <1>4, <2>2, GatedKept DEF Gated, Later
    <3>2. k = i
      BY <1>1, <1>2, <1>3, <3>1 DEF SubscribesOnce
    <3> QED
      BY <1>2, <2>2, <3>2
  <2> QED
    BY <2>1, <2>2 DEF SubscribesOnce
<1>10. ASSUME NEW c \in Chains
       PROVE  SameOwner(c) \/ OwnerStarts(c)
  <2>1. CASE c # "client"
    <3>1. /\ Owner(c) = 0 /\ Owner(c)' = attempt + 1 /\ Latest(c)' = attempt + 1
          /\ Latest(c) = attempt /\ c = "subscription"
      BY <1>1, <1>3, <2>1, ChainsAssumption DEF Owner, Latest
    <3> QED
      BY <1>1, <1>3, <2>1, <3>1 DEF OwnerStarts, Arm, Expires
  <2>2. CASE c = "client"
    <3>1. Owner(c)' = Owner(c) /\ Latest(c)' = Latest(c)
      BY <1>1, <1>2, <2>2 DEF Owner, Latest
    <3>2. timer'[c] = timer[c] /\ expiring'[c] = expiring[c]
      BY <1>1, <2>2 DEF Arm, Expires
    <3> QED
      BY <1>1, <3>1, <3>2 DEF SameOwner
  <2> QED
    BY <2>1, <2>2
<1>11. Owned'
  BY <1>1, <1>4, <1>6, <1>10, OwnersMove
<1> QED
  BY <1>4, <1>5, <1>6, <1>7, <1>8, <1>9, <1>11

LEMMA SubscribeStartsKeeps ==
    ASSUME Inv, SubscribeStarts
    PROVE  Inv' /\ AnyCmds
<1> USE DEF Inv, ChainInv
<1> DEFINE c == NewCmd("subscribe", "task", 0)
<1>0. /\ connected /\ ~subscribed /\ conn # 0
      /\ \A i \in Id : cmds[i].kind = "subscribe" /\ cmds[i].conn = conn => cmds[i].pc = "over"
      /\ Issue("subscribe", "task", 0)
      /\ UNCHANGED <<faults, attempt, subscribed, timer, expiring, steps>>
  BY DEF SubscribeStarts, chainVars, CmdInv, LinkTypes
<1>1. UNCHANGED <<transport_id, conn, connected>>
  BY <1>0 DEF Issue, linkVars
<1>2. CmdInv' /\ OneMore(c)
  <2>1. faults' \in Nat
    BY <1>0 DEF CmdInv, LinkTypes
  <2> QED
    BY <1>0, <2>1, IssueKeeps DEF Kind, Gated
<1>3. c \in Cmd /\ c.kind = "subscribe" /\ c.conn = conn
  BY DEF NewCmd, Cmd, Kind, Gated, Result, CmdInv, LinkTypes
<1> HIDE DEF c
<1>4. AnyCmds
  BY <1>2, <1>3 DEF AnyCmds
<1>5. ChainTypes'
  BY <1>0, <1>1 DEF ChainTypes
<1>6. StepCmds'
  BY <1>0, <1>4, StepCmdsAfter
<1>7. Flows'
  BY <1>0, <1>1, <1>2, <1>3, OneMoreFlow
<1>8. \A d \in Chains : SameOwner(d)
  BY <1>0, <1>1 DEF SameOwner, Owner, Latest
<1>9. Owned'
  BY <1>0, <1>2, <1>5, <1>8, OwnersMove
<1> QED
  BY <1>2, <1>4, <1>5, <1>6, <1>7, <1>9

LEMMA DisconnectsKeeps ==
    ASSUME Inv, NEW ended \in SUBSET Id, \A i \in ended : cmds[i].future # "pending",
           Disconnects(ended), faults' \in Nat, steps' \subseteq steps,
           \A s \in steps \ steps' : s.chain = "client"
    PROVE  Inv' /\ AnyCmds
<1> USE DEF Inv, ChainInv
<1>1. CmdInv' /\ CmdsGoOn
  BY TeardownKeeps DEF Disconnects, CmdsGoOn
<1>2. /\ transport_id' = transport_id + 1 /\ conn' = 0 /\ ~connected' /\ ~subscribed'
      /\ attempt' = (IF subscribed THEN attempt + 1 ELSE attempt)
      /\ timer' = [c \in Chains |-> 0] /\ expiring' = expiring
      /\ transport_id \in Nat /\ attempt \in Nat
  BY DEF Disconnects, Teardown, CmdInv, LinkTypes, ChainTypes
<1>3. ChainTypes'
  <2>1. subscribed' \in BOOLEAN
    BY DEF Disconnects
  <2>2. attempt' \in Nat /\ timer' \in [Chains -> Nat] /\ expiring' \in [Chains -> Nat]
    BY <1>2 DEF ChainTypes
  <2> QED
    BY <1>2, <2>1, <2>2 DEF ChainTypes
<1>4. AnyCmds
  BY <1>1, GoOnIsAny
<1>5. StepCmds'
  BY <1>4, StepCmdsAfter
<1>6. Flows'
  BY <1>1, <1>2, FlowsKept
<1>7. ASSUME NEW c \in Chains
      PROVE  SameOwner(c) \/ OwnerEnds(c)
  <2>1. CASE c = "client"
    BY <1>2, <2>1 DEF OwnerEnds, Owner, Latest
  <2>2. CASE c # "client" /\ subscribed
    BY <1>2, <2>2 DEF OwnerEnds, Owner, Latest
  <2>3. CASE c # "client" /\ ~subscribed
    <3>1. timer[c] = 0
      BY <2>3 DEF Owned, TimersOwned, Owner
    <3>2. \A s \in steps : s.chain = c => s \in steps'
      BY <2>3
    <3> QED
      BY <1>2, <2>3, <3>1, <3>2 DEF SameOwner, Owner, Latest
  <2> QED
    BY <2>1, <2>2, <2>3
<1>8. Owned'
  BY <1>1, <1>3, <1>7, OwnersMove
<1> QED
  BY <1>1, <1>3, <1>4, <1>5, <1>6, <1>8

LEMMA SessionEndsKeeps ==
    ASSUME Inv, SessionEnds, CmdInv', CmdsGoOn, UNCHANGED linkVars, steps' \subseteq steps,
           \A s \in steps \ steps' : s.chain = "subscription"
    PROVE  Inv' /\ AnyCmds
<1> USE DEF Inv, ChainInv
<1>1. /\ UNCHANGED <<transport_id, conn, connected>> /\ ~subscribed'
      /\ attempt' = attempt + 1 /\ attempt \in Nat /\ expiring' = expiring
      /\ \A c \in Chains : timer'[c] = IF c = "subscription" THEN 0 ELSE timer[c]
  BY DEF SessionEnds, Arm, linkVars, ChainTypes
<1>2. ChainTypes'
  <2>1. subscribed' \in BOOLEAN /\ timer' \in [Chains -> Nat]
    BY DEF SessionEnds, Arm, ChainTypes
  <2> QED
    BY <1>1, <2>1 DEF ChainTypes
<1>3. AnyCmds
  BY GoOnIsAny
<1>4. StepCmds'
  BY <1>3, StepCmdsAfter
<1>5. Flows'
  BY <1>1, FlowsKept
<1>6. ASSUME NEW c \in Chains
      PROVE  SameOwner(c) \/ OwnerEnds(c)
  <2>1. CASE c = "subscription"
    BY <1>1, <2>1 DEF OwnerEnds, Owner, Latest
  <2>2. CASE c # "subscription"
    <3>1. c = "client"
      BY <2>2, ChainsAssumption
    <3>2. \A s \in steps : s.chain = c => s \in steps'
      BY <3>1
    <3> QED
      BY <1>1, <3>1, <3>2 DEF SameOwner, Owner, Latest
  <2> QED
    BY <2>1, <2>2
<1>7. Owned'
  BY <1>2, <1>6, OwnersMove
<1> QED
  BY <1>2, <1>3, <1>4, <1>5, <1>7

\* What ends connections and sessions, but for a refused token.
LEMMA EndsKeep ==
    ASSUME Inv, Resubscribes \/ Loses \/ GatedTimedOut
    PROVE  Inv' /\ AnyCmds
<1>1. faults' \in Nat /\ steps' = steps
  BY DEF Resubscribes, Loses, GatedTimedOut, Fault, Inv, CmdInv, LinkTypes
<1>2. CASE Resubscribes
  <2>1. CmdInv' /\ CmdsGoOn /\ UNCHANGED linkVars
    BY <1>1, <1>2, CommandsStay DEF Resubscribes, Inv
  <2> QED
    BY <1>1, <1>2, <2>1, SessionEndsKeeps DEF Resubscribes
<1>3. CASE Loses
  BY <1>1, <1>3, DisconnectsKeeps DEF Loses
<1>4. CASE GatedTimedOut
  <2>1. PICK i \in Id : cmds[i].future = "timeout" /\ Disconnects({i})
    BY <1>4 DEF GatedTimedOut
  <2> QED
    BY <1>1, <2>1, DisconnectsKeeps
<1> QED
  BY <1>2, <1>3, <1>4

\* A refused token ends its owner; the caller of command s.id, if any, is through.
LEMMA GivesUpKeeps ==
    ASSUME Inv, NEW s \in steps, NEW ended \in SUBSET Id, GivesUpOwner(s, ended),
           \/ ended = {}
           \/ \E i \in Id : ended = {i} /\ cmds[i].future = "reply" /\ cmds[i].pc # "over"
    PROVE  Inv' /\ AnyCmds
<1>1. faults' \in Nat /\ steps' = steps \ {s}
  BY DEF GivesUpOwner, Ends, Inv, CmdInv, LinkTypes
<1>2. CASE s.chain = "client" /\ Disconnects(ended)
  BY <1>1, <1>2, DisconnectsKeeps
<1>3. CASE /\ s.chain = "subscription" /\ SessionEnds
           /\ cmds' = [i \in Id |-> IF i \in ended THEN [cmds[i] EXCEPT !.pc = "over"]
                                    ELSE cmds[i]]
           /\ UNCHANGED <<linkVars, inflight, done, blocked, wireVars, pushes>>
  <2>1. /\ cmds' = [i \in Id |-> IF i \in ended THEN [cmds[i] EXCEPT !.pc = "over"] ELSE cmds[i]]
        /\ UNCHANGED <<linkVars, inflight, done, blocked, wireVars, pushes, faults>>
    BY <1>3 DEF GivesUpOwner
  <2>2. cmds \in [Id -> Cmd]
    BY LenProperties DEF Inv, CmdInv, CmdTypes, Id
  <2>3. CASE ended = {}
    <3>1. cmds' = cmds
      BY <2>1, <2>2, <2>3
    <3>2. UNCHANGED futureVars
      BY <2>1, <3>1 DEF futureVars
    <3>3. CmdInv' /\ CmdsGoOn
      BY <1>1, <2>1, <3>2, CommandsStay DEF Inv
    <3> QED
      BY <1>1, <1>3, <2>1, <3>3, SessionEndsKeeps
  <2>4. ASSUME NEW i \in Id, ended = {i}, cmds[i].future = "reply", cmds[i].pc # "over"
        PROVE  Inv' /\ AnyCmds
    <3>1. cmds' = [cmds EXCEPT ![i].pc = "over"]
      BY <2>1, <2>2, <2>4
    <3>2. LinkTypes'
      BY <2>1 DEF Inv, CmdInv, LinkTypes, linkVars
    <3>3. CmdInv' /\ CmdsGoOn
      BY <2>1, <2>4, <3>1, <3>2, PcChanges DEF Inv, linkVars
    <3> QED
      BY <1>1, <1>3, <2>1, <3>3, SessionEndsKeeps
  <2> QED
    BY <2>3, <2>4
<1> QED
  BY <1>2, <1>3 DEF GivesUpOwner

\* A step of a chain, by which no owner ends or starts.
LEMMA ChainStepKeeps ==
    ASSUME Inv, CmdInv', CmdsGoOn, UNCHANGED <<linkVars, sessionVars>>, ChainTypes', Owned',
           \A t \in steps' :
               \/ t \in steps
               \/ t.pc # "waiting" /\ t.id = 0
               \/ t.pc = "waiting" /\ t.id # 0 /\ t.id \in Id' /\ cmds'[t.id].kind = "refresh"
    PROVE  Inv' /\ AnyCmds
<1> USE DEF Inv, ChainInv
<1>1. AnyCmds
  BY GoOnIsAny
<1>2. StepCmds'
  BY <1>1, StepCmdsAfter
<1>3. Flows'
  BY FlowsKept DEF linkVars, sessionVars
<1> QED
  BY <1>1, <1>2, <1>3

LEMMA ContinuesKeeps ==
    ASSUME Inv, CmdInv', CmdsGoOn, UNCHANGED <<linkVars, sessionVars, timer, expiring>>,
           NEW s \in steps, NEW pc \in {"token", "waiting", "handler"}, NEW id \in Nat,
           Continues(s, pc, id),
           \/ pc # "waiting" /\ id = 0
           \/ pc = "waiting" /\ id # 0 /\ id \in Id' /\ cmds'[id].kind = "refresh"
    PROVE  Inv' /\ AnyCmds
<1> DEFINE t == [s EXCEPT !.pc = pc, !.id = id]
<1> USE DEF Inv, ChainInv
<1>1. s \in Step
  BY DEF ChainTypes
<1>2. t \in Step /\ t.chain = s.chain /\ t.owner = s.owner /\ t.pc = pc /\ t.id = id
  BY <1>1 DEF Step
<1>3. steps' = (steps \ {s}) \cup {t}
  BY DEF Continues
<1> HIDE DEF t
<1>4. SameOwners
  BY DEF SameOwners, linkVars, sessionVars
<1>5. ChainTypes'
  <2>1. steps' \subseteq Step
    BY <1>2, <1>3 DEF ChainTypes
  <2> QED
    BY <2>1 DEF ChainTypes, linkVars, sessionVars
<1>6. Owned'
  BY <1>2, <1>3, <1>4, <1>5, StepMoves
<1>7. \A r \in steps' :
          \/ r \in steps
          \/ r.pc # "waiting" /\ r.id = 0
          \/ r.pc = "waiting" /\ r.id # 0 /\ r.id \in Id' /\ cmds'[r.id].kind = "refresh"
  BY <1>2, <1>3
<1> QED
  BY <1>5, <1>6, <1>7, ChainStepKeeps

\* A step ends, late or in time.
LEMMA StepEndsKeeps ==
    ASSUME Inv, CmdInv', CmdsGoOn, UNCHANGED <<linkVars, sessionVars>>,
           NEW s \in steps, Ends(s),
           \/ ~Current(s) /\ UNCHANGED <<timer, expiring>>
           \/ Current(s) /\ Arm(s.chain, s.owner) /\ UNCHANGED expiring
           \/ Current(s) /\ Expires(s.chain, 0) /\ UNCHANGED timer
    PROVE  Inv' /\ AnyCmds
<1> USE DEF Inv, ChainInv
<1>1. SameOwners
  BY DEF SameOwners, linkVars, sessionVars
<1>2. steps' = steps \ {s} /\ s.owner \in Nat
  BY DEF Ends, ChainTypes, Step
<1>3. ChainTypes'
  <2>1. timer' \in [Chains -> Nat] /\ expiring' \in [Chains -> Nat]
    BY <1>2 DEF ChainTypes, Arm, Expires
  <2> QED
    BY <1>2, <2>1 DEF ChainTypes, linkVars, sessionVars
<1>4. Owned'
  <2>1. CASE ~Current(s)
    BY <1>1, <1>2, <2>1, LateStepEnds
  <2>2. CASE Current(s)
    BY <1>1, <1>2, <2>2, StepHandsOver
  <2> QED
    BY <2>1, <2>2
<1> QED
  BY <1>2, <1>3, <1>4, ChainStepKeeps

LEMMA TimerFiresKeeps ==
    ASSUME Inv, TimerFires
    PROVE  Inv' /\ AnyCmds
<1> USE DEF Inv, ChainInv
<1>1. PICK chain \in Chains :
          /\ timer[chain] # 0 /\ Arm(chain, 0)
          /\ steps' = steps \cup {[chain |-> chain, owner |-> timer[chain], pc |-> "start",
                                   id |-> 0]}
  BY DEF TimerFires
<1> DEFINE t == [chain |-> chain, owner |-> timer[chain], pc |-> "start", id |-> 0]
<1>2. /\ t \in Step /\ t.chain = chain /\ t.owner = timer[chain] /\ t.pc = "start" /\ t.id = 0
      /\ steps' = steps \cup {t}
  BY <1>1 DEF Step, ChainTypes
<1> HIDE DEF t
<1>3. UNCHANGED <<commandVars, sessionVars, expiring>>
  BY DEF TimerFires
<1>4. CmdInv' /\ CmdsGoOn
  <2>1. UNCHANGED <<linkVars, futureVars, blocked, wireVars, pushes, faults>>
    BY <1>3 DEF commandVars
  <2> QED
    BY <2>1, CommandsStay DEF CmdInv, LinkTypes
<1>5. SameOwners /\ UNCHANGED linkVars
  BY <1>3 DEF SameOwners, sessionVars, commandVars, linkVars
<1>6. ChainTypes'
  <2>1. timer' \in [Chains -> Nat]
    BY <1>1 DEF ChainTypes, Arm
  <2>2. steps' \subseteq Step
    BY <1>2 DEF ChainTypes
  <2> QED
    BY <1>3, <1>5, <2>1, <2>2 DEF ChainTypes, SameOwners
<1>7. Owned'
  BY <1>1, <1>2, <1>3, <1>5, StepStarts
<1> QED
  BY <1>2, <1>3, <1>4, <1>5, <1>6, <1>7, ChainStepKeeps

LEMMA StepsKeep ==
    ASSUME Inv, Begins \/ GotToken \/ StepResumes \/ HandlerReturns
    PROVE  Inv' /\ AnyCmds
<1> USE DEF Inv
<1>0. \A s \in steps : s \in Step
  BY DEF ChainInv, ChainTypes
<1>1. ASSUME UNCHANGED commandVars
      PROVE  CmdInv' /\ CmdsGoOn /\ UNCHANGED linkVars
  <2>1. UNCHANGED <<linkVars, futureVars, blocked, wireVars, pushes, faults>>
    BY <1>1 DEF commandVars
  <2> QED
    BY <2>1, CommandsStay DEF CmdInv, LinkTypes
<1>2. CASE Begins
  <2>1. PICK s \in steps : IF Current(s) THEN Continues(s, "token", 0) ELSE Ends(s)
    BY <1>2 DEF Begins
  <2>2. CmdInv' /\ CmdsGoOn /\ UNCHANGED <<linkVars, sessionVars, timer, expiring>>
    BY <1>1, <1>2 DEF Begins
  <2> QED
    BY <2>1, <2>2, ContinuesKeeps, StepEndsKeeps
<1>3. ASSUME NEW s \in steps, TokenReturned(s)
      PROVE  Inv' /\ AnyCmds
  <2>1. CASE /\ Issue("refresh", "task", 0)
             /\ Continues(s, "waiting", Len(cmds) + 1)
             /\ UNCHANGED <<faults, sessionVars, timer, expiring>>
    <3> DEFINE c == NewCmd("refresh", "task", 0)
               n == Len(cmds) + 1
    <3>1. CmdInv' /\ OneMore(c)
      <4>1. faults' \in Nat
        BY <2>1 DEF CmdInv, LinkTypes
      <4> QED
        BY <2>1, <4>1, IssueKeeps DEF Kind, Gated
    <3>2. c \in Cmd /\ c.kind = "refresh"
      BY DEF NewCmd, Cmd, Kind, Gated, Result, CmdInv, LinkTypes
    <3>3. n \in Nat /\ n # 0
      BY LenProperties DEF CmdInv, CmdTypes
    <3>4. n \in Id' /\ cmds'[n] = c
      BY <3>1 DEF OneMore
    <3>5. UNCHANGED linkVars
      BY <2>1 DEF Issue
    <3> HIDE DEF c, n
    <3>6. CmdsGoOn
      BY <3>1, <3>2 DEF CmdsGoOn, Gated
    <3>7. Continues(s, "waiting", n)
      BY <2>1 DEF n
    <3> QED
      BY <2>1, <3>1, <3>2, <3>3, <3>4, <3>5, <3>6, <3>7, ContinuesKeeps
  <2>2. CASE Continues(s, "handler", 0) /\ UNCHANGED <<commandVars, sessionVars, timer, expiring>>
    BY <1>1, <2>2, ContinuesKeeps
  <2>3. CASE GivesUpOwner(s, {})
    BY <2>3, GivesUpKeeps
  <2> QED
    BY <1>3, <2>1, <2>2, <2>3 DEF TokenReturned
<1>4. ASSUME NEW s \in steps, TokenLate(s)
      PROVE  Inv' /\ AnyCmds
  BY <1>1, <1>4, StepEndsKeeps DEF TokenLate
<1>5. ASSUME NEW s \in steps, RefreshAnswered(s) \/ RefreshLate(s)
      PROVE  Inv' /\ AnyCmds
  <2>1. /\ s.id \in Id /\ cmds[s.id].kind = "refresh"
        /\ cmds[s.id].pc = "waiting" /\ cmds[s.id].future # "pending"
    BY <1>5 DEF RefreshAnswered, RefreshLate, Resumes, ChainInv, StepCmds
  <2>2. ASSUME cmds' = [cmds EXCEPT ![s.id].pc = "over"],
               UNCHANGED <<linkVars, inflight, done, blocked, wireVars, pushes, faults>>
        PROVE  CmdInv' /\ CmdsGoOn
    <3>1. UNCHANGED <<transport_id, conn, connected>>
      BY <2>2 DEF linkVars
    <3>2. LinkTypes'
      BY <2>2, <3>1 DEF CmdInv, LinkTypes
    <3> QED
      BY <2>1, <2>2, <3>1, <3>2, PcChanges
  <2>3. CASE RefreshLate(s)
    BY <2>2, <2>3, StepEndsKeeps DEF RefreshLate
  <2>4. CASE RefreshAnswered(s)
    <3>1. CASE cmds[s.id].future = "reply" /\ GivesUpOwner(s, {s.id})
      BY <2>1, <3>1, GivesUpKeeps
    <3>2. CASE /\ \/ Continues(s, "handler", 0) /\ UNCHANGED <<timer, expiring>>
                  \/ /\ Ends(s)
                     /\ \/ Arm(s.chain, s.owner) /\ UNCHANGED expiring
                        \/ Expires(s.chain, 0) /\ UNCHANGED timer
               /\ cmds' = [cmds EXCEPT ![s.id].pc = "over"]
               /\ UNCHANGED <<linkVars, inflight, done, blocked, wireVars, pushes, faults,
                              sessionVars>>
      <4>1. CmdInv' /\ CmdsGoOn /\ Current(s)
        BY <2>2, <2>4, <3>2 DEF RefreshAnswered
      <4> QED
        BY <3>2, <4>1, ContinuesKeeps, StepEndsKeeps
    <3> QED
      BY <2>4, <3>1, <3>2 DEF RefreshAnswered
  <2> QED
    BY <1>5, <2>3, <2>4
<1>6. CASE HandlerReturns
  <2>1. PICK s \in steps :
            /\ Ends(s)
            /\ IF Current(s) THEN Arm(s.chain, s.owner) ELSE UNCHANGED timer
    BY <1>6 DEF HandlerReturns
  <2>2. CmdInv' /\ CmdsGoOn /\ UNCHANGED <<linkVars, sessionVars, expiring>>
    BY <1>1, <1>6 DEF HandlerReturns
  <2> QED
    BY <2>1, <2>2, StepEndsKeeps
<1> QED
  BY <1>2, <1>3, <1>4, <1>5, <1>6 DEF GotToken, StepResumes

-----------------------------------------------------------------------------
(* The invariant holds *)

LEMMA InitEstablishes ==
    ASSUME Init
    PROVE  Inv
<1>1. /\ transport_id = 0 /\ conn = 0 /\ connected = FALSE /\ cmds = <<>>
      /\ inflight = {} /\ done = {} /\ blocked = {} /\ commands = <<>> /\ messages = <<>>
      /\ pushes \in Nat /\ faults \in Nat
  BY CommandBounds DEF Init, CommandsInit
<1>2. Id = {}
  BY <1>1 DEF Id
<1>3. LinkTypes
  BY <1>1 DEF LinkTypes
<1>4. CmdTypes
  BY <1>1, EmptySeq DEF CmdTypes
<1>5. CmdInv
  BY <1>1, <1>2, <1>3, <1>4
     DEF CmdInv, Connections, Registered, PendingWaits, Gates, OneBlocked, ReplyHeld
<1>6. /\ attempt = 0 /\ subscribed = FALSE /\ steps = {}
      /\ timer = [c \in Chains |-> 0] /\ expiring = [c \in Chains |-> 0]
  BY DEF Init
<1>7. ChainTypes /\ StepCmds
  BY <1>6 DEF ChainTypes, StepCmds
<1>8. Flows
  BY <1>2, <1>1, <1>6 DEF Flows, ConnectsOnce, SubscribesOnce
<1>9. Owned
  BY <1>1, <1>6 DEF Owned, TimersOwned, KnownOwners, Known, ChainsGoOn, GoesOn, Owner
<1> QED
  BY <1>5, <1>7, <1>8, <1>9 DEF Inv, ChainInv

LEMMA NextKeeps ==
    ASSUME Inv, [Next]_vars
    PROVE  Inv' /\ AnyCmds
<1>1. CASE NotChains
  BY <1>1, NotChainsKeeps
<1>2. CASE Connects
  BY <1>2, ConnectsKeeps
<1>3. CASE SubscribeStarts
  BY <1>3, SubscribeStartsKeeps
<1>4. CASE Subscribes
  BY <1>4, SubscribesKeeps
<1>5. CASE Resubscribes \/ Loses \/ GatedTimedOut
  BY <1>5, EndsKeep
<1>6. CASE TimerFires
  BY <1>6, TimerFiresKeeps
<1>7. CASE Begins \/ GotToken \/ StepResumes \/ HandlerReturns
  BY <1>7, StepsKeep
<1>8. CASE UNCHANGED vars
  <2>1. UNCHANGED <<commandVars, attempt, subscribed, timer, expiring, steps>>
    BY <1>8 DEF vars, chainVars
  <2>2. UNCHANGED <<linkVars, futureVars, blocked, wireVars, pushes, faults>>
    BY <2>1 DEF commandVars
  <2>3. CmdInv' /\ CmdsGoOn
    BY <2>2, CommandsStay DEF Inv, CmdInv, LinkTypes
  <2>4. SameOwners
    BY <2>1, <2>2 DEF SameOwners, linkVars
  <2>5. ChainTypes'
    BY <2>1, <2>4 DEF SameOwners, ChainTypes, Inv, ChainInv
  <2>6. \A c \in Chains : SameOwner(c)
    BY <2>1, <2>4, OwnersStay DEF SameOwner
  <2>7. Owned'
    BY <2>1, <2>3, <2>5, <2>6, OwnersMove DEF Inv, ChainInv
  <2> QED
    BY <2>1, <2>2, <2>3, <2>5, <2>7, ChainStepKeeps DEF sessionVars
<1> QED
  BY <1>1, <1>2, <1>3, <1>4, <1>5, <1>6, <1>7, <1>8 DEF Next, Chain

\* The inductive invariant of commands and chains.
THEOREM RefreshInvariance == Spec => []Inv
<1>1. Init => Inv
  BY InitEstablishes
<1>2. Inv /\ [Next]_vars => Inv'
  BY NextKeeps
<1> QED
  BY <1>1, <1>2, PTL DEF Spec

-----------------------------------------------------------------------------
(* What follows *)

\* Every variable keeps its type; a step that waits has the refresh command it sent.
THEOREM RefreshTypes == Spec => []TypeOK
<1>1. Inv => TypeOK
  BY CmdInvTypes DEF Inv, ChainInv, ChainTypes, StepCmds, TypeOK
<1> QED
  BY <1>1, RefreshInvariance, PTL

\* While the token of a connection or session expires, it has one timer or step, and
\* none is left of an earlier one, whatever tokens, replies and handlers do
\* (_refresh(), _sub_refresh()).
THEOREM OneChainAlways == Spec => []OneChain
<1>1. ASSUME Inv, NEW c \in Chains
      PROVE  /\ timer[c] \in {0, Owner(c)}
             /\ Owner(c) # 0 /\ expiring[c] = Owner(c) =>
                  Cardinality(Mine(c)) + (IF timer[c] = Owner(c) THEN 1 ELSE 0) = 1
  <2>1. timer[c] \in {0, Owner(c)} /\ GoesOn(c)
    BY <1>1 DEF Inv, ChainInv, Owned, TimersOwned, ChainsGoOn
  <2>2. ASSUME Owner(c) # 0, expiring[c] = Owner(c)
        PROVE  Cardinality(Mine(c)) + (IF timer[c] = Owner(c) THEN 1 ELSE 0) = 1
    <3>1. CASE timer[c] = Owner(c) /\ Mine(c) = {}
      BY <3>1, FS_EmptySet
    <3>2. CASE timer[c] = 0 /\ \E s \in steps : Mine(c) = {s}
      <4>1. Cardinality(Mine(c)) = 1
        BY <3>2, FS_Singleton
      <4> QED
        BY <2>2, <3>2, <4>1
    <3> QED
      BY <2>1, <2>2, <3>1, <3>2 DEF GoesOn
  <2> QED
    BY <2>1, <2>2
<1>2. Inv => OneChain
  BY <1>1 DEF OneChain, Owner, Mine
<1> QED
  BY <1>2, RefreshInvariance, PTL

\* No push is handled while a connect or subscribe reply that came before it over the
\* same connection is still to be applied (_register_future_with_done()).
THEOREM PushesAlwaysWait == Spec => []PushesWait
<1>1. ASSUME Inv, NEW b \in blocked, NEW i \in Id, b.on = Push, cmds[i].kind \in Gated,
             cmds[i].conn = b.conn, cmds[i].future = "reply", cmds[i].pc # "over"
      PROVE  FALSE
  <2>1. [conn |-> cmds[i].conn, on |-> i] \in blocked
    BY <1>1 DEF Inv, CmdInv, ReplyHeld
  <2>2. [conn |-> cmds[i].conn, on |-> i] = b
    BY <1>1, <2>1 DEF Inv, CmdInv, OneBlocked
  <2> QED
    BY <1>1, <2>2 DEF Push, Id
<1>2. Inv => PushesWait
  BY <1>1 DEF PushesWait
<1> QED
  BY <1>2, RefreshInvariance, PTL

\* A caller learns one outcome: no reply, timeout, teardown or cancellation changes a
\* future that is done (_future_success(), _future_error()).
THEOREM OutcomesStay == Spec => ResolvedOnce
<1>1. Inv /\ [Next]_vars => \A i \in Id : cmds[i].future # "pending" =>
                                            cmds'[i].future = cmds[i].future
  BY NextKeeps DEF AnyCmds, SameCmds, OneMore, Later
<1>2. Inv /\ [Next]_vars => [\A i \in Id : cmds[i].future # "pending" =>
                                            cmds'[i].future = cmds[i].future]_vars
  BY <1>1
<1> QED
  BY <1>2, RefreshInvariance, PTL DEF Spec, ResolvedOnce
-----------------------------------------------------------------------------
(* The connections of this module are those of ClientLifecycle: Sessions *)

Link == INSTANCE Sessions WITH latest <- transport_id, session <- IF connected THEN conn ELSE 0

LEMMA LinkMoves ==
    ASSUME LinkTypes, LinkTypes',
           \/ UNCHANGED linkVars
           \/ UNCHANGED <<transport_id, conn>> /\ connected'
           \/ transport_id' = transport_id + 1 /\ ~connected'
    PROVE  [Link!Next]_(Link!vars)
<1>1. /\ transport_id \in Nat /\ conn \in {0, transport_id} /\ connected \in BOOLEAN
      /\ connected => conn # 0 /\ conn = transport_id /\ transport_id # 0
      /\ connected' => conn' # 0 /\ conn' = transport_id' /\ transport_id' # 0
  BY DEF LinkTypes
<1>2. CASE UNCHANGED linkVars
  BY <1>2 DEF linkVars, Link!vars
<1>3. CASE UNCHANGED <<transport_id, conn>> /\ connected'
  BY <1>1, <1>3 DEF Link!vars, Link!Next, Link!Open
<1>4. CASE transport_id' = transport_id + 1 /\ ~connected'
  BY <1>1, <1>4 DEF Link!Next, Link!NewIdentity, Link!Close
<1> QED
  BY <1>2, <1>3, <1>4

LEMMA LinkStep == ASSUME Inv, [Next]_vars PROVE [Link!Next]_(Link!vars)
<1>1. LinkTypes /\ LinkTypes'
  BY NextKeeps DEF Inv, CmdInv
<1>2. CASE Connects
  BY <1>1, <1>2, LinkMoves DEF Connects, Applies
<1>3. ASSUME NEW ended, Disconnects(ended) PROVE [Link!Next]_(Link!vars)
  BY <1>1, <1>3, LinkMoves DEF Disconnects, Teardown
<1>4. CASE Loses \/ GatedTimedOut
  BY <1>3, <1>4 DEF Loses, GatedTimedOut
<1>5. CASE NotChains
  <2>1. CASE OpenTransport
    <3>1. ~connected /\ connected' = connected /\ transport_id' = transport_id + 1
      BY <1>1, <2>1 DEF OpenTransport, LinkTypes
    <3> QED
      BY <1>1, <3>1, LinkMoves
  <2>2. CASE Callers \/ MessageTask \/ Interruptions \/ ServerAnswers \/ ServerPushes
    <3>1. UNCHANGED linkVars
      BY <2>2 DEF Callers, CallFromTask, CallFromHandler, CallerResumes, GatedGivesUp, Applied, Issue,
                  MessageTask, ReplyArrives, PushArrives, TaskGoesOn,
                  Interruptions, Cancel, TimesOut, BlockedTimesOut, Expire, ServerAnswers, ServerPushes
    <3> QED
      BY <1>1, <3>1, LinkMoves
  <2> QED
    BY <1>5, <2>1, <2>2 DEF NotChains
<1>6. CASE SubscribeStarts \/ Subscribes \/ Resubscribes \/ TimerFires \/ Begins \/ HandlerReturns
           \/ UNCHANGED vars
  <2>1. UNCHANGED linkVars
    BY <1>6 DEF SubscribeStarts, Subscribes, Resubscribes, TimerFires, Begins, HandlerReturns, Issue, Applies,
                commandVars, linkVars, vars
  <2> QED
    BY <1>1, <2>1, LinkMoves
<1>7. ASSUME NEW s, NEW ended, GivesUpOwner(s, ended) PROVE [Link!Next]_(Link!vars)
  <2>1. Disconnects(ended) \/ UNCHANGED linkVars
    BY <1>7 DEF GivesUpOwner
  <2> QED
    BY <1>1, <1>3, <2>1, LinkMoves
<1>8. CASE GotToken \/ StepResumes
  <2>1. \/ UNCHANGED linkVars
        \/ \E s \in steps : \E ended \in {{}, {s.id}} : GivesUpOwner(s, ended)
    BY <1>8 DEF GotToken, TokenReturned, TokenLate, StepResumes, RefreshAnswered, RefreshLate, Issue, commandVars
  <2> QED
    BY <1>1, <1>7, <2>1, LinkMoves
<1> QED
  BY <1>2, <1>4, <1>5, <1>6, <1>8 DEF Next, Chain

\* Commands, futures and chains see connections as ClientLifecycle provides them: one after
\* the other, each with an identity of its own, which a teardown ends for good, also one by
\* a refused token or a connect that times out (_disconnect(), _connected()).
THEOREM ChainsFollowSessions == Spec => Link!Spec
<1>1. Init => Link!Init
  BY DEF Init, CommandsInit, Link!Init
<1>2. Inv /\ [Next]_vars => [Link!Next]_(Link!vars)
  BY LinkStep
<1> QED
  BY <1>1, <1>2, RefreshInvariance, PTL DEF Spec, Link!Spec
=============================================================================
