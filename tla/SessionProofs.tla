---------------------------- MODULE SessionProofs ---------------------------
(***************************************************************************)
(* Proofs about Session for any number of connections and events, any size *)
(* of the queues and any gap that is answered with events.                 *)
(***************************************************************************)
EXTENDS Session, SequenceTheorems, TLAPS

USE SessionAssumption

-----------------------------------------------------------------------------
(* Sequences.                                                              *)

\* What Append puts at the end, and what it leaves where it was.
LEMMA Appended ==
  ASSUME NEW S, NEW s \in Seq(S), NEW e \in S
  PROVE  /\ Append(s, e) \in Seq(S)
         /\ Len(s) \in Nat /\ Len(Append(s, e)) = Len(s) + 1
         /\ Append(s, e)[Len(s) + 1] = e
         /\ \A i \in 1 .. Len(s) : Append(s, e)[i] = s[i]
BY AppendProperties

\* Taking the first element moves the others one place down.
LEMMA Taken ==
  ASSUME NEW S, NEW s \in Seq(S), s # <<>>
  PROVE  /\ Tail(s) \in Seq(S) /\ Head(s) = s[1] /\ s[1] \in S
         /\ Len(s) \in Nat \ {0} /\ Len(Tail(s)) = Len(s) - 1
         /\ \A i \in 1 .. Len(Tail(s)) : Tail(s)[i] = s[i + 1]
<1>1. Len(s) \in Nat \ {0}
  BY EmptySeq
<1>2. s[1] \in S
  BY <1>1, ElementOfSeq
<1> QED BY <1>1, <1>2, HeadTailProperties

\* An element after the first one is still there when the first is taken.
LEMMA Shifted ==
  ASSUME NEW S, NEW s \in Seq(S), NEW i \in 1 .. Len(s), i # 1
  PROVE  /\ s # <<>> /\ i - 1 \in 1 .. Len(Tail(s))
         /\ Tail(s)[i - 1] = s[i]
<1>1. Len(s) \in Nat
  BY LenProperties
<1>2. s # <<>> /\ i \in Nat /\ i > 1 /\ i <= Len(s)
  BY <1>1, EmptySeq
<1> QED BY <1>1, <1>2, Taken

-----------------------------------------------------------------------------
(* Types.                                                                  *)

LEMMA ConnFacts == None \notin Conns /\ None \in Nat /\ \A c \in Conns : c \in Nat /\ c # None
BY DEF Conns, None

LEMMA MessageFacts ==
  /\ Idle \in Message /\ Idle.kind = "idle"
  /\ \A l \in Nat : /\ Msg("join", l) \in Message /\ Msg("join", l).kind = "join"
                    /\ Msg("resync", l) \in Message /\ Msg("resync", l).kind = "resync"
                    /\ Msg("cmd", l) \in Message
BY DEF Idle, Msg, Message

LEMMA OutFacts ==
  ASSUME seq' \in Nat
  PROVE  /\ Out("events") \in Envelope /\ Out("events").seq = seq'
         /\ Out("events").kind = "events"
         /\ Out("snapshot") \in Envelope /\ Out("snapshot").seq = seq'
         /\ Out("snapshot").kind = "snapshot"
         /\ Out("error") \in Envelope /\ Out("error").seq = seq'
BY DEF Out, Envelope

LEMMA SyncFacts ==
  ASSUME NEW l PROVE Sync(l) \in {Out("events"), Out("snapshot")}
BY DEF Sync

\* What sending does to the queues: one more envelope at the end of the queue
\* of an open connection, or one connection more that has lost something.
Sent(c, m) ==
  \/ /\ c \in Conns /\ conn[c] = "open"
     /\ queue' = [queue EXCEPT ![c] = Append(queue[c], m)] /\ dropped' = dropped
  \/ c \in Conns /\ queue' = queue /\ dropped' = dropped \cup {c}
  \/ queue' = queue /\ dropped' = dropped /\ (c = None \/ conn[c] # "open")

LEMMA SendFacts ==
  ASSUME NEW c \in Conns \cup {None}, NEW m, SendTo(c, m) PROVE Sent(c, m)
BY DEF SendTo, Sent

LEMMA SentType ==
  ASSUME TypeOK, NEW c, NEW m \in Envelope, Sent(c, m)
  PROVE  queue' \in [Conns -> Seq(Envelope)] /\ dropped' \subseteq Conns
<1>1. CASE c \in Conns /\ queue' = [queue EXCEPT ![c] = Append(queue[c], m)]
           /\ dropped' = dropped
  <2>1. Append(queue[c], m) \in Seq(Envelope)
    BY <1>1, Appended DEF TypeOK
  <2> QED BY <1>1, <2>1 DEF TypeOK
<1>2. CASE queue' = queue /\ (dropped' = dropped \/ (c \in Conns /\ dropped' = dropped \cup {c}))
  BY <1>2 DEF TypeOK
<1> QED BY <1>1, <1>2 DEF Sent

LEMMA StateFacts ==
  /\ {"new", "connecting", "open", "closed"} \subseteq SocketState
  /\ {"new", "open", "closed", "leaving", "gone"} \subseteq HubState
BY DEF SocketState, HubState

LEMMA TypeOKInit == Init => TypeOK
<1> SUFFICES ASSUME Init PROVE TypeOK
  OBVIOUS
<1>1. up \in [Conns -> Seq(Message)] /\ queue \in [Conns -> Seq(Envelope)]
  BY EmptySeq DEF Init
<1>2. read \in [Conns -> Message]
  BY MessageFacts DEF Init
<1>3. ws \in [Conns -> SocketState] /\ conn \in [Conns -> HubState]
  BY StateFacts DEF Init
<1>4. timer \in BOOLEAN /\ ousted \in BOOLEAN
  BY Zenon DEF Init
<1> QED BY <1>1, <1>2, <1>3, <1>4 DEF Init, TypeOK

\* The message the client makes of what it is told, and where it is put.
LEMMA DeliverFacts ==
  ASSUME TypeOK, NEW c \in Conns, Deliver(c)
  PROVE  /\ ws[c] = "open" /\ queue[c] # <<>>
         /\ queue' = [queue EXCEPT ![c] = Tail(queue[c])]
         /\ UNCHANGED <<ws, used, wsRef, timer, conn, read, known, sub, seq,
                        dropped, ousted>>
         /\ \/ queue[c][1].kind = "error" /\ UNCHANGED <<last, view, up>>
            \/ /\ queue[c][1].kind = "snapshot" /\ UNCHANGED up
               /\ last' = queue[c][1].seq /\ view' = queue[c][1].seq
            \/ /\ queue[c][1].kind = "events" /\ UNCHANGED view
               /\ last' = queue[c][1].seq
               /\ up' = IF wsRef # None /\ ws[wsRef] = "open"
                        THEN [up EXCEPT ![wsRef] = Append(@, Msg("resync", 0))]
                        ELSE up
<1>1. /\ ws[c] = "open" /\ queue[c] # <<>>
      /\ queue' = [queue EXCEPT ![c] = Tail(queue[c])]
      /\ UNCHANGED <<ws, used, wsRef, timer, conn, read, known, sub, seq,
                     dropped, ousted>>
  BY DEF Deliver, Listening
<1>2. Head(queue[c]) = queue[c][1] /\ queue[c][1] \in Envelope
  BY <1>1, Taken DEF TypeOK
<1>3. queue[c][1].kind \in {"error", "snapshot", "events"}
  BY <1>2 DEF Envelope
<1>4. CASE queue[c][1].kind = "error"
  BY <1>1, <1>2, <1>4 DEF Deliver
<1>5. CASE queue[c][1].kind = "snapshot"
  BY <1>1, <1>2, <1>5 DEF Deliver
<1>6. CASE queue[c][1].kind = "events"
  BY <1>1, <1>2, <1>6 DEF Deliver, OnEvents
<1> QED BY <1>3, <1>4, <1>5, <1>6

\* What the actor's handlers share: a message is sent to somebody.
ActorSends ==
  \E c \in Conns \cup {None}, k \in {"events", "snapshot", "error"} : Sent(c, Out(k))

LEMMA ActorSendsType ==
  ASSUME TypeOK, seq' \in Nat, ActorSends
  PROVE  queue' \in [Conns -> Seq(Envelope)] /\ dropped' \subseteq Conns
BY OutFacts, SentType DEF ActorSends

\* The handlers of the actor, each with what it is sent.
LEMMA JoinFacts ==
  ASSUME TypeOK, NEW c \in Conns, HandleJoin(c)
  PROVE  /\ read' = [read EXCEPT ![c] = Idle] /\ read[c].kind = "join"
         /\ sub' = c /\ seq' = seq /\ UNCHANGED <<client, conn, up, known>>
         /\ \E k \in {"events", "snapshot"} : Sent(c, Out(k))
         /\ ousted' \in BOOLEAN
<1>1. ousted' \in BOOLEAN
  BY Zenon DEF HandleJoin
<1>2. SendTo(c, Sync(read[c].last)) /\ Sync(read[c].last) \in {Out("events"), Out("snapshot")}
  BY SyncFacts DEF HandleJoin
<1>3. \E k \in {"events", "snapshot"} : Sent(c, Out(k))
  BY <1>2, SendFacts
<1> QED BY <1>1, <1>3 DEF HandleJoin, Handled

LEMMA ResyncFacts ==
  ASSUME TypeOK, NEW c \in Conns, HandleResync(c)
  PROVE  /\ read' = [read EXCEPT ![c] = Idle] /\ read[c].kind = "resync"
         /\ UNCHANGED <<client, conn, up, known, sub, seq, ousted>>
         /\ \E k \in {"events", "snapshot"} : Sent(sub, Out(k))
<1>1. SendTo(sub, Sync(read[c].last)) /\ Sync(read[c].last) \in {Out("events"), Out("snapshot")}
  BY SyncFacts DEF HandleResync
<1>2. \E k \in {"events", "snapshot"} : Sent(sub, Out(k))
  BY <1>1, SendFacts DEF TypeOK
<1> QED BY <1>2 DEF HandleResync, Handled

LEMMA HandleCommandFacts ==
  ASSUME TypeOK, NEW c \in Conns, HandleCommand(c)
  PROVE  /\ read' = [read EXCEPT ![c] = Idle] /\ read[c].kind = "cmd"
         /\ UNCHANGED <<client, conn, up, known, sub, ousted>>
         /\ \/ seq' = seq + 1 /\ Sent(sub, Out("events"))
            \/ seq' = seq /\ Sent(c, Out("error"))
BY SendFacts DEF HandleCommand, Handled, TypeOK

LEMMA OthersMoveFacts ==
  ASSUME TypeOK, OthersMove
  PROVE  /\ UNCHANGED <<client, conn, up, read, known, sub, ousted>>
         /\ seq' = seq + 1 /\ Sent(sub, Out("events"))
BY SendFacts DEF OthersMove, TypeOK

LEMMA TypeOKNext == TypeOK /\ [Next]_vars => TypeOK'
<1> SUFFICES ASSUME TypeOK, [Next]_vars PROVE TypeOK'
  OBVIOUS
<1> USE DEF client
<1>1. CASE Connect
  <2>1. used' \in 1 .. MaxConns /\ used' \in Conns /\ wsRef' = used'
    BY <1>1 DEF Connect, Conns, TypeOK
  <2>2. timer' \in BOOLEAN
    BY <1>1, Zenon DEF Connect
  <2> QED BY <1>1, <2>1, <2>2, StateFacts DEF Connect, TypeOK
<1>2. CASE Send
  <2>1. Msg("cmd", 0) \in Message
    BY MessageFacts
  <2>2. wsRef \in Conns
    BY <1>2 DEF Send, TypeOK
  <2>3. up' = [up EXCEPT ![wsRef] = Append(up[wsRef], Msg("cmd", 0))]
    BY <1>2 DEF Send
  <2>4. up' \in [Conns -> Seq(Message)]
    BY <2>1, <2>2, <2>3, Appended DEF TypeOK
  <2> QED BY <1>2, <2>4 DEF Send, TypeOK
<1>3. CASE OthersMove
  <2>1. queue' \in [Conns -> Seq(Envelope)] /\ dropped' \subseteq Conns /\ seq' \in Nat
    BY <1>3, OthersMoveFacts, ActorSendsType DEF ActorSends, TypeOK
  <2> QED BY <1>3, <2>1, OthersMoveFacts DEF TypeOK
<1>4. ASSUME NEW c \in Conns, Open(c) PROVE TypeOK'
  <2>1. <<Msg("join", last)>> \in Seq(Message)
    BY MessageFacts DEF TypeOK
  <2> QED BY <1>4, <2>1, StateFacts DEF Open, TypeOK
<1>5. ASSUME NEW c \in Conns, Deliver(c) PROVE TypeOK'
  <2>1. queue[c] \in Seq(Envelope) /\ queue[c][1] \in Envelope
        /\ Tail(queue[c]) \in Seq(Envelope)
    BY <1>5, DeliverFacts, Taken DEF TypeOK
  <2>2. queue[c][1].seq \in Nat
    BY <2>1 DEF Envelope
  <2>3. queue' \in [Conns -> Seq(Envelope)]
    BY <1>5, <2>1, DeliverFacts DEF TypeOK
  <2>4. up' \in [Conns -> Seq(Message)]
    <3>1. Msg("resync", 0) \in Message
      BY MessageFacts
    <3>2. wsRef # None => Append(up[wsRef], Msg("resync", 0)) \in Seq(Message)
      BY <3>1, Appended DEF TypeOK
    <3> QED BY <1>5, <3>2, DeliverFacts DEF TypeOK
  <2>5. last' \in Nat /\ view' \in Nat
    BY <1>5, <2>2, DeliverFacts DEF TypeOK
  <2> QED BY <1>5, <2>3, <2>4, <2>5, DeliverFacts DEF TypeOK
<1>6. ASSUME NEW c \in Conns, ClientCloses(c) PROVE TypeOK'
  <2>1. timer' \in BOOLEAN
    BY <1>6, Zenon DEF ClientCloses, Retry
  <2> QED BY <1>6, <2>1, StateFacts DEF ClientCloses, TypeOK
<1>7. ASSUME NEW c \in Conns, ServerCloses(c) PROVE TypeOK'
  BY <1>7, StateFacts DEF ServerCloses, TypeOK
<1>8. ASSUME NEW c \in Conns, Read(c) PROVE TypeOK'
  <2>1. Head(up[c]) \in Message /\ Tail(up[c]) \in Seq(Message)
    BY <1>8, Taken DEF Read, TypeOK
  <2>2. known' \subseteq Conns
    BY <1>8 DEF Read, TypeOK
  <2> QED BY <1>8, <2>1, <2>2 DEF Read, TypeOK
<1>9. ASSUME NEW c \in Conns, Depart(c) PROVE TypeOK'
  BY <1>9, StateFacts DEF Depart, TypeOK
<1>10. ASSUME NEW c \in Conns, HandleJoin(c) PROVE TypeOK'
  <2>1. queue' \in [Conns -> Seq(Envelope)] /\ dropped' \subseteq Conns
    BY <1>10, JoinFacts, ActorSendsType DEF ActorSends, TypeOK
  <2> QED BY <1>10, <2>1, JoinFacts, MessageFacts DEF TypeOK
<1>11. ASSUME NEW c \in Conns, HandleResync(c) PROVE TypeOK'
  <2>1. queue' \in [Conns -> Seq(Envelope)] /\ dropped' \subseteq Conns
    BY <1>11, ResyncFacts, ActorSendsType DEF ActorSends, TypeOK
  <2> QED BY <1>11, <2>1, ResyncFacts, MessageFacts DEF TypeOK
<1>12. ASSUME NEW c \in Conns, HandleCommand(c) PROVE TypeOK'
  <2>1. seq' \in Nat
    BY <1>12, HandleCommandFacts DEF TypeOK
  <2>2. queue' \in [Conns -> Seq(Envelope)] /\ dropped' \subseteq Conns
    BY <1>12, <2>1, HandleCommandFacts, ActorSendsType DEF ActorSends, TypeOK
  <2> QED BY <1>12, <2>1, <2>2, HandleCommandFacts, MessageFacts DEF TypeOK
<1>13. ASSUME NEW c \in Conns, HandleLeave(c) PROVE TypeOK'
  <2>1. ousted' \in BOOLEAN
    BY <1>13, Zenon DEF HandleLeave
  <2> QED BY <1>13, <2>1, StateFacts DEF HandleLeave, TypeOK
<1>14. CASE UNCHANGED vars
  BY <1>14 DEF vars, TypeOK
<1> QED
  BY <1>1, <1>2, <1>3, <1>4, <1>5, <1>6, <1>7, <1>8, <1>9, <1>10, <1>11,
     <1>12, <1>13, <1>14 DEF Next, ClientStep, HubStep, ActorStep

-----------------------------------------------------------------------------
(* One connection at a time.                                               *)

LEMMA SentToOpen ==
  ASSUME TypeOK, NEW c, NEW m, Sent(c, m), NEW d \in Conns, conn[d] = "new"
  PROVE  queue'[d] = queue[d]
BY DEF Sent, TypeOK

LEMMA ClientInvNext == TypeOK /\ ClientInv /\ [Next]_vars => ClientInv'
<1> SUFFICES ASSUME TypeOK, ClientInv, [Next]_vars PROVE ClientInv'
  OBVIOUS
<1> USE DEF client, ClientInv
<1>0. ASSUME NEW c, NEW m, Sent(c, m), UNCHANGED <<client, conn>> PROVE ClientInv'
  BY <1>0, SentToOpen
<1>1. CASE Connect
  <2>1. used' = used + 1 /\ used' \in Conns /\ used \in Nat /\ timer
        /\ wsRef' = used' /\ ~ timer' /\ ws' = [ws EXCEPT ![used'] = "connecting"]
        /\ UNCHANGED <<conn, queue>>
    BY <1>1 DEF Connect, Conns, TypeOK
  <2>2. ws[used'] = "new" /\ conn[used'] = "new"
    BY <2>1
  <2>3. \A c \in Conns : used' < c => used < c /\ c # used'
    <3>1. used' = used + 1 /\ used \in Nat
      BY <2>1
    <3>2. \A c \in Conns : c \in Nat
      BY ConnFacts
    <3>3. \A c \in Nat : used + 1 < c => used < c /\ c # used + 1
      BY <3>1
    <3> QED BY <3>1, <3>2, <3>3
  <2>4. \A c \in Conns : ws[c] \notin {"connecting", "open"}
    BY <2>1
  <2> QED BY <2>1, <2>2, <2>3, <2>4 DEF TypeOK
<1>2. CASE Send
  BY <1>2 DEF Send
<1>3. CASE OthersMove
  BY <1>0, <1>3, OthersMoveFacts
<1>4. ASSUME NEW c \in Conns, Open(c) PROVE ClientInv'
  BY <1>4 DEF Open, TypeOK
<1>5. ASSUME NEW c \in Conns, Deliver(c) PROVE ClientInv'
  <2>1. conn[c] # "new"
    BY <1>5, DeliverFacts
  <2>2. \A d \in Conns : conn[d] = "new" => queue'[d] = queue[d]
    BY <1>5, <2>1, DeliverFacts DEF TypeOK
  <2> QED BY <1>5, <2>2, DeliverFacts
<1>6. ASSUME NEW c \in Conns, ClientCloses(c) PROVE ClientInv'
  BY <1>6 DEF ClientCloses, TypeOK
<1>7. ASSUME NEW c \in Conns, ServerCloses(c) PROVE ClientInv'
  BY <1>7 DEF ServerCloses, TypeOK
<1>8. ASSUME NEW c \in Conns, Read(c) PROVE ClientInv'
  BY <1>8 DEF Read
<1>9. ASSUME NEW c \in Conns, Depart(c) PROVE ClientInv'
  BY <1>9 DEF Depart, TypeOK
<1>10. ASSUME NEW c \in Conns, HandleJoin(c) PROVE ClientInv'
  BY <1>0, <1>10, JoinFacts
<1>11. ASSUME NEW c \in Conns, HandleResync(c) PROVE ClientInv'
  BY <1>0, <1>11, ResyncFacts
<1>12. ASSUME NEW c \in Conns, HandleCommand(c) PROVE ClientInv'
  BY <1>0, <1>12, HandleCommandFacts
<1>13. ASSUME NEW c \in Conns, HandleLeave(c) PROVE ClientInv'
  BY <1>13 DEF HandleLeave, TypeOK
<1>14. CASE UNCHANGED vars
  BY <1>14 DEF vars
<1> QED
  BY <1>1, <1>2, <1>3, <1>4, <1>5, <1>6, <1>7, <1>8, <1>9, <1>10, <1>11,
     <1>12, <1>13, <1>14 DEF Next, ClientStep, HubStep, ActorStep

-----------------------------------------------------------------------------
(* Messages in order.                                                      *)

\* Every message in a queue has a number.
LEMMA QueueTypes ==
  ASSUME TypeOK
  PROVE  /\ seq \in Nat /\ view \in Nat
         /\ \A c \in Conns : /\ queue[c] \in Seq(Envelope) /\ Len(queue[c]) \in Nat
                             /\ \A i \in 1 .. Len(queue[c]) : queue[c][i].seq \in Nat
<1>1. ASSUME NEW c \in Conns, NEW i \in 1 .. Len(queue[c]) PROVE queue[c][i].seq \in Nat
  <2>1. queue[c][i] \in Envelope
    BY ElementOfSeq DEF TypeOK
  <2> QED BY <2>1 DEF Envelope
<1> QED BY <1>1, LenProperties DEF TypeOK

\* A message that is appended tells of the newest state.
LEMMA SentInOrder ==
  ASSUME TypeOK, OrderInv, NEW c, NEW m \in Envelope, Sent(c, m),
         m.seq = seq', seq <= seq', seq' \in Nat, UNCHANGED <<view, ws>>
  PROVE  OrderInv'
<1>1. view' <= seq'
  BY QueueTypes DEF OrderInv
<1>2. ASSUME NEW d \in Conns, NEW i \in 1 .. Len(queue'[d])
      PROVE  /\ queue'[d][i].seq <= seq'
             /\ ws'[d] \in {"connecting", "open"} => view' <= queue'[d][i].seq
             /\ \A j \in 1 .. Len(queue'[d]) : i < j => queue'[d][i].seq <= queue'[d][j].seq
  <2>1. /\ \A k \in 1 .. Len(queue[d]) :
               /\ queue[d][k].seq <= seq' /\ queue[d][k].seq \in Nat
               /\ ws[d] \in {"connecting", "open"} => view <= queue[d][k].seq
        /\ \A k, l \in 1 .. Len(queue[d]) : k < l => queue[d][k].seq <= queue[d][l].seq
    BY QueueTypes DEF OrderInv
  <2>2. CASE queue'[d] = queue[d]
    BY <1>2, <2>1, <2>2
  <2>3. CASE queue'[d] = Append(queue[d], m)
    <3> DEFINE n == Len(queue[d])
    <3>1. /\ n \in Nat /\ Len(queue'[d]) = n + 1 /\ queue'[d][n + 1] = m
          /\ \A k \in 1 .. n : queue'[d][k] = queue[d][k]
      BY <2>3, Appended, QueueTypes
    <3> HIDE DEF n
    <3>2. \A k \in 1 .. Len(queue'[d]) : k \in 1 .. n \/ k = n + 1
      BY <3>1
    <3>3. \A k \in 1 .. n : k # n + 1 /\ ~ (n + 1 < k)
      BY <3>1
    <3>4. view <= seq' /\ seq' <= seq'
      BY <1>1
    <3>5. \A k \in 1 .. Len(queue[d]) : k \in 1 .. n
      BY DEF n
    <3>6. \A k \in 1 .. n : k \in 1 .. Len(queue[d])
      BY DEF n
    <3>7. ~ (n + 1 < n + 1)
      BY <3>1
    <3> QED BY <1>2, <2>1, <3>1, <3>2, <3>3, <3>4, <3>6, <3>7
  <2> QED BY <2>2, <2>3 DEF Sent, TypeOK
<1> QED BY <1>1, <1>2 DEF OrderInv

\* What a delivery does to the order: the client shows the state of the first
\* message, which is no older than what it showed and no newer than the rest.
LEMMA DeliverInOrder ==
  ASSUME TypeOK, ClientInv, OrderInv, NEW c \in Conns, Deliver(c)
  PROVE  OrderInv' /\ view <= view' /\ (view' = view \/ view' = queue[c][1].seq)
<1>1. /\ ws[c] = "open" /\ queue[c] # <<>> /\ queue' = [queue EXCEPT ![c] = Tail(queue[c])]
      /\ UNCHANGED <<ws, seq>> /\ (view' = view \/ view' = queue[c][1].seq)
  BY DeliverFacts
<1>2. /\ queue[c] \in Seq(Envelope) /\ Len(queue[c]) \in Nat \ {0}
      /\ Len(Tail(queue[c])) = Len(queue[c]) - 1
      /\ \A i \in 1 .. Len(Tail(queue[c])) : Tail(queue[c])[i] = queue[c][i + 1]
  BY <1>1, Taken, QueueTypes
<1>3. /\ 1 \in 1 .. Len(queue[c]) /\ queue[c][1].seq \in Nat
      /\ view <= queue[c][1].seq /\ queue[c][1].seq <= seq
  BY <1>1, <1>2, QueueTypes DEF OrderInv
<1>4. view <= view' /\ view' <= seq /\ view' \in Nat /\ view' <= queue[c][1].seq
  BY <1>1, <1>3, QueueTypes DEF OrderInv
<1>5. ASSUME NEW d \in Conns, d # c, ws[d] \in {"connecting", "open"} PROVE FALSE
  BY <1>1, <1>5 DEF ClientInv
<1>6. \A i \in 1 .. Len(Tail(queue[c])) : i + 1 \in 1 .. Len(queue[c]) /\ 1 < i + 1
  BY <1>2
<1>7. \A i \in 1 .. Len(Tail(queue[c])) :
        /\ Tail(queue[c])[i].seq <= seq /\ view' <= Tail(queue[c])[i].seq
  <2> TAKE i \in 1 .. Len(Tail(queue[c]))
  <2>1. /\ queue[c][i + 1].seq <= seq /\ queue[c][1].seq <= queue[c][i + 1].seq
        /\ queue[c][i + 1].seq \in Nat
    BY <1>3, <1>6, QueueTypes DEF OrderInv
  <2> QED BY <1>2, <1>3, <1>4, <2>1
<1>8. \A i, j \in 1 .. Len(Tail(queue[c])) :
        i < j => Tail(queue[c])[i].seq <= Tail(queue[c])[j].seq
  BY <1>2, <1>6 DEF OrderInv
<1>9. \A d \in Conns : queue'[d] = IF d = c THEN Tail(queue[c]) ELSE queue[d]
  BY <1>1 DEF TypeOK
<1> QED BY <1>1, <1>4, <1>5, <1>7, <1>8, <1>9 DEF OrderInv

LEMMA OrderInvNext ==
  TypeOK /\ ClientInv /\ OrderInv /\ [Next]_vars => OrderInv' /\ view <= view'
<1> SUFFICES ASSUME TypeOK, ClientInv, OrderInv, [Next]_vars
             PROVE  OrderInv' /\ view <= view'
  OBVIOUS
<1>0. seq \in Nat /\ view \in Nat /\ view <= view /\ seq <= seq /\ seq <= seq + 1 /\ seq + 1 \in Nat
  BY QueueTypes
<1>a. ASSUME NEW c, NEW k \in {"events", "snapshot", "error"}, Sent(c, Out(k)),
             seq' \in {seq, seq + 1}, UNCHANGED client
      PROVE  OrderInv' /\ view <= view'
  <2>1. Out(k) \in Envelope /\ Out(k).seq = seq' /\ seq <= seq' /\ seq' \in Nat
    BY <1>0, <1>a, OutFacts
  <2> QED BY <1>0, <1>a, <2>1, SentInOrder DEF client
<1>b. ASSUME UNCHANGED <<view, seq, queue>>,
             \A d \in Conns : ws'[d] \in {"connecting", "open"} =>
               ws[d] \in {"connecting", "open"} \/ queue[d] = <<>>
      PROVE  OrderInv' /\ view <= view'
  <2>1. \A d \in Conns : queue[d] = <<>> => ~ \E i \in 1 .. Len(queue[d]) : TRUE
    BY EmptySeq
  <2> QED BY <1>0, <1>b, <2>1 DEF OrderInv
<1> USE DEF client
<1>1. CASE Connect
  <2>1. ws' = [ws EXCEPT ![used + 1] = "connecting"] /\ UNCHANGED <<view, seq, queue>>
        /\ used + 1 \in Conns /\ used < used + 1
    BY <1>1 DEF Connect, Conns, TypeOK
  <2>2. queue[used + 1] = <<>>
    BY <2>1 DEF ClientInv
  <2> QED BY <1>b, <2>1, <2>2 DEF TypeOK
<1>2. CASE Send
  BY <1>b, <1>2 DEF Send
<1>3. CASE OthersMove
  BY <1>a, <1>3, OthersMoveFacts
<1>4. ASSUME NEW c \in Conns, Open(c) PROVE OrderInv' /\ view <= view'
  BY <1>b, <1>4 DEF Open, TypeOK
<1>5. ASSUME NEW c \in Conns, Deliver(c) PROVE OrderInv' /\ view <= view'
  BY <1>5, DeliverInOrder
<1>6. ASSUME NEW c \in Conns, ClientCloses(c) PROVE OrderInv' /\ view <= view'
  BY <1>b, <1>6 DEF ClientCloses, TypeOK
<1>7. ASSUME NEW c \in Conns, ServerCloses(c) PROVE OrderInv' /\ view <= view'
  BY <1>b, <1>7 DEF ServerCloses
<1>8. ASSUME NEW c \in Conns, Read(c) PROVE OrderInv' /\ view <= view'
  BY <1>b, <1>8 DEF Read
<1>9. ASSUME NEW c \in Conns, Depart(c) PROVE OrderInv' /\ view <= view'
  BY <1>b, <1>9 DEF Depart
<1>10. ASSUME NEW c \in Conns, HandleJoin(c) PROVE OrderInv' /\ view <= view'
  BY <1>a, <1>10, JoinFacts
<1>11. ASSUME NEW c \in Conns, HandleResync(c) PROVE OrderInv' /\ view <= view'
  BY <1>a, <1>11, ResyncFacts
<1>12. ASSUME NEW c \in Conns, HandleCommand(c) PROVE OrderInv' /\ view <= view'
  BY <1>a, <1>12, HandleCommandFacts
<1>13. ASSUME NEW c \in Conns, HandleLeave(c) PROVE OrderInv' /\ view <= view'
  BY <1>b, <1>13 DEF HandleLeave
<1>14. CASE UNCHANGED vars
  BY <1>b, <1>14 DEF vars
<1> QED
  BY <1>1, <1>2, <1>3, <1>4, <1>5, <1>6, <1>7, <1>8, <1>9, <1>10, <1>11,
     <1>12, <1>13, <1>14 DEF Next, ClientStep, HubStep, ActorStep

-----------------------------------------------------------------------------
(* A client that is behind is going to learn of it.                        *)

\* A question is still there when more is sent, and until it is answered.
LEMMA AsksKept ==
  ASSUME TypeOK, NEW c \in Conns, NEW m \in Message, Asks(c), read'[c] = read[c],
         up'[c] = up[c] \/ up'[c] = Append(up[c], m)
  PROVE  Asks(c)'
<1>1. CASE read[c].kind \in {"join", "resync"}
  BY <1>1 DEF Asks
<1>2. ASSUME NEW i \in 1 .. Len(up[c]), up[c][i].kind \in {"join", "resync"}
      PROVE  Asks(c)'
  <2>1. up[c] \in Seq(Message) /\ Len(up[c]) \in Nat
    BY LenProperties DEF TypeOK
  <2>2. i \in 1 .. Len(up'[c]) /\ up'[c][i] = up[c][i]
    BY <2>1, Appended
  <2> QED BY <1>2, <2>2 DEF Asks
<1> QED BY <1>1, <1>2 DEF Asks

\* The question that is appended is there.
LEMMA AsksAppended ==
  ASSUME TypeOK, NEW c \in Conns, NEW m \in Message, m.kind \in {"join", "resync"},
         up'[c] = Append(up[c], m)
  PROVE  Asks(c)'
<1>1. up[c] \in Seq(Message) /\ Len(up[c]) \in Nat
  BY LenProperties DEF TypeOK
<1>2. Len(up'[c]) = Len(up[c]) + 1 /\ up'[c][Len(up[c]) + 1] = m
  BY <1>1, Appended
<1>3. Len(up[c]) + 1 \in 1 .. Len(up'[c])
  BY <1>1, <1>2
<1> QED BY <1>2, <1>3 DEF Asks

\* What is news stays news until it is delivered, unless the match goes on.
LEMMA NewsKept ==
  ASSUME TypeOK, NEW c \in Conns, NEW m \in Envelope, News(c), seq' = seq,
         queue'[c] = queue[c] \/ queue'[c] = Append(queue[c], m)
  PROVE  News(c)'
<1>1. PICK i \in 1 .. Len(queue[c]) :
        \/ queue[c][i].kind = "events"
        \/ queue[c][i].kind = "snapshot" /\ queue[c][i].seq = seq
  BY DEF News
<1>2. queue[c] \in Seq(Envelope) /\ Len(queue[c]) \in Nat
  BY QueueTypes
<1>3. i \in 1 .. Len(queue'[c]) /\ queue'[c][i] = queue[c][i]
  BY <1>2, Appended
<1> QED BY <1>1, <1>3 DEF News

\* Events or a snapshot that the subscription gets are news.
LEMMA SentNews ==
  ASSUME TypeOK, seq' \in Nat, NEW c \in Conns, conn[c] = "open", c \notin dropped',
         NEW k \in {"events", "snapshot"}, Sent(c, Out(k))
  PROVE  News(c)'
<1>1. queue' = [queue EXCEPT ![c] = Append(queue[c], Out(k))]
  BY ConnFacts DEF Sent
<1>2. queue'[c] = Append(queue[c], Out(k))
  BY <1>1 DEF TypeOK
<1>3. Out(k) \in Envelope /\ Out(k).seq = seq' /\ Out(k).kind = k
  BY OutFacts
<1>4. queue[c] \in Seq(Envelope) /\ Len(queue[c]) \in Nat
  BY QueueTypes
<1>5. Len(queue'[c]) = Len(queue[c]) + 1 /\ queue'[c][Len(queue[c]) + 1] = Out(k)
  BY <1>2, <1>3, <1>4, Appended
<1>6. Len(queue[c]) + 1 \in 1 .. Len(queue'[c])
  BY <1>4, <1>5
<1> QED BY <1>3, <1>5, <1>6 DEF News

\* Delivering a message leaves the client informed: events make it ask, a
\* snapshot of the newest state ends what it missed, and anything else leaves
\* the news where it was.
LEMMA DeliverInforms ==
  ASSUME TypeOK, ClientInv, OrderInv, BehindInv, NEW c \in Conns, Deliver(c),
         c \notin dropped, sub = c, conn[c] = "open", view' # seq
  PROVE  Asks(c)' \/ News(c)'
<1>1. /\ ws[c] = "open" /\ queue[c] # <<>>
      /\ queue' = [queue EXCEPT ![c] = Tail(queue[c])]
      /\ read' = read /\ seq' = seq
  BY DeliverFacts
<1>2. queue'[c] = Tail(queue[c]) /\ Msg("resync", 0) \in Message
      /\ Msg("resync", 0).kind = "resync"
  BY <1>1, MessageFacts DEF TypeOK
<1>3. CASE queue[c][1].kind = "events"
  <2>1. up' = IF wsRef # None /\ ws[wsRef] = "open"
              THEN [up EXCEPT ![wsRef] = Append(@, Msg("resync", 0))] ELSE up
    BY <1>3, DeliverFacts
  <2>2. wsRef = c /\ c # None
    BY <1>1, ConnFacts DEF ClientInv
  <2>3. up'[c] = Append(up[c], Msg("resync", 0))
    BY <1>1, <2>1, <2>2 DEF TypeOK
  <2> QED BY <1>2, <2>3, AsksAppended
<1>4. CASE queue[c][1].kind # "events"
  <2>1. up' = up /\ view # seq
        /\ ~ (queue[c][1].kind = "snapshot" /\ queue[c][1].seq = seq)
    <3>1. CASE queue[c][1].kind = "error"
      BY <3>1, DeliverFacts
    <3>2. CASE queue[c][1].kind = "snapshot"
      <4>1. view' = queue[c][1].seq /\ up' = up
        BY <3>2, DeliverFacts
      <4>2. view <= view' /\ view' <= seq /\ view \in Nat /\ seq \in Nat
        BY <1>1, DeliverInOrder, QueueTypes DEF OrderInv
      <4>3. view' \in Nat
        <5>1. queue[c][1] \in Envelope
          BY <1>1, Taken DEF TypeOK
        <5> QED BY <4>1, <5>1 DEF Envelope
      <4> QED BY <4>1, <4>2, <4>3
    <3> QED BY <1>4, <3>1, <3>2, DeliverFacts
  <2>2. Asks(c) \/ News(c)
    BY <1>1, <2>1 DEF BehindInv
  <2>3. CASE Asks(c)
    BY <1>1, <1>2, <2>1, <2>3, AsksKept
  <2>4. CASE News(c)
    <3>1. PICK i \in 1 .. Len(queue[c]) :
            \/ queue[c][i].kind = "events"
            \/ queue[c][i].kind = "snapshot" /\ queue[c][i].seq = seq
      BY <2>4 DEF News
    <3>2. i # 1
      BY <1>4, <2>1, <3>1
    <3>3. i - 1 \in 1 .. Len(queue'[c]) /\ queue'[c][i - 1] = queue[c][i]
      BY <1>2, <3>2, QueueTypes, Shifted
    <3> QED BY <1>1, <3>1, <3>3 DEF News
  <2> QED BY <2>2, <2>3, <2>4
<1> QED BY <1>3, <1>4

LEMMA BehindInvNext ==
  TypeOK /\ ClientInv /\ OrderInv /\ BehindInv /\ [Next]_vars => BehindInv'
<1> SUFFICES ASSUME TypeOK, ClientInv, OrderInv, BehindInv, [Next]_vars,
                    NEW d \in Conns, d \notin dropped', sub' = d, ws'[d] = "open",
                    conn'[d] = "open", view' # seq'
             PROVE  Asks(d)' \/ News(d)'
  BY DEF BehindInv
<1> USE DEF client
<1>0. d # None /\ seq \in Nat
  BY ConnFacts, QueueTypes
<1>a. ASSUME UNCHANGED <<ws, conn, sub, seq, view, dropped>> PROVE Asks(d) \/ News(d)
  BY <1>a DEF BehindInv
<1>b. ASSUME UNCHANGED <<ws, conn, sub, seq, view, dropped, queue, read>>,
             NEW m \in Message, up'[d] = up[d] \/ up'[d] = Append(up[d], m)
      PROVE  Asks(d)' \/ News(d)'
  <2>1. CASE Asks(d)
    BY <1>b, <2>1, AsksKept
  <2>2. CASE News(d)
    BY <1>b, <2>2 DEF News
  <2> QED BY <1>a, <1>b, <2>1, <2>2
<1>c. Idle \in Message
  BY MessageFacts
<1>1. CASE Connect
  <2>1. ws' = [ws EXCEPT ![used + 1] = "connecting"] /\ used + 1 \in Conns
        /\ UNCHANGED <<view, conn, up, read, queue, sub, seq, dropped>>
    BY <1>1 DEF Connect, Conns, TypeOK
  <2>2. ws[d] = "open"
    BY <2>1 DEF TypeOK
  <2> QED BY <2>1, <2>2 DEF BehindInv, Asks, News
<1>2. CASE Send
  <2>1. up' = [up EXCEPT ![wsRef] = Append(up[wsRef], Msg("cmd", 0))] /\ wsRef \in Conns
        /\ UNCHANGED <<ws, conn, sub, seq, view, dropped, queue, read>>
    BY <1>2 DEF Send, TypeOK
  <2>2. up'[d] = up[d] \/ up'[d] = Append(up[d], Msg("cmd", 0))
    BY <2>1 DEF TypeOK
  <2> QED BY <1>b, <2>1, <2>2, MessageFacts
<1>3. CASE OthersMove
  <2>1. conn = conn' /\ sub = d /\ seq' = seq + 1 /\ Sent(d, Out("events"))
    BY <1>3, OthersMoveFacts
  <2> QED BY <1>0, <2>1, SentNews
<1>4. ASSUME NEW c \in Conns, Open(c) PROVE Asks(d)' \/ News(d)'
  <2>1. CASE d = c
    <3>1. up'[d] = <<Msg("join", last)>>
      BY <1>4, <2>1 DEF Open, TypeOK
    <3>2. Len(up'[d]) = 1 /\ up'[d][1].kind = "join"
      BY <3>1, MessageFacts DEF TypeOK
    <3> QED BY <3>2 DEF Asks
  <2>2. CASE d # c
    BY <1>4, <2>2 DEF Open, TypeOK, BehindInv, Asks, News
  <2> QED BY <2>1, <2>2
<1>5. ASSUME NEW c \in Conns, Deliver(c) PROVE Asks(d)' \/ News(d)'
  <2>1. ws[c] = "open" /\ UNCHANGED <<ws, conn, sub, seq, dropped>>
    BY <1>5, DeliverFacts
  <2>2. d = c
    BY <2>1 DEF ClientInv
  <2> QED BY <1>5, <2>1, <2>2, DeliverInforms
<1>6. ASSUME NEW c \in Conns, ClientCloses(c) PROVE Asks(d)' \/ News(d)'
  BY <1>6 DEF ClientCloses, TypeOK, BehindInv, Asks, News
<1>7. ASSUME NEW c \in Conns, ServerCloses(c) PROVE Asks(d)' \/ News(d)'
  BY <1>7 DEF ServerCloses, TypeOK, BehindInv, Asks, News
<1>8. ASSUME NEW c \in Conns, Read(c) PROVE Asks(d)' \/ News(d)'
  <2>1. /\ read[c] = Idle /\ up[c] # <<>> /\ read' = [read EXCEPT ![c] = Head(up[c])]
        /\ up' = [up EXCEPT ![c] = Tail(up[c])]
        /\ UNCHANGED <<ws, conn, sub, seq, view, dropped, queue>>
    BY <1>8 DEF Read
  <2>2. CASE News(d)
    BY <2>1, <2>2 DEF News
  <2>3. CASE Asks(d) /\ d # c
    BY <2>1, <2>3 DEF Asks, TypeOK
  <2>4. CASE Asks(d) /\ d = c
    <3>1. PICK i \in 1 .. Len(up[c]) : up[c][i].kind \in {"join", "resync"}
      BY <2>1, <2>4, MessageFacts DEF Asks
    <3>2. up[c] \in Seq(Message) /\ Head(up[c]) = up[c][1] /\ read'[c] = Head(up[c])
          /\ up'[c] = Tail(up[c])
      BY <2>1, Taken DEF TypeOK
    <3>3. CASE i = 1
      BY <2>4, <3>1, <3>2, <3>3 DEF Asks
    <3>4. CASE i # 1
      <4>1. i - 1 \in 1 .. Len(up'[c]) /\ up'[c][i - 1] = up[c][i]
        BY <3>2, <3>4, Shifted
      <4> QED BY <2>4, <3>1, <4>1 DEF Asks
    <3> QED BY <3>3, <3>4
  <2> QED BY <1>a, <2>1, <2>2, <2>3, <2>4
<1>9. ASSUME NEW c \in Conns, Depart(c) PROVE Asks(d)' \/ News(d)'
  <2>1. conn[d] = "open"
    BY <1>9 DEF Depart, TypeOK
  <2> QED BY <1>9, <2>1 DEF Depart, BehindInv, Asks, News
<1>10. ASSUME NEW c \in Conns, HandleJoin(c) PROVE Asks(d)' \/ News(d)'
  BY <1>0, <1>10, JoinFacts, SentNews
<1>11. ASSUME NEW c \in Conns, HandleResync(c) PROVE Asks(d)' \/ News(d)'
  BY <1>0, <1>11, ResyncFacts, SentNews
<1>12. ASSUME NEW c \in Conns, HandleCommand(c) PROVE Asks(d)' \/ News(d)'
  <2>1. CASE seq' = seq + 1 /\ Sent(sub, Out("events"))
    <3>1. sub = d /\ conn[d] = "open" /\ seq' \in Nat
      BY <1>0, <1>12, <2>1, HandleCommandFacts
    <3> QED BY <2>1, <3>1, SentNews
  <2>2. CASE seq' = seq /\ Sent(c, Out("error"))
    <3>1. /\ UNCHANGED <<ws, conn, sub, view, up>> /\ read' = [read EXCEPT ![c] = Idle]
          /\ read[c].kind = "cmd"
      BY <1>12, HandleCommandFacts
    <3>2. dropped \subseteq dropped' /\ Out("error") \in Envelope
      BY <1>0, <2>2, OutFacts DEF Sent
    <3>3. queue'[d] = queue[d] \/ queue'[d] = Append(queue[d], Out("error"))
      BY <2>2 DEF Sent, TypeOK
    <3>4. Asks(d) \/ News(d)
      BY <2>2, <3>1, <3>2 DEF BehindInv
    <3>5. CASE News(d)
      BY <2>2, <3>2, <3>3, <3>5, NewsKept
    <3>6. CASE Asks(d)
      <4>1. CASE d = c
        BY <3>1, <3>6, <4>1 DEF Asks
      <4>2. CASE d # c
        BY <3>1, <3>6, <4>2 DEF Asks, TypeOK
      <4> QED BY <4>1, <4>2
    <3> QED BY <3>4, <3>5, <3>6
  <2> QED BY <1>12, <2>1, <2>2, HandleCommandFacts
<1>13. ASSUME NEW c \in Conns, HandleLeave(c) PROVE Asks(d)' \/ News(d)'
  BY <1>0, <1>13 DEF HandleLeave
<1>14. CASE UNCHANGED vars
  BY <1>14 DEF vars, BehindInv, Asks, News
<1> QED
  BY <1>1, <1>2, <1>3, <1>4, <1>5, <1>6, <1>7, <1>8, <1>9, <1>10, <1>11,
     <1>12, <1>13, <1>14 DEF Next, ClientStep, HubStep, ActorStep

-----------------------------------------------------------------------------
(* The theorems.                                                           *)

LEMMA IInvInit == Init => IInv
<1> SUFFICES ASSUME Init PROVE IInv
  OBVIOUS
<1>1. view = 0 /\ seq = 1 /\ sub = None /\ used = 0 /\ timer
      /\ \A c \in Conns : ws[c] = "new" /\ conn[c] = "new" /\ queue[c] = <<>>
  BY DEF Init
<1>2. ClientInv
  BY <1>1 DEF ClientInv
<1>3. \A c \in Conns : ~ \E i \in 1 .. Len(queue[c]) : TRUE
  BY <1>1
<1>4. OrderInv
  BY <1>1, <1>3 DEF OrderInv
<1>5. BehindInv
  BY <1>1 DEF BehindInv
<1> QED BY <1>2, <1>4, <1>5 DEF IInv

\* The strengthening is an invariant: a client holds one connection, what is
\* under way to it is in order, and while it is behind it is going to learn so.
THEOREM Invariant == Spec => [](TypeOK /\ IInv)
<1>1. Init => TypeOK /\ IInv
  BY TypeOKInit, IInvInit
<1>2. TypeOK /\ IInv /\ [Next]_vars => (TypeOK /\ IInv)'
  <2> SUFFICES ASSUME TypeOK, IInv, [Next]_vars PROVE TypeOK' /\ IInv'
    OBVIOUS
  <2>1. ClientInv /\ OrderInv /\ BehindInv
    BY DEF IInv
  <2>2. TypeOK' /\ ClientInv' /\ OrderInv' /\ BehindInv'
    BY <2>1, TypeOKNext, ClientInvNext, OrderInvNext, BehindInvNext
  <2> QED BY <2>2 DEF IInv
<1> QED BY <1>1, <1>2, PTL DEF Spec

\* A client on whose connection nothing is under way and nothing was lost sees
\* the match as it is: it has no question left to ask and no news to come, so
\* it cannot be behind.  Resynchronising by sequence number (useOnlineSession.ts,
\* sendSyncToPlayer) needs no acknowledgement for that.
THEOREM QuietIsCurrent == Spec => []QuietMeansCurrent
<1>1. IInv => QuietMeansCurrent
  <2> SUFFICES ASSUME BehindInv, NEW c \in Conns \ dropped, sub = c, Quiet(c)
               PROVE  view = seq
    BY DEF IInv, QuietMeansCurrent
  <2>1. ws[c] = "open" /\ conn[c] = "open" /\ up[c] = <<>> /\ read[c] = Idle
        /\ queue[c] = <<>>
    BY DEF Quiet
  <2>2. Len(up[c]) = 0 /\ Len(queue[c]) = 0 /\ read[c].kind = "idle"
    BY <2>1, MessageFacts
  <2>3. ~ Asks(c) /\ ~ News(c)
    BY <2>2 DEF Asks, News
  <2> QED BY <2>1, <2>3 DEF BehindInv
<1> QED BY <1>1, Invariant, PTL

\* The state the client shows never goes back to an earlier one, whichever of
\* its connections a message comes over.
THEOREM NeverBack == Spec => NeverGoesBack
<1>1. (TypeOK /\ IInv) /\ [Next]_vars => [view' >= view]_vars
  <2> SUFFICES ASSUME TypeOK, IInv, [Next]_vars, vars' # vars PROVE view' >= view
    OBVIOUS
  <2>1. view <= view'
    BY OrderInvNext DEF IInv
  <2>2. view \in Nat /\ view' \in Nat
    BY TypeOKNext DEF TypeOK
  <2> QED BY <2>1, <2>2
<1> QED BY <1>1, Invariant, PTL DEF Spec, NeverGoesBack
=============================================================================
