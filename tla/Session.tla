------------------------------- MODULE Session -------------------------------
(***************************************************************************)
(* How a player stays up to date: the client's online session              *)
(* (client/src/session/useOnlineSession.ts), the WebSocket hub             *)
(* (internal/transport/ws) and the subscription the match actor keeps for  *)
(* the player (internal/match/actor.go).                                   *)
(*                                                                         *)
(* One player in one match, over one connection after the other.  The game *)
(* is the number of its events; who makes them and how they are stored is  *)
(* in MatchActor.  A goroutine that waits for the actor's answer is a      *)
(* message in read; the inbox is those messages in any order, as each of   *)
(* them may have come late to the channel.  The queue of a connection      *)
(* stands for what is queued and what is under way to the client.          *)
(***************************************************************************)
EXTENDS Naturals, Sequences

CONSTANTS
  MaxConns,    \* bound on the connections the client makes
  MaxSeq,      \* bound on the events of the match
  MaxSent,     \* bound on the commands under way on one connection
  QueueSize,   \* capacity of sendQueue; 64 in the code
  DeltaGap     \* largest gap answered with events; 50 in the code

ASSUME SessionAssumption ==
  /\ MaxConns \in Nat \ {0} /\ MaxSeq \in Nat \ {0} /\ MaxSent \in Nat
  /\ QueueSize \in Nat \ {0} /\ DeltaGap \in Nat

Conns == 1 .. MaxConns
None == 0                  \* no connection

VARIABLES
  (* the client *)
  ws,        \* of each connection: "new", "connecting", "open", "closed"
  used,      \* how many connections were made, always the first ones
  wsRef,     \* wsRef.current: a connection, or None
  timer,     \* whether the reconnect timer is running
  last,      \* lastEventSeqRef.current
  view,      \* the eventSeq of the snapshot that is shown, 0 for none
  (* the hub *)
  conn,      \* of each: "new", "open", "closed" (its context is cancelled),
             \* "leaving" (ServeHTTP has called Leave), "gone"
  up,        \* what the client sent and was not read yet
  read,      \* the message readPump is handling, or Idle
  known,     \* the connections SetPlayer was called for
  queue,     \* sendQueue and the wire
  (* the actor *)
  sub,       \* a.subs of the player: a connection, or None
  seq,       \* a.eventSeq
  (* history *)
  dropped,   \* connections whose queue overflowed
  ousted     \* an older connection has taken or ended the subscription of a
             \* newer one

client == <<ws, used, wsRef, timer, last, view>>
vars   == <<ws, used, wsRef, timer, last, view, conn, up, read, known, queue,
            sub, seq, dropped, ousted>>

-----------------------------------------------------------------------------
Idle == [kind |-> "idle", last |-> 0]
Msg(k, l) == [kind |-> k, last |-> l]
Out(k) == [kind |-> k, seq |-> seq']       \* sent once the handler is done

Init ==
  /\ ws = [c \in Conns |-> "new"] /\ used = 0 /\ wsRef = None
  /\ timer = TRUE      \* the effect of the first rendering connects at once
  /\ last = 0 /\ view = 0
  /\ conn = [c \in Conns |-> "new"] /\ up = [c \in Conns |-> <<>>]
  /\ read = [c \in Conns |-> Idle] /\ known = {}
  /\ queue = [c \in Conns |-> <<>>]
  /\ sub = None /\ seq = 1 /\ dropped = {} /\ ousted = FALSE

-----------------------------------------------------------------------------
(* The client.                                                             *)

Connect ==
  /\ timer /\ used < MaxConns
  /\ used' = used + 1 /\ wsRef' = used' /\ timer' = FALSE
  /\ ws' = [ws EXCEPT ![used'] = "connecting"]
  /\ UNCHANGED <<last, view, conn, up, read, known, queue, sub, seq, dropped,
                 ousted>>

\* The hub accepts the connection; onopen joins the match.
Open(c) ==
  /\ ws[c] = "connecting"
  /\ ws' = [ws EXCEPT ![c] = "open"]
  /\ conn' = [conn EXCEPT ![c] = "open"]
  /\ up' = [up EXCEPT ![c] = <<Msg("join", last)>>]
  /\ UNCHANGED <<used, wsRef, timer, last, view, read, known, queue, sub, seq,
                 dropped, ousted>>

\* A command; its number and what it is are in MatchActor and TurnEngine.
Send ==
  /\ wsRef # None /\ ws[wsRef] = "open" /\ Len(up[wsRef]) < MaxSent
  /\ up' = [up EXCEPT ![wsRef] = Append(@, Msg("cmd", 0))]
  /\ UNCHANGED <<client, conn, read, known, queue, sub, seq, dropped, ousted>>

OnEvents_NoResync(m) == UNCHANGED <<view, up>>                     \* mutant
\* Events are only logged; they make the client ask for a snapshot.
OnEvents(m) ==
  /\ up' = IF wsRef # None /\ ws[wsRef] = "open"
           THEN [up EXCEPT ![wsRef] = Append(@, Msg("resync", 0))]
           ELSE up
  /\ UNCHANGED view

Listening_Closed(c) == ws[c] \in {"open", "closed"}                \* mutant
Listening(c) == ws[c] = "open"

\* onmessage
Deliver(c) ==
  /\ Listening(c) /\ queue[c] # <<>>
  /\ queue' = [queue EXCEPT ![c] = Tail(@)]
  /\ LET m == Head(queue[c]) IN
     CASE m.kind = "error" -> UNCHANGED <<last, view, up>>
       [] m.kind = "snapshot" ->
            last' = m.seq /\ view' = m.seq /\ UNCHANGED up
       [] m.kind = "events" -> last' = m.seq /\ OnEvents(m)
  /\ UNCHANGED <<ws, used, wsRef, timer, conn, read, known, sub, seq, dropped,
                 ousted>>

Retry_Never == FALSE                                               \* mutant
Retry == TRUE

\* onclose: the connection broke, or could not be made.  That it breaks on its
\* own is allowed as long as another one is left to the bound.
ClientCloses(c) ==
  /\ ws[c] \in {"connecting", "open"}
  /\ conn[c] \in {"new", "open"} => used < MaxConns
  /\ ws' = [ws EXCEPT ![c] = "closed"]
  /\ wsRef' = None /\ timer' = Retry
  /\ UNCHANGED <<used, last, view, conn, up, read, known, queue, sub, seq,
                 dropped, ousted>>

-----------------------------------------------------------------------------
(* The hub.                                                                *)

\* Close, by readPump, writePump or the heartbeat
ServerCloses(c) ==
  /\ conn[c] = "open"
  /\ ws[c] # "closed" => used < MaxConns
  /\ conn' = [conn EXCEPT ![c] = "closed"]
  /\ UNCHANGED <<client, up, read, known, queue, sub, seq, dropped, ousted>>

\* readPump takes the next message; a join sets the player at once.
Read(c) ==
  /\ conn[c] = "open" /\ read[c] = Idle /\ up[c] # <<>>
  /\ read' = [read EXCEPT ![c] = Head(up[c])]
  /\ up' = [up EXCEPT ![c] = Tail(@)]
  /\ known' = IF Head(up[c]).kind = "join" THEN known \cup {c} ELSE known
  /\ UNCHANGED <<client, conn, queue, sub, seq, dropped, ousted>>

\* ServeHTTP goes on when the context is done: a player who joined leaves.
Depart(c) ==
  /\ conn[c] = "closed"
  /\ conn' = [conn EXCEPT ![c] = IF c \in known THEN "leaving" ELSE "gone"]
  /\ UNCHANGED <<client, up, read, known, queue, sub, seq, dropped, ousted>>

-----------------------------------------------------------------------------
(* The actor, and what it sends.                                           *)

HasRoom(c) == Len(queue[c]) < QueueSize

\* SendEnvelope never waits: a full queue loses the message.
SendTo(c, m) ==
  IF c = None \/ conn[c] # "open" THEN UNCHANGED <<queue, dropped>>
  ELSE IF HasRoom(c)
  THEN queue' = [queue EXCEPT ![c] = Append(@, m)] /\ UNCHANGED dropped
  ELSE UNCHANGED queue /\ dropped' = dropped \cup {c}

\* sendSyncToPlayer
Sync(l) ==
  IF l > 0 /\ l < seq /\ seq - l <= DeltaGap THEN Out("events") ELSE Out("snapshot")

Handled(c) == read' = [read EXCEPT ![c] = Idle]

HandleJoin(c) ==
  /\ read[c].kind = "join" /\ Handled(c)
  /\ sub' = c /\ UNCHANGED seq
  /\ ousted' = (ousted \/ sub > c)
  /\ SendTo(c, Sync(read[c].last))
  /\ UNCHANGED <<client, conn, up, known>>

\* The answer goes to the subscription, whichever connection asked.
HandleResync(c) ==
  /\ read[c].kind = "resync" /\ Handled(c)
  /\ UNCHANGED <<sub, seq>>
  /\ SendTo(sub, Sync(read[c].last))
  /\ UNCHANGED <<client, conn, up, known, ousted>>

\* Accepted, its events are broadcast; rejected, the hub answers.
HandleCommand(c) ==
  /\ read[c].kind = "cmd" /\ Handled(c)
  /\ \/ /\ seq < MaxSeq /\ seq' = seq + 1
        /\ SendTo(sub, Out("events"))
     \/ UNCHANGED seq /\ SendTo(c, Out("error"))
  /\ UNCHANGED <<client, conn, up, known, sub, ousted>>

\* Another player's command, or a timeout
OthersMove ==
  /\ seq < MaxSeq /\ seq' = seq + 1
  /\ SendTo(sub, Out("events"))
  /\ UNCHANGED <<client, conn, up, read, known, sub, ousted>>

\* handleLeave deletes the player's subscription, whoever holds it.
HandleLeave(c) ==
  /\ conn[c] = "leaving"
  /\ conn' = [conn EXCEPT ![c] = "gone"]
  /\ sub' = None
  /\ ousted' = (ousted \/ sub > c)
  /\ UNCHANGED <<client, up, read, known, queue, seq, dropped>>

-----------------------------------------------------------------------------
ClientStep(c) == Open(c) \/ Deliver(c) \/ ClientCloses(c)
HubStep(c) == ServerCloses(c) \/ Read(c) \/ Depart(c)
ActorStep(c) ==
  HandleJoin(c) \/ HandleResync(c) \/ HandleCommand(c) \/ HandleLeave(c)

Next ==
  \/ Connect \/ Send \/ OthersMove
  \/ \E c \in Conns : ClientStep(c) \/ HubStep(c) \/ ActorStep(c)

\* The reconnect timer goes off, messages under way arrive, goroutines go on,
\* the actor takes what is in its inbox, and a connection that one side has
\* closed is closed by the other: by an error of Read or Write, or at the next
\* heartbeat.  Connections may break at any time, but none has to, and nobody
\* has to play.
Fairness ==
  /\ WF_vars(Connect)
  /\ \A c \in Conns :
       /\ WF_vars(Open(c)) /\ WF_vars(Deliver(c)) /\ WF_vars(Read(c))
       /\ WF_vars(Depart(c)) /\ WF_vars(ActorStep(c))
       /\ WF_vars(conn[c] \in {"closed", "leaving", "gone"} /\ ClientCloses(c))
       /\ WF_vars(ws[c] = "closed" /\ ServerCloses(c))

Spec == Init /\ [][Next]_vars /\ Fairness

-----------------------------------------------------------------------------
(* Properties.                                                             *)

\* A connection on which nothing is under way in either direction
Quiet(c) ==
  /\ ws[c] = "open" /\ conn[c] = "open"
  /\ up[c] = <<>> /\ read[c] = Idle /\ queue[c] = <<>>

\* When nothing is under way on the connection that is subscribed, and it lost
\* nothing to a full queue, the player sees the match as it is, however many
\* connections broke before and whatever was lost with them.
QuietMeansCurrent == \A c \in Conns \ dropped : sub = c /\ Quiet(c) => view = seq

\* What the player sees never goes back to an earlier state of the match,
\* although every new connection begins with events or a snapshot of its own.
NeverGoesBack == [][view' >= view]_vars

\* A player at the screen gets to see the last state of the match, however
\* often the connection breaks, unless a full queue loses something or an older
\* connection comes late and ousts the one in use.
CatchesUp == [](~ ousted /\ dropped = {}) => <>[](view = seq)

\* Reconnecting works: when the player has joined on a new connection, both
\* sides hold it open, and the older ones are gone, the actor sends to it.
ReconnectWorks ==
  \A c \in known :
    /\ c = used /\ Quiet(c)
    /\ \A b \in 1 .. c - 1 : conn[b] = "gone" /\ read[b] = Idle
    => sub = c
-----------------------------------------------------------------------------
(* The inductive invariant behind QuietMeansCurrent and NeverGoesBack.     *)

SocketState == {"new", "connecting", "open", "closed"}
HubState == {"new", "open", "closed", "leaving", "gone"}
Message == [kind : {"idle", "join", "resync", "cmd"}, last : Nat]
Envelope == [kind : {"events", "snapshot", "error"}, seq : Nat]

\* Every variable keeps to its type.
TypeOK ==
  /\ ws \in [Conns -> SocketState] /\ conn \in [Conns -> HubState]
  /\ used \in 0 .. MaxConns /\ wsRef \in Conns \cup {None}
  /\ sub \in Conns \cup {None} /\ timer \in BOOLEAN /\ ousted \in BOOLEAN
  /\ last \in Nat /\ view \in Nat /\ seq \in Nat
  /\ up \in [Conns -> Seq(Message)] /\ read \in [Conns -> Message]
  /\ queue \in [Conns -> Seq(Envelope)]
  /\ known \subseteq Conns /\ dropped \subseteq Conns

\* The client holds one connection at a time, the one in wsRef; until the hub
\* has accepted it nothing is sent on it.
ClientInv ==
  /\ \A c \in Conns : ws[c] \in {"connecting", "open"} => wsRef = c /\ ~ timer
  /\ \A c \in Conns : ws[c] = "connecting" => conn[c] = "new"
  /\ \A c \in Conns : ws[c] = "new" => conn[c] = "new"
  /\ \A c \in Conns : used < c => ws[c] = "new"
  /\ \A c \in Conns : conn[c] = "new" => queue[c] = <<>>

\* Messages arrive in the order of the states they tell of, none of them older
\* than what the client shows or newer than the match.
OrderInv ==
  /\ view <= seq
  /\ \A c \in Conns : \A i, j \in 1 .. Len(queue[c]) :
       i < j => queue[c][i].seq <= queue[c][j].seq
  /\ \A c \in Conns : \A i \in 1 .. Len(queue[c]) :
       /\ queue[c][i].seq <= seq
       /\ ws[c] \in {"connecting", "open"} => view <= queue[c][i].seq

\* A subscribed client that is behind is going to learn of it: it is about to
\* ask for a snapshot, or events or the current snapshot are on their way.
Asks(c) ==
  \/ read[c].kind \in {"join", "resync"}
  \/ \E i \in 1 .. Len(up[c]) : up[c][i].kind \in {"join", "resync"}
News(c) ==
  \E i \in 1 .. Len(queue[c]) :
    \/ queue[c][i].kind = "events"
    \/ queue[c][i].kind = "snapshot" /\ queue[c][i].seq = seq
BehindInv ==
  \A c \in Conns \ dropped :
    sub = c /\ ws[c] = "open" /\ conn[c] = "open" /\ view # seq => Asks(c) \/ News(c)

IInv == ClientInv /\ OrderInv /\ BehindInv
=============================================================================
