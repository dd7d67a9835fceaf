------------------------------- MODULE Inbox --------------------------------
(***************************************************************************)
(* The registry and the inboxes of the actors it keeps                     *)
(* (src/internal/match/registry.go, NewActor, run and Stop of actor.go,    *)
(* and the shutdown of src/cmd/server/main.go), for one match.             *)
(*                                                                         *)
(* The callers are goroutines of connections and requests.  A call is any  *)
(* of SubmitCommand, Join, Leave and Resync: get the actor from the        *)
(* registry, send it a message with a channel for the reply, wait for the  *)
(* reply.  What a handler does is in MatchActor.  The actors are numbered  *)
(* as they are made.  A Go channel serves its senders in turn, those that  *)
(* found it full included, so that buffered and blocked messages are one   *)
(* queue here.  The scheduler, which does not use the inbox, is in         *)
(* TurnDeadline.                                                           *)
(***************************************************************************)
EXTENDS Naturals, Sequences

CONSTANTS
  Callers, Main,           \* the goroutines
  Nobody,                  \* nobody holds the lock, or is being answered
  MaxActors, MaxRemovals   \* bounds

ASSUME InboxAssumption ==
  /\ Nobody \notin Callers \cup {Main} /\ Main \notin Callers
  /\ MaxActors \in Nat /\ MaxRemovals \in Nat

Users == Callers \cup {Main}
Actors == 1 .. MaxActors

VARIABLES
  row,       \* the match has a row in matches
  table,     \* r.actors: the actor of the match, 0 without one
  lock,      \* r.mu: who has it for writing
  made,      \* how many actors were made
  life,      \* of an actor: "none", "up", "cancelled" or "gone"
  inbox,     \* of an actor: the callers whose messages it has not taken
  busy,      \* of an actor: the caller whose message it handles
  pc,        \* where each goroutine is
  with,      \* the actor it has in hand
  removals   \* spent of the bound

vars == <<row, table, lock, made, life, inbox, busy, pc, with, removals>>

Init ==
  /\ row = FALSE /\ table = 0 /\ lock = Nobody /\ made = 0 /\ removals = 0
  /\ life = [g \in Actors |-> "none"]
  /\ inbox = [g \in Actors |-> <<>>]
  /\ busy = [g \in Actors |-> Nobody]
  /\ pc = [u \in Users |-> IF u = Main THEN "serving" ELSE "idle"]
  /\ with = [u \in Users |-> 0]

\* The process ends with main.
Running == pc[Main] # "exited"
At(u, place) == Running /\ pc[u] = place
Goto(u, place) == pc' = [pc EXCEPT ![u] = place]

\* NewActor, with the messages s for a start; u keeps it in hand.
Make(u, s) ==
  /\ made < MaxActors
  /\ made' = made + 1
  /\ life' = [life EXCEPT ![made + 1] = "up"]
  /\ inbox' = [inbox EXCEPT ![made + 1] = s]
  /\ with' = [with EXCEPT ![u] = made + 1]

-----------------------------------------------------------------------------
(* GetOrLoad.                                                              *)

\* Under the read lock.
Find(c) ==
  /\ At(c, "idle") /\ lock = Nobody
  /\ \/ table # 0 /\ Goto(c, "post") /\ with' = [with EXCEPT ![c] = table]
     \/ table = 0 /\ Goto(c, "miss") /\ UNCHANGED with
  /\ UNCHANGED <<row, table, lock, made, life, inbox, busy, removals>>

\* Under the write lock the table is looked up once more.
IsAbsent_Unchecked == TRUE                                         \* mutant
IsAbsent == table = 0
Enter(c) ==
  /\ At(c, "miss") /\ lock = Nobody
  /\ \/ /\ table # 0
        /\ Goto(c, "post") /\ with' = [with EXCEPT ![c] = table]
        /\ UNCHANGED lock
     \/ /\ IsAbsent /\ row
        /\ lock' = c /\ Goto(c, "load") /\ UNCHANGED with
     \/ /\ IsAbsent /\ ~ row
        /\ Goto(c, "idle") /\ UNCHANGED <<lock, with>>
  /\ UNCHANGED <<row, table, made, life, inbox, busy, removals>>

Load(c) ==
  /\ At(c, "load") /\ Make(c, <<>>)
  /\ table' = made + 1 /\ lock' = Nobody /\ Goto(c, "post")
  /\ UNCHANGED <<row, busy, removals>>

\* The store failed; the lock is released all the same.
AfterError_Locked == lock                                          \* mutant
AfterError == Nobody
LoadFails(c) ==
  /\ At(c, "load")
  /\ lock' = AfterError /\ Goto(c, "idle")
  /\ UNCHANGED <<row, table, made, life, inbox, busy, with, removals>>

-----------------------------------------------------------------------------
(* The call, and the actor's loop.                                         *)

Post(c) ==
  /\ At(c, "post")
  /\ inbox' = [inbox EXCEPT ![with[c]] = Append(@, c)]
  /\ Goto(c, "wait")
  /\ UNCHANGED <<row, table, lock, made, life, busy, with, removals>>

\* select picks among what is ready: a cancelled actor may still take messages.
Live(g) == life[g] \in {"up", "cancelled"}
Waits(g) == Running /\ Live(g) /\ busy[g] = Nobody

Take(g) ==
  /\ Waits(g) /\ inbox[g] # <<>>
  /\ busy' = [busy EXCEPT ![g] = Head(inbox[g])]
  /\ inbox' = [inbox EXCEPT ![g] = Tail(@)]
  /\ UNCHANGED <<row, table, lock, made, life, pc, with, removals>>

\* Every message is replied to, whatever its handler returned.
RepliesTo_OnlyErrors(c, ok) == IF ok THEN Nobody ELSE c            \* mutant
RepliesTo(c, ok) == c
Answer(g, ok) ==
  /\ Running /\ Live(g) /\ busy[g] # Nobody
  /\ busy' = [busy EXCEPT ![g] = Nobody]
  /\ LET c == RepliesTo(busy[g], ok)
         next == IF pc[c] = "wait" THEN "idle"
                 ELSE IF ok THEN "started" ELSE "refused"
     IN IF c = Nobody THEN UNCHANGED pc ELSE Goto(c, next)
  /\ UNCHANGED <<row, table, lock, made, life, inbox, with, removals>>

\* run returns, after handleShutdown.
Exit(g) ==
  /\ Waits(g) /\ life[g] = "cancelled"
  /\ life' = [life EXCEPT ![g] = "gone"]
  /\ UNCHANGED <<row, table, lock, made, inbox, busy, pc, with, removals>>

-----------------------------------------------------------------------------
(* CreateMatch, which holds the lock while it waits for the actor; the row *)
(* stays when the start is refused.                                        *)

Create(c) ==
  /\ At(c, "idle") /\ lock = Nobody /\ table = 0 /\ ~ row
  /\ Make(c, <<c>>)
  /\ row' = TRUE /\ lock' = c /\ Goto(c, "start")
  /\ UNCHANGED <<table, busy, removals>>

Created(c) ==
  /\ At(c, "started")
  /\ table' = with[c] /\ lock' = Nobody /\ Goto(c, "idle")
  /\ UNCHANGED <<row, made, life, inbox, busy, with, removals>>

-----------------------------------------------------------------------------
(* Stop: cancel, then wait until run has returned.                         *)

Refused(c) ==
  /\ At(c, "refused")
  /\ life' = [life EXCEPT ![with[c]] = "cancelled"] /\ Goto(c, "stop")
  /\ UNCHANGED <<row, table, lock, made, inbox, busy, with, removals>>

\* u takes the lock and cancels the actor of the table.
Cancel(u, place) ==
  /\ lock = Nobody /\ table # 0
  /\ lock' = u /\ with' = [with EXCEPT ![u] = table]
  /\ life' = [life EXCEPT ![table] = "cancelled"]
  /\ Goto(u, place)
  /\ UNCHANGED <<row, table, made, inbox, busy>>

HasEnded_NotAwaited(g) == TRUE                                     \* mutant
HasEnded(g) == life[g] = "gone"
\* u has waited for its actor and deletes it from the table.
Delete(u, next) ==
  /\ HasEnded(with[u])
  /\ table' = 0 /\ lock' = Nobody /\ Goto(u, next)
  /\ UNCHANGED <<row, made, life, inbox, busy, with, removals>>

RemoveActor(c) ==
  /\ At(c, "idle") /\ removals < MaxRemovals
  /\ Cancel(c, "stop") /\ removals' = removals + 1
Stopped(c) == At(c, "stop") /\ Delete(c, "idle")

\* main.go: a signal, registry.Shutdown, up to ten seconds for requests under
\* way while connections go on, and registry.Shutdown once more at the end.
Shutdown(from, during, after) ==
  /\ At(Main, from)
  /\ \/ Cancel(Main, during) /\ UNCHANGED removals
     \/ /\ lock = Nobody /\ table = 0 /\ Goto(Main, after)
        /\ UNCHANGED <<row, table, lock, made, life, inbox, busy, with, removals>>
Signal == Shutdown("serving", "closing", "closed")
Closed == At(Main, "closing") /\ Delete(Main, "closed")
Return == Shutdown("closed", "leaving", "exited")
Returned == At(Main, "leaving") /\ Delete(Main, "exited")

-----------------------------------------------------------------------------
Next ==
  \/ \E c \in Callers :
       \/ Find(c) \/ Enter(c) \/ Load(c) \/ LoadFails(c) \/ Post(c)
       \/ Create(c) \/ Created(c) \/ Refused(c) \/ RemoveActor(c) \/ Stopped(c)
  \/ \E g \in Actors : Take(g) \/ (\E ok \in BOOLEAN : Answer(g, ok)) \/ Exit(g)
  \/ Signal \/ Closed \/ Return \/ Returned

\* Goroutines go on once they have begun something; nobody has to call, and no
\* signal has to come.
Fairness ==
  /\ \A c \in Callers :
       WF_vars(Enter(c) \/ Load(c) \/ LoadFails(c) \/ Post(c) \/ Created(c)
               \/ Refused(c) \/ Stopped(c))
  /\ \A g \in Actors :
       /\ WF_vars(Take(g)) /\ WF_vars(\E ok \in BOOLEAN : Answer(g, ok))
       /\ WF_vars(Exit(g))
  /\ WF_vars(Closed \/ Return \/ Returned)

Spec == Init /\ [][Next]_vars /\ Fairness

-----------------------------------------------------------------------------
(* Properties.                                                             *)

TypeOK ==
  /\ row \in BOOLEAN /\ table \in 0 .. made /\ made \in 0 .. MaxActors
  /\ lock \in Users \cup {Nobody} /\ removals \in Nat
  /\ life \in [Actors -> {"none", "up", "cancelled", "gone"}]
  /\ inbox \in [Actors -> Seq(Callers)]
  /\ busy \in [Actors -> Callers \cup {Nobody}]
  /\ pc \in [Users -> {"idle", "miss", "load", "post", "wait", "start", "started",
                       "refused", "stop", "serving", "closing", "closed",
                       "leaving", "exited"}]
  /\ with \in [Users -> 0 .. made]

\* Never do two goroutines run one match: each would number and append events
\* of its own.  Only the actor made last is alive, over concurrent loads, a
\* creation and any number of removals.
OneActor == \A g \in Actors : Live(g) => g = made

\* A call that reached an actor nobody stops is answered.
Answered ==
  \A c \in Callers :
    pc[c] = "wait" /\ life[with[c]] = "up" ~> pc[c] # "wait" \/ life[with[c]] # "up"

\* Nobody keeps the registry locked, although its lock is held while waiting
\* for an actor to start and for an actor to end.
LockReleased == lock # Nobody ~> lock = Nobody

\* To their callers the registry and its actors are one server that handles
\* one call at a time; the start inside CreateMatch is one of them.
Senders(q) == {q[i] : i \in 1 .. Len(q)}
Waiting == {c \in Callers : \E g \in Actors : Live(g) /\ c \in Senders(inbox[g])}
Dropped == {c \in Callers : \E g \in Actors : life[g] = "gone" /\ c \in Senders(inbox[g])}
Server == INSTANCE SerialServer WITH
  waiting <- Waiting,
  served  <- IF made = 0 THEN Nobody ELSE busy[made],
  dropped <- Dropped
ImplementsSerialServer == Server!Spec

-----------------------------------------------------------------------------
(* The inductive invariant behind OneActor and the refinement.             *)

Starting == {"start", "started", "refused"}
Stopping == {"stop", "closing", "leaving"}

\* Whoever makes or ends an actor holds the lock meanwhile.
LockInv ==
  \A u \in Users : lock = u <=> pc[u] \in {"load"} \cup Starting \cup Stopping

\* The actors made before the last one are gone; the last one is in the table
\* or in the hands of the goroutine that holds the lock.
ActorInv ==
  /\ \A g \in Actors : /\ life[g] = "none" <=> g > made
                       /\ g < made => life[g] = "gone"
  /\ table # 0 => table = made /\ (lock = Nobody => life[made] = "up")
  /\ made # 0 /\ table = 0 /\ Live(made) =>
       \E u \in Users : lock = u /\ pc[u] \in Starting \cup Stopping
  /\ \A u \in Users :
       /\ pc[u] = "load" => table = 0
       /\ pc[u] \in Starting => table = 0 /\ with[u] = made /\ life[made] = "up"
       /\ pc[u] \in Stopping => with[u] = made /\ life[made] \in {"cancelled", "gone"}
       /\ pc[u] \in {"post", "wait"} \cup Starting \cup Stopping => with[u] # 0

\* A message is in one inbox, once, and its sender waits for that actor.
MessageInv ==
  \A g \in Actors :
    /\ \A i \in 1 .. Len(inbox[g]) :
         /\ pc[inbox[g][i]] \in {"wait", "start"} /\ with[inbox[g][i]] = g
         /\ inbox[g][i] # busy[g]
         /\ \A j \in 1 .. Len(inbox[g]) : inbox[g][i] = inbox[g][j] => i = j
    /\ busy[g] # Nobody => pc[busy[g]] \in {"wait", "start"} /\ with[busy[g]] = g
    /\ ~ Live(g) => busy[g] = Nobody
    /\ life[g] = "none" => inbox[g] = <<>>

IInv == LockInv /\ ActorInv /\ MessageInv
=============================================================================
