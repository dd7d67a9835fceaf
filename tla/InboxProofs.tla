---------------------------- MODULE InboxProofs -----------------------------
(***************************************************************************)
(* Theorems about Inbox, for any number of callers, actors and removals:   *)
(* a match has one actor at a time, and the calls are handled one by one.  *)
(***************************************************************************)
EXTENDS Inbox, TLAPS

USE InboxAssumption

-----------------------------------------------------------------------------
(* Types.                                                                  *)

\* The initial values have their types.
LEMMA TypeOKInit == Init => TypeOK
<1> SUFFICES ASSUME Init PROVE TypeOK
  OBVIOUS
<1>1. row \in BOOLEAN
  BY Zenon DEF Init
<1> QED
  BY <1>1 DEF Init, TypeOK, Users, Actors

\* Every step keeps the types.
LEMMA TypeOKNext == TypeOK /\ IInv /\ [Next]_vars => TypeOK'
<1> SUFFICES ASSUME TypeOK, IInv, [Next]_vars PROVE TypeOK'
  OBVIOUS
<1> USE DEF TypeOK, Users, Actors, At, Goto
<1>1. ASSUME NEW c \in Callers, Find(c) \/ Enter(c)
      PROVE  TypeOK'
  <2>1. with' = [with EXCEPT ![c] = table] \/ with' = with
    BY <1>1 DEF Find, Enter
  <2>2. pc' = [pc EXCEPT ![c] = "post"] \/ pc' = [pc EXCEPT ![c] = "miss"]
        \/ pc' = [pc EXCEPT ![c] = "load"] \/ pc' = [pc EXCEPT ![c] = "idle"]
    BY <1>1 DEF Find, Enter
  <2>3. lock' = c \/ lock' = lock
    BY <1>1 DEF Find, Enter
  <2>4. UNCHANGED <<row, table, made, life, inbox, busy, removals>>
    BY <1>1 DEF Find, Enter
  <2> QED
    BY <2>1, <2>2, <2>3, <2>4
<1>2. ASSUME NEW c \in Callers,
             LoadFails(c) \/ Created(c) \/ Refused(c)
      PROVE  TypeOK'
  <2>1. CASE LoadFails(c)
    BY <2>1 DEF LoadFails, AfterError
  <2>2. CASE Created(c)
    BY <2>2 DEF Created
  <2>3. CASE Refused(c)
    BY <2>3 DEF Refused
  <2> QED
    BY <1>2, <2>1, <2>2, <2>3
<1>3. ASSUME NEW c \in Callers, Load(c)
      PROVE  TypeOK'
  BY <1>3 DEF Load, Make
<1>4. ASSUME NEW c \in Callers, Create(c)
      PROVE  TypeOK'
  <2>1. row' \in BOOLEAN
    BY <1>4, Zenon DEF Create
  <2>2. /\ life' = [life EXCEPT ![made + 1] = "up"]
        /\ inbox' = [inbox EXCEPT ![made + 1] = <<c>>]
        /\ with' = [with EXCEPT ![c] = made + 1] /\ made' = made + 1
        /\ made' \in Actors /\ pc' = [pc EXCEPT ![c] = "start"]
        /\ lock' = c /\ UNCHANGED <<table, busy, removals>>
    BY <1>4 DEF Create, Make
  <2> QED
    BY <2>1, <2>2
<1>5. ASSUME NEW c \in Callers, Post(c)
      PROVE  TypeOK'
  BY <1>5 DEF Post, IInv, ActorInv
<1>6. ASSUME NEW c \in Callers, RemoveActor(c)
      PROVE  TypeOK'
  BY <1>6 DEF RemoveActor, Cancel
<1>7. ASSUME NEW c \in Callers, Stopped(c)
      PROVE  TypeOK'
  BY <1>7 DEF Stopped, Delete
<1>8. ASSUME NEW g \in Actors, Take(g)
      PROVE  TypeOK'
  BY <1>8 DEF Take
<1>9. ASSUME NEW g \in Actors, NEW ok \in BOOLEAN, Answer(g, ok)
      PROVE  TypeOK'
  BY <1>9 DEF Answer, RepliesTo
<1>10. ASSUME NEW g \in Actors, Exit(g)
       PROVE  TypeOK'
  BY <1>10 DEF Exit
<1>11. CASE Signal \/ Return
  <2> SUFFICES ASSUME NEW from \in {"serving", "closed"},
                      NEW during \in {"closing", "leaving"},
                      NEW after \in {"closed", "exited"},
                      Shutdown(from, during, after)
               PROVE  TypeOK'
    BY <1>11 DEF Signal, Return
  <2>1. CASE Cancel(Main, during)
    <3>1. UNCHANGED removals
      BY <2>1 DEF Shutdown, Cancel
    <3> QED
      BY <2>1, <3>1 DEF Cancel
  <2>2. CASE pc' = [pc EXCEPT ![Main] = after]
             /\ UNCHANGED <<row, table, lock, made, life, inbox, busy, with, removals>>
    BY <2>2
  <2> QED
    BY <2>1, <2>2 DEF Shutdown
<1>12. CASE Closed \/ Returned
  BY <1>12 DEF Closed, Returned, Delete
<1>13. CASE UNCHANGED vars
  BY <1>13 DEF vars
<1> QED
  BY <1>1, <1>2, <1>3, <1>4, <1>5, <1>6, <1>7, <1>8, <1>9, <1>10, <1>11,
     <1>12, <1>13 DEF Next

-----------------------------------------------------------------------------
(* The inductive invariant.                                                *)

\* The inductive invariant holds at first.
LEMMA IInvInit == TypeOK /\ Init => IInv
<1> SUFFICES ASSUME TypeOK, Init PROVE IInv
  OBVIOUS
<1>1. \A g \in Actors : (life[g] = "none" <=> g > made) /\ ~ (g < made)
  BY DEF Init, Actors
<1>2. \A u \in Users : pc[u] \in {"serving", "idle"}
  BY DEF Init, Users
<1>3. LockInv
  BY <1>2 DEF Init, LockInv, Starting, Stopping, Users
<1>4. ActorInv
  BY <1>1, <1>2 DEF Init, ActorInv, Starting, Stopping
<1>5. MessageInv
  BY DEF Init, MessageInv, Live
<1> QED
  BY <1>3, <1>4, <1>5 DEF IInv

\* The messages stay well-formed when inboxes and their senders do not change
\* and no actor with a message in hand ends.
LEMMA MessagesKept ==
  ASSUME TypeOK, MessageInv, UNCHANGED <<inbox, busy>>,
         \A c \in Callers : pc[c] \in {"wait", "start"} =>
                              pc'[c] = pc[c] /\ with'[c] = with[c],
         \A g \in Actors : /\ life'[g] = "none" => life[g] = "none"
                           /\ ~ Live(g)' => ~ Live(g) \/ busy[g] = Nobody
  PROVE  MessageInv'
<1> SUFFICES ASSUME NEW g \in Actors
     PROVE
       /\ \A i \in 1 .. Len(inbox'[g]) :
            /\ pc'[inbox'[g][i]] \in {"wait", "start"} /\ with'[inbox'[g][i]] = g
            /\ inbox'[g][i] # busy'[g]
            /\ \A j \in 1 .. Len(inbox'[g]) : inbox'[g][i] = inbox'[g][j] => i = j
       /\ busy'[g] # Nobody => pc'[busy'[g]] \in {"wait", "start"} /\ with'[busy'[g]] = g
       /\ ~ Live(g)' => busy'[g] = Nobody
       /\ life'[g] = "none" => inbox'[g] = <<>>
  BY DEF MessageInv
<1>1. inbox[g] \in Seq(Callers) /\ busy[g] \in Callers \cup {Nobody}
  BY DEF TypeOK
<1>2. \A i \in 1 .. Len(inbox[g]) : inbox[g][i] \in Callers
  BY <1>1
<1> QED
  BY <1>1, <1>2 DEF MessageInv, Live

\* GetOrLoad finds the actor, or not.
LEMMA LookupStep ==
  ASSUME TypeOK, IInv, TypeOK',
         NEW c \in Callers, Find(c) \/ Enter(c) \/ LoadFails(c)
  PROVE  IInv'
<1>1. LockInv'
  BY DEF TypeOK, IInv, At, Goto, Users, Actors, Find, Enter, IsAbsent,
         LoadFails, AfterError, LockInv, Starting, Stopping
<1>2. ActorInv'
  BY DEF TypeOK, IInv, At, Goto, Users, Actors, Find, Enter, IsAbsent,
         LoadFails, AfterError, LockInv, ActorInv, Live, Starting, Stopping
<1>3. MessageInv'
  <2>1. UNCHANGED <<inbox, busy>>
    BY DEF Find, Enter, LoadFails
  <2>2. \A d \in Callers : pc[d] \in {"wait", "start"} =>
                                pc'[d] = pc[d] /\ with'[d] = with[d]
    <3>1. pc[c] \notin {"wait", "start"}
      BY DEF Find, Enter, LoadFails, At
    <3>2. \A d \in Callers \ {c} : pc'[d] = pc[d] /\ with'[d] = with[d]
      BY DEF Find, Enter, LoadFails, Goto, TypeOK, Users
    <3> QED
      BY <3>1, <3>2
  <2>3. \A g \in Actors : life'[g] = life[g] \/ (life[g] = "up" /\ life'[g] = "cancelled")
    BY DEF Find, Enter, LoadFails, At, Goto, TypeOK, IInv, ActorInv, Starting,
           Users
  <2> QED
    BY <2>1, <2>2, <2>3, MessagesKept DEF IInv, Live
<1> QED
  BY <1>1, <1>2, <1>3 DEF IInv

\* GetOrLoad makes the actor from the store.
LEMMA LoadStep ==
  ASSUME TypeOK, IInv, TypeOK', NEW c \in Callers, Load(c)
  PROVE  IInv'
<1>1. LockInv'
  BY DEF TypeOK, IInv, At, Goto, Users, Actors, Load, Make, LockInv, Starting,
         Stopping
<1>2. ActorInv'
  BY DEF TypeOK, IInv, At, Goto, Users, Actors, Load, Make, LockInv, ActorInv,
         Live, Starting, Stopping
<1>3. MessageInv'
  <2>1. made' \in Actors /\ life[made'] = "none"
    BY DEF Load, Make, TypeOK, Actors, IInv, ActorInv
  <2>2. inbox[made'] = <<>>
    BY <2>1 DEF IInv, MessageInv
  <2>3. UNCHANGED <<inbox, busy>>
    BY <2>1, <2>2 DEF Load, Make, TypeOK
  <2>4. \A d \in Callers : pc[d] \in {"wait", "start"} =>
                                pc'[d] = pc[d] /\ with'[d] = with[d]
    BY DEF Load, Make, At, Goto, TypeOK
  <2>5. \A g \in Actors : life'[g] = life[g] \/ life'[g] = "up"
    BY DEF Load, Make, TypeOK
  <2> QED
    BY <2>3, <2>4, <2>5, MessagesKept DEF IInv, Live
<1> QED
  BY <1>1, <1>2, <1>3 DEF IInv

\* A message is sent to the actor in hand, which may be gone by now.
LEMMA PostStep ==
  ASSUME TypeOK, IInv, TypeOK', NEW c \in Callers, Post(c)
  PROVE  IInv'
<1>1. LockInv'
  BY DEF TypeOK, IInv, At, Goto, Users, Actors, Post, LockInv, Starting,
         Stopping
<1>2. ActorInv'
  BY DEF TypeOK, IInv, At, Goto, Users, Actors, Post, LockInv, ActorInv, Live,
         Starting, Stopping
<1>3. MessageInv'
  BY DEF TypeOK, IInv, At, Goto, Users, Actors, Post, LockInv, ActorInv,
         MessageInv, Live, Starting, Stopping
<1> QED
  BY <1>1, <1>2, <1>3 DEF IInv

\* CreateMatch makes an actor with its start as the first message.
LEMMA CreateStep ==
  ASSUME TypeOK, IInv, TypeOK', NEW c \in Callers, Create(c)
  PROVE  IInv'
<1>1. LockInv'
  BY DEF TypeOK, IInv, At, Goto, Users, Actors, Create, Make, LockInv,
         Starting, Stopping
<1>2. ActorInv'
  BY DEF TypeOK, IInv, At, Goto, Users, Actors, Create, Make, LockInv,
         ActorInv, Live, Starting, Stopping
<1>3. MessageInv'
  <2>1. made' \in Actors /\ life[made'] = "none" /\ life' = [life EXCEPT ![made'] = "up"]
    BY DEF Create, Make, TypeOK, Actors, IInv, ActorInv
  <2>2. inbox[made'] = <<>> /\ busy[made'] = Nobody
    BY <2>1 DEF IInv, MessageInv, Live
  <2>3. inbox' = [inbox EXCEPT ![made'] = <<c>>] /\ busy' = busy
    BY <2>1, <2>2 DEF Create, Make, TypeOK
  <2>4. pc' = [pc EXCEPT ![c] = "start"] /\ with' = [with EXCEPT ![c] = made']
    BY DEF Create, Make, At, Goto
  <2>5. pc[c] = "idle"
    BY DEF Create, At
  <2> SUFFICES ASSUME NEW g \in Actors
       PROVE
         /\ \A i \in 1 .. Len(inbox'[g]) :
              /\ pc'[inbox'[g][i]] \in {"wait", "start"} /\ with'[inbox'[g][i]] = g
              /\ inbox'[g][i] # busy'[g]
              /\ \A j \in 1 .. Len(inbox'[g]) : inbox'[g][i] = inbox'[g][j] => i = j
         /\ busy'[g] # Nobody => pc'[busy'[g]] \in {"wait", "start"} /\ with'[busy'[g]] = g
         /\ ~ Live(g)' => busy'[g] = Nobody
         /\ life'[g] = "none" => inbox'[g] = <<>>
    BY DEF MessageInv
  <2>6. CASE g = made'
    BY <2>1, <2>2, <2>3, <2>4, <2>6 DEF TypeOK, Users, Live
  <2>7. CASE g # made'
    <3>1. inbox'[g] = inbox[g] /\ life'[g] = life[g]
      BY <2>1, <2>3, <2>7 DEF TypeOK
    <3>2. busy[g] \in Callers \cup {Nobody} /\ \A i \in 1 .. Len(inbox[g]) : inbox[g][i] \in Callers
      BY DEF TypeOK
    <3>3. \A d \in Callers : pc[d] \in {"wait", "start"} => pc'[d] = pc[d] /\ with'[d] = with[d]
      BY <2>4, <2>5 DEF TypeOK, Users
    <3> QED
      BY <3>1, <3>2, <3>3, <2>3 DEF IInv, MessageInv, Live
  <2> QED BY <2>6, <2>7
<1> QED
  BY <1>1, <1>2, <1>3 DEF IInv

\* The answer to the start: into the table, or away.
LEMMA StartedStep ==
  ASSUME TypeOK, IInv, TypeOK', NEW c \in Callers, Created(c) \/ Refused(c)
  PROVE  IInv'
<1> USE DEF TypeOK, IInv, At, Goto, Users, Actors, LockInv, Starting, Stopping
<1>1. LockInv'
  <2>1. CASE Created(c)
    BY <2>1 DEF Created
  <2>2. CASE Refused(c)
    BY <2>2 DEF Refused
  <2> QED
    BY <2>1, <2>2
<1>2. ActorInv'
  <2>1. CASE Created(c)
    BY <2>1 DEF Created, ActorInv, Live
  <2>2. CASE Refused(c)
    BY <2>2 DEF Refused, ActorInv, Live
  <2> QED
    BY <2>1, <2>2
<1>3. MessageInv'
  <2>1. UNCHANGED <<inbox, busy>>
    BY DEF Created, Refused
  <2>2. \A d \in Callers : pc[d] \in {"wait", "start"} =>
                                pc'[d] = pc[d] /\ with'[d] = with[d]
    <3>1. pc[c] \notin {"wait", "start"}
      BY DEF Created, Refused, At
    <3>2. \A d \in Callers \ {c} : pc'[d] = pc[d] /\ with'[d] = with[d]
      BY DEF Created, Refused, Goto, TypeOK, Users
    <3> QED
      BY <3>1, <3>2
  <2>3. \A g \in Actors : life'[g] = life[g] \/ (life[g] = "up" /\ life'[g] = "cancelled")
    BY DEF Created, Refused, At, Goto, TypeOK, IInv, ActorInv, Starting, Users
  <2> QED
    BY <2>1, <2>2, <2>3, MessagesKept DEF IInv, Live
<1> QED
  BY <1>1, <1>2, <1>3 DEF IInv

\* The actor in the table is told to stop.
LEMMA CancelStep ==
  ASSUME TypeOK, IInv, TypeOK',
         NEW u \in Users, pc[u] \in {"idle", "serving", "closed"},
         NEW p \in Stopping, Cancel(u, p)
  PROVE  IInv'
<1>1. LockInv'
  BY DEF TypeOK, IInv, Cancel, Goto, Users, LockInv, Starting, Stopping
<1>2. ActorInv'
  BY DEF TypeOK, IInv, Cancel, Goto, Users, Actors, LockInv, ActorInv, Live,
         Starting, Stopping
<1>3. MessageInv'
  <2>1. UNCHANGED <<inbox, busy>>
    BY DEF Cancel
  <2>2. \A d \in Callers : pc[d] \in {"wait", "start"} =>
                              pc'[d] = pc[d] /\ with'[d] = with[d]
    BY DEF Cancel, Goto, TypeOK, Users
  <2>3. \A g \in Actors : life'[g] = life[g] \/ life'[g] = "cancelled"
    BY DEF Cancel, TypeOK
  <2> QED
    BY <2>1, <2>2, <2>3, MessagesKept DEF IInv, Live
<1> QED
  BY <1>1, <1>2, <1>3 DEF IInv

\* Its goroutine has returned.
LEMMA DeleteStep ==
  ASSUME TypeOK, IInv, TypeOK',
         NEW u \in Users, pc[u] \in Stopping,
         NEW p \in {"idle", "closed", "exited"}, Delete(u, p)
  PROVE  IInv'
<1>1. LockInv'
  BY DEF TypeOK, IInv, Delete, Goto, Users, LockInv, Starting, Stopping
<1>2. ActorInv'
  BY DEF TypeOK, IInv, Delete, HasEnded, Goto, Users, Actors, LockInv, ActorInv,
         Live, Starting, Stopping
<1>3. MessageInv'
  <2>1. \A d \in Callers : pc[d] \in {"wait", "start"} =>
                              pc'[d] = pc[d] /\ with'[d] = with[d]
    BY DEF Delete, Goto, TypeOK, Users, Stopping
  <2> QED
    BY <2>1, MessagesKept DEF Delete, IInv, Live
<1> QED
  BY <1>1, <1>2, <1>3 DEF IInv

\* The actor takes the first message of its inbox.
LEMMA TakeStep ==
  ASSUME TypeOK, IInv, TypeOK', NEW g \in Actors, Take(g)
  PROVE  IInv'
<1>1. LockInv'
  BY DEF TypeOK, IInv, At, Goto, Users, Actors, Take, Waits, LockInv, Starting,
         Stopping
<1>2. ActorInv'
  BY DEF TypeOK, IInv, At, Goto, Users, Actors, Take, Waits, LockInv, ActorInv,
         Live, Starting, Stopping
<1>3. MessageInv'
  <2> DEFINE q == inbox[g]
  <2>1. q \in Seq(Callers) /\ q # <<>> /\ busy[g] = Nobody
    BY DEF Take, Waits, TypeOK
  <2>2. /\ Head(q) = q[1] /\ Len(Tail(q)) = Len(q) - 1 /\ Len(q) \in Nat \ {0}
        /\ \A i \in 1 .. Len(Tail(q)) : Tail(q)[i] = q[i + 1]
    BY <2>1
  <2>3. /\ inbox' = [inbox EXCEPT ![g] = Tail(q)]
        /\ busy' = [busy EXCEPT ![g] = q[1]]
        /\ UNCHANGED <<life, pc, with>> /\ Live(g)
    BY <2>2 DEF Take, Waits
  <2> HIDE DEF q
  <2> SUFFICES ASSUME NEW h \in Actors
       PROVE
         /\ \A i \in 1 .. Len(inbox'[h]) :
              /\ pc'[inbox'[h][i]] \in {"wait", "start"} /\ with'[inbox'[h][i]] = h
              /\ inbox'[h][i] # busy'[h]
              /\ \A j \in 1 .. Len(inbox'[h]) : inbox'[h][i] = inbox'[h][j] => i = j
         /\ busy'[h] # Nobody => pc'[busy'[h]] \in {"wait", "start"} /\ with'[busy'[h]] = h
         /\ ~ Live(h)' => busy'[h] = Nobody
         /\ life'[h] = "none" => inbox'[h] = <<>>
    BY DEF MessageInv
  <2>4. \A i \in 1 .. Len(q) :
           /\ pc[q[i]] \in {"wait", "start"} /\ with[q[i]] = g
           /\ \A j \in 1 .. Len(q) : q[i] = q[j] => i = j
    BY DEF IInv, MessageInv, q
  <2>5. CASE h = g
    <3>1. inbox'[h] = Tail(q) /\ busy'[h] = q[1]
      BY <2>3, <2>5 DEF TypeOK
    <3>2. \A i \in 1 .. Len(Tail(q)) : i + 1 \in 1 .. Len(q) /\ Tail(q)[i] = q[i + 1]
      BY <2>2
    <3>3. pc[q[1]] \in {"wait", "start"} /\ with[q[1]] = g
      BY <2>2, <2>4
    <3>4. \A i \in 1 .. Len(Tail(q)) :
           /\ pc[Tail(q)[i]] \in {"wait", "start"} /\ with[Tail(q)[i]] = g
           /\ Tail(q)[i] # q[1]
           /\ \A j \in 1 .. Len(Tail(q)) : Tail(q)[i] = Tail(q)[j] => i = j
      <4> SUFFICES ASSUME NEW i \in 1 .. Len(Tail(q)), NEW j \in 1 .. Len(Tail(q))
                   PROVE  /\ pc[q[i + 1]] \in {"wait", "start"} /\ with[q[i + 1]] = g
                          /\ q[i + 1] # q[1] /\ (q[i + 1] = q[j + 1] => i = j)
        BY <3>2
      <4>1. i + 1 \in 1 .. Len(q) /\ j + 1 \in 1 .. Len(q) /\ i \in Nat /\ j \in Nat /\ i # 0
        BY <3>2, <2>2
      <4>2. 1 \in 1 .. Len(q)
        BY <2>2
      <4>3. q[i + 1] # q[1]
        BY <4>1, <4>2, <2>4
      <4>4. q[i + 1] = q[j + 1] => i + 1 = j + 1
        BY <4>1, <2>4
      <4> QED
        BY <4>1, <4>3, <4>4, <2>4
    <3> QED
      BY <3>1, <3>3, <3>4, <2>1, <2>3, <2>5 DEF Live
  <2>6. CASE h # g
    <3>1. inbox'[h] = inbox[h] /\ busy'[h] = busy[h]
      BY <2>3, <2>6 DEF TypeOK
    <3> QED
      BY <3>1, <2>3 DEF IInv, MessageInv, Live
  <2> QED BY <2>5, <2>6
<1> QED
  BY <1>1, <1>2, <1>3 DEF IInv

\* It replies, and the caller goes on.
LEMMA AnswerStep ==
  ASSUME TypeOK, IInv, TypeOK', NEW g \in Actors, NEW ok \in BOOLEAN,
         Answer(g, ok)
  PROVE  IInv'
<1> DEFINE c == busy[g]
           next == IF pc[c] = "wait" THEN "idle" ELSE IF ok THEN "started" ELSE "refused"
<1>1. c \in Callers /\ c \in Users /\ pc[c] \in {"wait", "start"} /\ c # Nobody
  BY DEF Answer, TypeOK, IInv, MessageInv, Users
<1>2. pc' = [pc EXCEPT ![c] = next] /\ UNCHANGED <<table, lock, made, life, with>>
  BY <1>1 DEF Answer, RepliesTo, Goto
<1>3. pc[c] = "wait" => next = "idle"
  OBVIOUS
<1>4. pc[c] = "start" => next \in {"started", "refused"}
  OBVIOUS
<1> HIDE DEF c, next
<1>5. LockInv'
  BY <1>1, <1>2, <1>3, <1>4 DEF IInv, LockInv, Starting, Stopping, TypeOK
<1>6. ActorInv'
  BY <1>1, <1>2, <1>3, <1>4 DEF IInv, ActorInv, Live, Starting, Stopping, TypeOK
<1>7. MessageInv'
  BY DEF TypeOK, IInv, Answer, RepliesTo, At, Goto, Users, Actors, LockInv,
         ActorInv, Live, MessageInv, Starting, Stopping
<1> QED BY <1>5, <1>6, <1>7 DEF IInv

\* A cancelled actor ends between two messages.
LEMMA ExitStep ==
  ASSUME TypeOK, IInv, TypeOK', NEW g \in Actors, Exit(g)
  PROVE  IInv'
<1>1. LockInv'
  BY DEF TypeOK, IInv, At, Goto, Users, Actors, Exit, Waits, LockInv, Starting,
         Stopping
<1>2. ActorInv'
  BY DEF TypeOK, IInv, At, Goto, Users, Actors, Exit, Waits, LockInv, ActorInv,
         Live, Starting, Stopping
<1>3. MessageInv'
  BY DEF TypeOK, IInv, At, Goto, Users, Actors, Exit, Waits, LockInv, ActorInv,
         MessageInv, Live, Starting, Stopping
<1> QED
  BY <1>1, <1>2, <1>3 DEF IInv

\* Shutdown finds no actor.
LEMMA NothingToStop ==
  ASSUME TypeOK, IInv, TypeOK',
         pc[Main] \in {"serving", "closed"},
         NEW after \in {"closed", "exited"}, Goto(Main, after),
         UNCHANGED <<row, table, lock, made, life, inbox, busy, with, removals>>
  PROVE  IInv'
<1>1. LockInv'
  BY DEF TypeOK, IInv, Goto, Users, LockInv, Starting, Stopping
<1>2. ActorInv'
  BY DEF TypeOK, IInv, Goto, Users, LockInv, ActorInv, Live, Starting, Stopping
<1>3. MessageInv'
  BY MessagesKept DEF TypeOK, IInv, Goto, Users, Live
<1> QED
  BY <1>1, <1>2, <1>3 DEF IInv

\* Every step keeps the inductive invariant.
LEMMA IInvNext == TypeOK /\ TypeOK' /\ IInv /\ [Next]_vars => IInv'
<1> SUFFICES ASSUME TypeOK, TypeOK', IInv, [Next]_vars PROVE IInv'
  OBVIOUS
<1>1. ASSUME NEW c \in Callers, RemoveActor(c)
      PROVE  IInv'
  BY <1>1, CancelStep DEF RemoveActor, At, Users, Stopping
<1>2. ASSUME NEW c \in Callers, Stopped(c)
      PROVE  IInv'
  BY <1>2, DeleteStep DEF Stopped, At, Users, Stopping
<1>3. ASSUME NEW from \in {"serving", "closed"}, NEW during \in Stopping,
             NEW after \in {"closed", "exited"}, Shutdown(from, during, after)
      PROVE  IInv'
  <2>1. CASE Cancel(Main, during)
    BY <1>3, <2>1, CancelStep DEF Shutdown, At, Users
  <2>2. CASE ~ Cancel(Main, during)
    BY <1>3, <2>2, NothingToStop DEF Shutdown, At
  <2> QED
    BY <2>1, <2>2
<1>4. CASE Signal \/ Return
  BY <1>3, <1>4 DEF Signal, Return, Stopping
<1>5. CASE Closed \/ Returned
  BY <1>5, DeleteStep DEF Closed, Returned, At, Users, Stopping
<1>6. CASE UNCHANGED vars
  BY <1>6 DEF vars, IInv, LockInv, ActorInv, MessageInv, Live
<1>7. ASSUME NEW c \in Callers,
             \/ Find(c) \/ Enter(c) \/ Load(c) \/ LoadFails(c) \/ Post(c)
             \/ Create(c) \/ Created(c) \/ Refused(c)
      PROVE  IInv'
  BY <1>7, LookupStep, LoadStep, PostStep, CreateStep, StartedStep
<1>8. ASSUME NEW g \in Actors,
             Take(g) \/ (\E ok \in BOOLEAN : Answer(g, ok)) \/ Exit(g)
      PROVE  IInv'
  BY <1>8, TakeStep, AnswerStep, ExitStep
<1> QED
  BY <1>1, <1>2, <1>4, <1>5, <1>6, <1>7, <1>8 DEF Next

\* Types and the inductive invariant hold always.
LEMMA Invariant == Spec => [](TypeOK /\ IInv)
<1>1. Init => TypeOK /\ IInv
  BY TypeOKInit, IInvInit
<1>2. TypeOK /\ IInv /\ [Next]_vars => (TypeOK /\ IInv)'
  BY TypeOKNext, IInvNext
<1> QED
  BY <1>1, <1>2, PTL DEF Spec

\* A match never has two actors that handle messages (GetOrLoad, CreateMatch,
\* RemoveActor and Shutdown of the registry).
THEOREM OneActorAlive == Spec => []OneActor
<1>1. TypeOK /\ IInv => OneActor
  BY DEF TypeOK, IInv, ActorInv, OneActor, Live, Actors
<1> QED
  BY <1>1, Invariant, PTL

-----------------------------------------------------------------------------
(* The refinement.                                                         *)

\* The members of a queue, after a message was added or the first was taken.
LEMMA SendersFacts ==
  ASSUME NEW q \in Seq(Callers)
  PROVE  /\ \A c \in Callers : Senders(Append(q, c)) = Senders(q) \cup {c}
         /\ q # <<>> /\ (\A i \in 1 .. Len(q), j \in 1 .. Len(q) : q[i] = q[j] => i = j) =>
              /\ Head(q) \in Senders(q)
              /\ Senders(Tail(q)) = Senders(q) \ {Head(q)}
         /\ Senders(<<>>) = {} /\ \A c : Senders(<<c>>) = {c}
<1>1. ASSUME NEW c \in Callers
      PROVE  Senders(Append(q, c)) = Senders(q) \cup {c}
  <2> DEFINE r == Append(q, c)
  <2>1. Len(r) = Len(q) + 1 /\ Len(q) \in Nat /\ r[Len(q) + 1] = c
        /\ \A i \in 1 .. Len(q) : r[i] = q[i]
    OBVIOUS
  <2>2. 1 .. Len(r) = (1 .. Len(q)) \cup {Len(q) + 1}
    BY <2>1
  <2> HIDE DEF r
  <2>3. {r[i] : i \in 1 .. Len(r)} = {q[i] : i \in 1 .. Len(q)} \cup {c}
    BY <2>1, <2>2
  <2> QED
    BY <2>3 DEF r, Senders
<1>2. ASSUME q # <<>>, \A i \in 1 .. Len(q), j \in 1 .. Len(q) : q[i] = q[j] => i = j
      PROVE  Head(q) \in Senders(q) /\ Senders(Tail(q)) = Senders(q) \ {Head(q)}
  <2> DEFINE r == Tail(q)
  <2>1. /\ Len(q) \in Nat /\ Len(q) > 0 /\ Len(r) = Len(q) - 1 /\ Head(q) = q[1]
        /\ \A i \in 1 .. Len(r) : r[i] = q[i + 1]
    BY <1>2
  <2> HIDE DEF r
  <2>2. 1 \in 1 .. Len(q)
    BY <2>1
  <2>3. ASSUME NEW x \in {r[i] : i \in 1 .. Len(r)}
        PROVE  x \in {q[i] : i \in 1 .. Len(q)} \ {q[1]}
    <3>1. PICK i \in 1 .. Len(r) : x = r[i]
      BY <2>3
    <3>2. i + 1 \in 1 .. Len(q) /\ i + 1 # 1 /\ x = q[i + 1]
      BY <2>1, <3>1
    <3> QED
      BY <1>2, <2>2, <3>2
  <2>4. ASSUME NEW i \in 1 .. Len(q), q[i] # q[1]
        PROVE  q[i] \in {r[j] : j \in 1 .. Len(r)}
    <3>1. i - 1 \in 1 .. Len(r) /\ r[i - 1] = q[i]
      BY <2>1, <2>4
    <3> QED
      BY <3>1
  <2>5. {r[i] : i \in 1 .. Len(r)} = {q[i] : i \in 1 .. Len(q)} \ {q[1]}
    BY <2>3, <2>4
  <2> QED
    BY <2>1, <2>2, <2>5 DEF r, Senders
<1>3. Senders(<<>>) = {} /\ \A c : Senders(<<c>>) = {c}
  BY DEF Senders
<1> QED
  BY <1>1, <1>2, <1>3

\* A step that touches no inbox and ends no actor is no step of the server; an
\* actor may begin with an empty inbox when the last one has ended.
LEMMA SameServer ==
  ASSUME TypeOK, IInv, UNCHANGED <<inbox, busy>>,
         \A g \in Actors : (Live(g)' <=> Live(g)) \/ inbox[g] = <<>>,
         \A g \in Actors : life'[g] = "gone" <=> life[g] = "gone",
         made' # made => /\ made' = made + 1 /\ made' \in Actors
                         /\ made # 0 => ~ Live(made)
  PROVE  UNCHANGED Server!vars
<1>1. Waiting' = Waiting /\ Dropped' = Dropped
  <2>1. \A g \in Actors : inbox[g] = <<>> => \A c \in Callers : c \notin Senders(inbox[g])
    BY DEF Senders
  <2>2. \A c \in Callers : c \in Waiting' <=> c \in Waiting
    BY <2>1 DEF Waiting
  <2>3. Dropped' = Dropped
    BY DEF Dropped
  <2> QED
    BY <2>2, <2>3 DEF Waiting
<1>2. (IF made' = 0 THEN Nobody ELSE busy'[made']) = (IF made = 0 THEN Nobody ELSE busy[made])
  BY DEF TypeOK, IInv, ActorInv, MessageInv, Live, Actors
<1> QED
  BY <1>1, <1>2 DEF Server!vars

\* Only the actor made last has callers that wait for it.
LEMMA LastActorServes ==
  ASSUME TypeOK, IInv
  PROVE  /\ \A g \in Actors : Live(g) => g = made /\ Waiting = Senders(inbox[g])
         /\ made = 0 \/ ~ Live(made) => Waiting = {}
         /\ \A g \in Actors : \A c \in Senders(inbox[g]) :
              /\ c \in Callers /\ pc[c] \in {"wait", "start"}
              /\ c # Nobody /\ c # busy[g] /\ with[c] = g
<1>1. \A g \in Actors : inbox[g] \in Seq(Callers)
  BY DEF TypeOK
<1>2. \A g \in Actors : \A c \in Senders(inbox[g]) :
        /\ c \in Callers /\ pc[c] \in {"wait", "start"}
        /\ c # Nobody /\ c # busy[g] /\ with[c] = g
  BY <1>1 DEF IInv, MessageInv, Senders
<1>3. \A g \in Actors : Live(g) => g = made
  BY DEF TypeOK, IInv, ActorInv, Live, Actors
<1>4. made \in Actors \/ made = 0
  BY DEF TypeOK, Actors
<1>5. ASSUME NEW g \in Actors, Live(g) PROVE Waiting = Senders(inbox[g])
  BY <1>2, <1>3, <1>5 DEF Waiting
<1>6. made = 0 \/ ~ Live(made) => Waiting = {}
  BY <1>3, <1>4 DEF Waiting, Actors
<1> QED
  BY <1>2, <1>3, <1>5, <1>6

\* CreateMatch asks the new actor to start.
LEMMA CreateAsks ==
  ASSUME TypeOK, IInv, NEW c \in Callers, Create(c)
  PROVE  Server!Ask(c)
<1>1. /\ made' = made + 1 /\ made' \in Actors /\ life[made'] = "none" /\ busy' = busy
      /\ life' = [life EXCEPT ![made'] = "up"]
      /\ inbox' = [inbox EXCEPT ![made'] = <<c>>]
  BY DEF Create, Make, TypeOK, Actors, IInv, ActorInv
<1>2. pc[c] = "idle" /\ lock = Nobody /\ table = 0
  BY DEF Create, At
<1>3. made = 0 \/ ~ Live(made)
  BY <1>2 DEF IInv, ActorInv, Users
<1>4. Waiting = {} /\ c \notin Dropped /\ c # Nobody
  BY <1>2, <1>3, LastActorServes DEF Dropped
<1>5. \A g \in Actors : Live(g)' <=> g = made'
  BY <1>1, <1>3 DEF TypeOK, IInv, ActorInv, Live, Actors
<1>6. Waiting' = {c}
  BY <1>1, <1>5, SendersFacts DEF Waiting, TypeOK
<1>7. Dropped' = Dropped
  BY <1>1 DEF Dropped, TypeOK
<1>8. /\ (IF made = 0 THEN Nobody ELSE busy[made]) = Nobody
      /\ (IF made' = 0 THEN Nobody ELSE busy'[made']) = Nobody
  <2>1. \A g \in Actors : ~ Live(g) => busy[g] = Nobody
    BY DEF IInv, MessageInv
  <2>2. made # 0 => made \in Actors
    BY DEF TypeOK, Actors
  <2> QED
    BY <1>1, <1>3, <2>1, <2>2 DEF Live
<1> QED
  BY <1>4, <1>6, <1>7, <1>8 DEF Server!Ask

\* A message reaches the inbox of the last actor, or of one that has ended.
LEMMA PostAsks ==
  ASSUME TypeOK, IInv, NEW c \in Callers, Post(c)
  PROVE  Server!Ask(c)
<1> DEFINE g == with[c]
           q == inbox[g]
<1>1. /\ g \in Actors /\ q \in Seq(Callers) /\ pc[c] = "post"
      /\ life[g] # "none" /\ c # Nobody
      /\ inbox' = [inbox EXCEPT ![g] = Append(q, c)]
      /\ UNCHANGED <<made, life, busy>>
  BY DEF Post, At, TypeOK, Users, Actors, IInv, ActorInv, Goto
<1>2. c \notin Waiting /\ c \notin Dropped /\ \A h \in Actors : busy[h] # c
  BY <1>1, LastActorServes DEF Waiting, Dropped, IInv, MessageInv
<1>3. (IF made = 0 THEN Nobody ELSE busy[made]) # c
  BY <1>1, <1>2 DEF TypeOK, Actors
<1>4. \A h \in Actors : Live(h)' <=> Live(h)
  BY <1>1 DEF Live
<1>5. Senders(inbox'[g]) = Senders(inbox[g]) \cup {c}
  BY <1>1, SendersFacts DEF TypeOK
<1>6. \A h \in Actors \ {g} : inbox'[h] = inbox[h]
  BY <1>1 DEF TypeOK
<1> HIDE DEF g, q
<1>7. CASE Live(g)
  <2>1. Waiting' = Waiting \cup {c}
    BY <1>1, <1>4, <1>5, <1>6, <1>7 DEF Waiting
  <2>2. Dropped' = Dropped
    BY <1>1, <1>6, <1>7 DEF Dropped, Live
  <2> QED
    BY <1>1, <1>2, <1>3, <2>1, <2>2 DEF Server!Ask
<1>8. CASE ~ Live(g)
  <2>1. life[g] = "gone"
    BY <1>1, <1>8 DEF TypeOK, Live
  <2>2. Dropped' = Dropped \cup {c}
    BY <1>1, <1>5, <1>6, <2>1 DEF Dropped
  <2>3. Waiting' = Waiting
    BY <1>1, <1>4, <1>6, <1>8 DEF Waiting
  <2> QED
    BY <1>1, <1>2, <1>3, <2>2, <2>3 DEF Server!Ask
<1> QED
  BY <1>7, <1>8

\* The last actor takes one call when it has none in hand.
LEMMA TakeTakes ==
  ASSUME TypeOK, IInv, NEW g \in Actors, Take(g)
  PROVE  \E c \in Callers : Server!Take(c)
<1> DEFINE q == inbox[g]
<1>1. /\ q \in Seq(Callers) /\ q # <<>> /\ busy[g] = Nobody /\ Live(g)
      /\ inbox' = [inbox EXCEPT ![g] = Tail(q)]
      /\ busy' = [busy EXCEPT ![g] = Head(q)]
      /\ UNCHANGED <<made, life>>
  BY DEF Take, Waits, TypeOK
<1>2. \A i \in 1 .. Len(q), j \in 1 .. Len(q) : q[i] = q[j] => i = j
  BY DEF IInv, MessageInv
<1>3. /\ Head(q) \in Senders(inbox[g])
      /\ Senders(Tail(q)) = Senders(inbox[g]) \ {Head(q)}
  BY <1>1, <1>2, SendersFacts
<1>4. g = made /\ made # 0 /\ Waiting = Senders(inbox[g]) /\ Senders(inbox[g]) \subseteq Callers
  BY <1>1, LastActorServes DEF Actors
<1>5. \A h \in Actors \ {g} : inbox'[h] = inbox[h]
  BY <1>1 DEF TypeOK
<1>6. inbox'[g] = Tail(q) /\ busy'[g] = Head(q)
  BY <1>1 DEF TypeOK
<1>7. \A h \in Actors : Live(h)' <=> h = g
  BY <1>1, <1>4, LastActorServes DEF Live
<1> HIDE DEF q
<1>8. Waiting' = Waiting \ {Head(q)}
  BY <1>3, <1>4, <1>6, <1>7 DEF Waiting
<1>9. Dropped' = Dropped
  BY <1>1, <1>5 DEF Dropped, Live
<1> QED
  BY <1>1, <1>3, <1>4, <1>6, <1>8, <1>9 DEF Server!Take

\* Its reply ends the call.
LEMMA AnswerAnswers ==
  ASSUME TypeOK, IInv, NEW g \in Actors, NEW ok \in BOOLEAN, Answer(g, ok)
  PROVE  Server!Answer
<1>1. /\ busy' = [busy EXCEPT ![g] = Nobody] /\ busy[g] # Nobody /\ Live(g)
      /\ UNCHANGED <<made, life, inbox>>
  BY DEF Answer
<1>2. g = made /\ made # 0
  BY <1>1, LastActorServes DEF Actors
<1>3. UNCHANGED <<Waiting, Dropped>>
  BY <1>1 DEF Waiting, Dropped, Live
<1> QED
  BY <1>1, <1>2, <1>3 DEF Server!Answer, TypeOK

\* The actor that ends drops what is in its inbox.
LEMMA ExitReplaces ==
  ASSUME TypeOK, IInv, NEW g \in Actors, Exit(g)
  PROVE  Server!Replace
<1>1. /\ Live(g) /\ busy[g] = Nobody /\ life' = [life EXCEPT ![g] = "gone"]
      /\ UNCHANGED <<made, inbox, busy>>
  BY DEF Exit, Waits
<1>2. g = made /\ made # 0 /\ Waiting = Senders(inbox[g]) /\ Senders(inbox[g]) \subseteq Callers
  BY <1>1, LastActorServes DEF Actors
<1>3. \A h \in Actors : ~ Live(h)'
  BY <1>1, <1>2, LastActorServes DEF Live, TypeOK
<1>4. Waiting' = {}
  BY <1>3 DEF Waiting
<1>5. Dropped' = Dropped \cup Senders(inbox[g])
  BY <1>1, <1>2 DEF Dropped, TypeOK
<1> QED
  BY <1>1, <1>2, <1>4, <1>5 DEF Server!Replace

\* The server begins idle.
LEMMA ServerInit == Init => Server!Init
<1> SUFFICES ASSUME Init PROVE Server!Init
  OBVIOUS
<1>1. Waiting = {} /\ Dropped = {}
  BY DEF Init, Waiting, Dropped, Live
<1> QED
  BY <1>1 DEF Init, Server!Init

\* Every step is a step of the server or invisible to it.
LEMMA ServerNext ==
  TypeOK /\ IInv /\ [Next]_vars => [Server!Next]_(Server!vars)
<1> SUFFICES ASSUME TypeOK, IInv, [Next]_vars
             PROVE  Server!Next \/ UNCHANGED Server!vars
  OBVIOUS
<1>1. ASSUME NEW c \in Callers, Create(c) \/ Post(c)
      PROVE  Server!Next
  BY <1>1, CreateAsks, PostAsks DEF Server!Next
<1>2. ASSUME NEW g \in Actors,
             Take(g) \/ (\E ok \in BOOLEAN : Answer(g, ok)) \/ Exit(g)
      PROVE  Server!Next
  BY <1>2, TakeTakes, AnswerAnswers, ExitReplaces DEF Server!Next
<1>3. ASSUME NEW c \in Callers,
             Find(c) \/ Enter(c) \/ LoadFails(c) \/ Created(c) \/ Stopped(c)
      PROVE  UNCHANGED Server!vars
  BY <1>3, SameServer
     DEF Find, Enter, LoadFails, Created, Stopped, Delete, Live
<1>4. ASSUME NEW c \in Callers, Load(c)
      PROVE  UNCHANGED Server!vars
  <2>1. /\ made' = made + 1 /\ made' \in Actors /\ life[made'] = "none"
        /\ life' = [life EXCEPT ![made'] = "up"] /\ busy' = busy
        /\ inbox' = [inbox EXCEPT ![made'] = <<>>]
    BY <1>4 DEF Load, Make, TypeOK, Actors, IInv, ActorInv
  <2>2. inbox' = inbox
    BY <2>1 DEF TypeOK, IInv, MessageInv
  <2>3. made # 0 => ~ Live(made)
    BY <1>4
       DEF Load, At, TypeOK, IInv, LockInv, ActorInv, Users, Starting,
           Stopping
  <2> QED
    BY <2>1, <2>2, <2>3, SameServer DEF Live, TypeOK
<1>5. ASSUME NEW c \in Callers, Refused(c)
      PROVE  UNCHANGED Server!vars
  <2>1. /\ life[with[c]] = "up" /\ life' = [life EXCEPT ![with[c]] = "cancelled"]
        /\ UNCHANGED <<made, inbox, busy>>
    BY <1>5 DEF Refused, At, TypeOK, IInv, ActorInv, Users, Starting
  <2> QED
    BY <2>1, SameServer DEF Live, TypeOK
<1>6. ASSUME NEW u \in Users, NEW p, Cancel(u, p)
      PROVE  UNCHANGED Server!vars
  <2>1. /\ life[table] = "up" /\ life' = [life EXCEPT ![table] = "cancelled"]
        /\ UNCHANGED <<made, inbox, busy>>
    BY <1>6 DEF Cancel, TypeOK, IInv, ActorInv
  <2> QED
    BY <2>1, SameServer DEF Live, TypeOK
<1>7. ASSUME NEW from, NEW during, NEW after, Shutdown(from, during, after)
      PROVE  UNCHANGED Server!vars
  <2>1. CASE Cancel(Main, during)
    BY <1>6, <2>1 DEF Users
  <2>2. CASE ~ Cancel(Main, during)
    BY <1>7, <2>2, SameServer DEF Shutdown, Live
  <2> QED
    BY <2>1, <2>2
<1>8. CASE Closed \/ Returned
  BY <1>8, SameServer DEF Closed, Returned, Delete, Live
<1>9. CASE UNCHANGED vars
  BY <1>9, SameServer DEF vars, Live
<1> QED
  BY <1>1, <1>2, <1>3, <1>4, <1>5, <1>6, <1>7, <1>8, <1>9
     DEF Next, RemoveActor, Signal, Return, Users

\* The registry and the actors it makes, stops and makes again handle the calls
\* of all goroutines one at a time, each at most once.
THEOREM CallsAreSerial == Spec => ImplementsSerialServer
<1>1. Init => Server!Init
  BY ServerInit
<1>2. TypeOK /\ IInv /\ [Next]_vars => [Server!Next]_(Server!vars)
  BY ServerNext
<1> QED
  BY <1>1, <1>2, Invariant, PTL DEF Spec, ImplementsSerialServer, Server!Spec
=============================================================================
