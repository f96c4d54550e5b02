----------------------------- MODULE ClientProofs -----------------------------
(***************************************************************************)
(* What the socket delivers, for any number of windows, any length of the  *)
(* queue and any number of crashes: the client is known before anything is *)
(* believed at its word, and what the daemon believes never goes back to   *)
(* something older.                                                        *)
(***************************************************************************)
EXTENDS Client, TLAPS

USE DEF At, Goto

\* A client can only be connected to a daemon that is through with its socket.
Connection ==
    /\ conn <= life
    /\ life = 0 => dpc = "down"
    /\ file = "open" => dpc = "recv"
    /\ PeerAlive => dpc = "recv"

\* The pid of client m is one of those stored (h), or is in queue q before
\* place i.
Announced(h, q, m, i) ==
    \/ m \in h
    \/ \E j \in 1..Len(q) : j < i /\ q[j].to = "client" /\ q[j].from = m

\* Whoever may still deliver news has announced itself before.
AnnouncedFirst ==
    /\ \A i \in 1..Len(queue) : queue[i].to = "fg" => Announced(heard, queue, queue[i].from, i)
    /\ cpc \in {"ask", "sendFg"} /\ PeerAlive => Announced(heard, queue, me, Len(queue) + 1)
    /\ heard # {} => state.client # NoPid
    /\ state.fg # NoPid => source \in heard

\* p was in the foreground at place i of the trail, unless it is NoPid.
Seen(p, i) == i \in 1..Len(trail) /\ p \in {trail[i], NoPid}

\* All the news under way is true, in order, and no older than the last.
InOrder ==
    /\ shown = trail[Len(trail)]
    /\ place \in 1..Len(trail)
    /\ \A i \in 1..Len(queue) : queue[i].to = "fg" =>
        /\ Seen(queue[i].pid, queue[i].at)
        /\ place <= queue[i].at
        /\ \A j \in 1..Len(queue) : j > i /\ queue[j].to = "fg" =>
            queue[i].at <= queue[j].at
    /\ cpc = "sendFg" =>
        /\ Seen(answer.pid, answer.at)
        /\ place <= answer.at
        /\ \A i \in 1..Len(queue) : queue[i].to = "fg" => queue[i].at <= answer.at

------------------------------------------------------------------------------
(* Types.                                                                   *)

\* The messages, by what they tell.
LEMMA Messages ==
    ASSUME NEW m \in Message
    PROVE  /\ m.to \in {"client", "fg"} /\ m.from \in Nat /\ m.at \in Nat
           /\ m.to = "client" => m.pid \in Nat /\ m.pid # NoPid
           /\ m.to = "fg" => m.pid \in App \union {NoPid}
  BY NoPidAssumption DEF Message

\* What Receive leaves in the queue.
LEMMA TailOfQueue ==
    ASSUME NEW q \in Seq(Message), q # <<>>
    PROVE  /\ Head(q) = q[1] /\ Head(q) \in Message
           /\ Tail(q) \in Seq(Message) /\ Len(Tail(q)) = Len(q) - 1
           /\ Len(q) \in Nat \ {0}
           /\ \A i \in 1..Len(Tail(q)) : Tail(q)[i] = q[i + 1]
  OBVIOUS

\* What Send leaves in the queue.
LEMMA LongerQueue ==
    ASSUME NEW q \in Seq(Message), NEW m \in Message
    PROVE  /\ Append(q, m) \in Seq(Message) /\ Len(q) \in Nat
           /\ Len(Append(q, m)) = Len(q) + 1
           /\ \A i \in 1..Len(q) : Append(q, m)[i] = q[i]
           /\ Append(q, m)[Len(q) + 1] = m
  OBVIOUS

LEMMA InitType == Init => TypeOK
  BY BudgetAssumption, QueueLenAssumption DEF Init, TypeOK, Answer, NoState, Kinds

LEMMA SpendType == ASSUME TypeOK, NEW k \in Kinds, Spend(k) PROVE left' \in [Kinds -> Nat]
  BY DEF TypeOK, Spend

LEMMA SendType ==
    ASSUME TypeOK, NEW m \in Message, NEW l, Send(m, l)
    PROVE  queue' \in Seq(Message) /\ Len(queue') <= QueueLen /\ cpc' \in {l, "sleep"}
<1>1. CASE queue' = Append(queue, m) /\ Len(queue) < QueueLen /\ cpc' = l
  BY <1>1, LongerQueue, QueueLenAssumption DEF TypeOK
<1>2. CASE UNCHANGED queue /\ cpc' = "sleep"
  BY <1>2 DEF TypeOK
<1> QED
  BY <1>1, <1>2 DEF Send

LEMMA NextType == TypeOK /\ [Next]_vars => TypeOK'
<1> SUFFICES ASSUME TypeOK, [Next]_vars PROVE TypeOK'
  OBVIOUS
<1> USE DEF TypeOK
<1>1. ASSUME NEW p \in App, Show(p) PROVE TypeOK'
  BY <1>1, SpendType DEF Show, Kinds, clientVars, daemonVars, ghostVars
<1>2. CASE Kill
  BY <1>2, SpendType DEF Kill, Kinds, daemonVars, ghostVars, Answer
<1>3. CASE ClientStep
  <2> USE DEF clientFrame, daemonVars, ghostVars
  <2>1. CASE Connect
    BY <2>1 DEF Connect
  <2>2. CASE SendPid
    <3>1. ClientPid \in Message
      BY DEF ClientPid, Message
    <3> QED
      BY <2>2, <3>1, SendType DEF SendPid
  <2>3. CASE Ask
    <3>1. left' \in [Kinds -> Nat]
      BY <2>3, SpendType DEF Ask, Kinds
    <3>2. Len(trail) \in Nat
      OBVIOUS
    <3>3. answer' \in Answer
      BY <2>3, <3>2 DEF Ask, Answer
    <3> QED
      BY <2>3, <3>1, <3>3 DEF Ask
  <2>4. CASE SendFg
    <3>1. ForegroundPid \in Message
      BY DEF ForegroundPid, Message, Answer
    <3> QED
      BY <2>4, <3>1, SendType DEF SendFg
  <2>5. CASE Wake
    BY <2>5 DEF Wake
  <2> QED
    BY <1>3, <2>1, <2>2, <2>3, <2>4, <2>5 DEF ClientStep
<1>4. CASE DaemonStep
  <2> USE DEF daemonFrame, worldVars, clientVars, ghostVars
  <2>1. CASE Remove \/ Bind \/ Chmod
    <3>1. <<>> \in Seq(Message) /\ Len(<<>>) <= QueueLen
      BY QueueLenAssumption
    <3> QED
      BY <2>1, <3>1 DEF Remove, Bind, Chmod
  <2>2. CASE Receive
    <3>1. queue # <<>> /\ queue' = Tail(queue)
      BY <2>2 DEF Receive, Taken
    <3>2. Head(queue) \in Message /\ queue' \in Seq(Message) /\ Len(queue') <= QueueLen
      BY <3>1, TailOfQueue, QueueLenAssumption
    <3> DEFINE m == Head(queue)
    <3>3. /\ m.to \in {"client", "fg"} /\ m.from \in Nat /\ m.at \in Nat
          /\ m.to = "client" => m.pid \in Nat /\ m.pid # NoPid
          /\ m.to = "fg" => m.pid \in App \union {NoPid}
      BY <3>2, Messages
    <3>4. CASE m.to = "client"
      BY <2>2, <3>2, <3>3, <3>4 DEF Receive, Taken
    <3>5. CASE m.to = "fg"
      BY <2>2, <3>2, <3>3, <3>5 DEF Receive, Taken
    <3> QED
      BY <3>3, <3>4, <3>5
  <2> QED
    BY <1>4, <2>1, <2>2 DEF DaemonStep
<1>5. CASE Down
  BY <1>5, SpendType, QueueLenAssumption DEF Down, Kinds, NoState, clientVars
<1>6. CASE Start
  BY <1>6 DEF Start, worldVars, clientVars, ghostVars
<1>7. CASE UNCHANGED vars
  BY <1>7 DEF vars, worldVars, clientVars, daemonVars, ghostVars
<1> QED
  BY <1>1, <1>2, <1>3, <1>4, <1>5, <1>6, <1>7 DEF Next

\* Every variable stays in its range, and the queue within its bound
\* (client.rs, main.rs:296-312).
THEOREM TypeCorrect == Spec => []TypeOK
  BY InitType, NextType, PTL DEF Spec

------------------------------------------------------------------------------
(* The client is known first.                                               *)

LEMMA InitConnection == Init => Connection
  BY DEF Init, Connection, PeerAlive

\* A daemon that ends takes its socket with it, and the next one has another.
LEMMA NextConnection == TypeOK /\ Connection /\ [Next]_vars => Connection'
<1> SUFFICES ASSUME TypeOK, Connection, [Next]_vars PROVE Connection'
  OBVIOUS
<1> USE DEF TypeOK, Connection, PeerAlive
<1>1. ASSUME NEW p \in App, Show(p) PROVE Connection'
  BY <1>1 DEF Show, clientVars, daemonVars
<1>2. CASE Kill
  BY <1>2 DEF Kill, daemonVars
<1>3. CASE ClientStep
  BY <1>3 DEF ClientStep, Connect, SendPid, Ask, SendFg, Wake, clientFrame, daemonVars
<1>4. CASE DaemonStep
  BY <1>4 DEF DaemonStep, Remove, Bind, Chmod, Receive, daemonFrame, clientVars
<1>5. CASE Down
  BY <1>5 DEF Down, clientVars
<1>6. CASE Start
  BY <1>6 DEF Start, clientVars
<1>7. CASE UNCHANGED vars
  BY <1>7 DEF vars, clientVars, daemonVars
<1> QED
  BY <1>1, <1>2, <1>3, <1>4, <1>5, <1>6, <1>7 DEF Next

LEMMA InitAnnounced == Init => AnnouncedFirst
<1> SUFFICES ASSUME Init PROVE AnnouncedFirst
  OBVIOUS
<1>1. Len(queue) = 0 /\ heard = {} /\ state.fg = NoPid /\ cpc = "connect"
  BY DEF Init, NoState
<1> QED
  BY <1>1 DEF AnnouncedFirst

\* A message that is sent is announced if the client is, or is the
\* announcement.
LEMMA SendAnnounced ==
    ASSUME TypeOK, AnnouncedFirst, NEW m \in Message, NEW l, Send(m, l),
           m.from = me, UNCHANGED <<me, conn, life, dpc, state, heard, source>>,
           \/ m.to = "client"
           \/ m.to = "fg" /\ (PeerAlive => Announced(heard, queue, me, Len(queue) + 1)) /\ l = "sleep"
    PROVE  AnnouncedFirst'
<1> USE DEF TypeOK, PeerAlive
<1>1. CASE UNCHANGED queue /\ cpc' = "sleep"
  BY <1>1 DEF AnnouncedFirst, Announced
<1>2. CASE PeerAlive /\ queue' = Append(queue, m) /\ cpc' = l
  <2> DEFINE n == Len(queue)
  <2>1. /\ n \in Nat /\ Len(queue') = n + 1
        /\ \A i \in 1..n : queue'[i] = queue[i]
        /\ queue'[n + 1] = m
    BY <1>2, LongerQueue
  <2> HIDE DEF n
  <2>2. \A k \in Nat, i \in 1..(n + 1) : Announced(heard, queue, k, i) => Announced(heard', queue', k, i)
    BY <2>1 DEF Announced, n
  <2>3. ASSUME NEW i \in 1..(n + 1), queue'[i].to = "fg"
        PROVE  Announced(heard', queue', queue'[i].from, i)
    <3>1. CASE i \in 1..n
      <4>1. queue[i] \in Message /\ queue[i].from \in Nat
        BY <3>1, Messages DEF n
      <4>2. Announced(heard, queue, queue[i].from, i)
        BY <2>1, <2>3, <3>1 DEF AnnouncedFirst, n
      <4> QED
        BY <2>1, <2>2, <3>1, <4>1, <4>2 DEF Announced
    <3>2. CASE i = n + 1
      <4>1. Announced(heard, queue, me, n + 1)
        BY <1>2, <2>1, <2>3, <3>2 DEF n
      <4> QED
        BY <2>1, <2>2, <3>2, <4>1 DEF Announced
    <3> QED
      BY <2>1, <3>1, <3>2
  <2>4. ASSUME cpc' \in {"ask", "sendFg"}
        PROVE  Announced(heard', queue', me', Len(queue') + 1)
    <3>1. m.to = "client"
      BY <1>2, <2>4
    <3> QED
      BY <2>1, <3>1 DEF Announced
  <2> QED
    BY <2>1, <2>3, <2>4 DEF AnnouncedFirst
<1> QED
  BY <1>1, <1>2 DEF Send

\* Whoever is first in the queue is heard next.
LEMMA ReceiveAnnounced ==
    ASSUME TypeOK, AnnouncedFirst, Receive PROVE AnnouncedFirst'
<1> USE DEF TypeOK
<1> DEFINE m == Head(queue)
           n == Len(queue)
<1>1. queue # <<>> /\ queue' = Tail(queue)
  BY DEF Receive, Taken
<1>2. /\ m = queue[1] /\ m \in Message /\ n \in Nat \ {0} /\ Len(queue') = n - 1
      /\ \A i \in 1..(n - 1) : queue'[i] = queue[i + 1]
  BY <1>1, TailOfQueue
<1>3. /\ m.to \in {"client", "fg"} /\ m.from \in Nat
      /\ m.to = "client" => m.pid \in Nat /\ m.pid # NoPid
  BY <1>2, Messages
<1>4. /\ heard' = heard \union (IF m.to = "client" THEN {m.from} ELSE {})
      /\ UNCHANGED <<cpc, conn, dpc, life, me>>
  BY <1>3 DEF Receive, Taken, daemonFrame, clientVars
<1> HIDE DEF m, n
<1>5. \A k \in Nat, i \in 1..n :
        Announced(heard, queue, k, i + 1) => Announced(heard', queue', k, i)
  <2> SUFFICES ASSUME NEW k \in Nat, NEW i \in 1..n, Announced(heard, queue, k, i + 1)
               PROVE  Announced(heard', queue', k, i)
    OBVIOUS
  <2>1. CASE k \in heard
    BY <1>4, <2>1 DEF Announced
  <2>2. ASSUME NEW j \in 1..n, j < i + 1, queue[j].to = "client", queue[j].from = k
        PROVE  Announced(heard', queue', k, i)
    <3>1. CASE j = 1
      BY <1>2, <1>4, <2>2, <3>1 DEF Announced
    <3>2. CASE j > 1
      <4>1. j - 1 \in 1..(n - 1) /\ j - 1 < i /\ queue'[j - 1] = queue[j]
        BY <1>2, <2>2, <3>2
      <4> QED
        BY <1>2, <2>2, <4>1 DEF Announced
    <3> QED
      BY <2>2, <3>1, <3>2, <1>2
  <2> QED
    BY <2>1, <2>2 DEF Announced, n
<1>6. ASSUME NEW i \in 1..Len(queue'), queue'[i].to = "fg"
      PROVE  Announced(heard', queue', queue'[i].from, i)
  <2>1. i \in 1..n /\ i + 1 \in 1..n /\ queue'[i] = queue[i + 1]
    BY <1>2, <1>6
  <2>2. queue[i + 1] \in Message
    BY <1>2, <2>1 DEF n
  <2>3. queue[i + 1].from \in Nat
    BY <2>2, Messages
  <2>4. Announced(heard, queue, queue[i + 1].from, i + 1)
    BY <1>2, <1>6, <2>1 DEF AnnouncedFirst, n
  <2>5. Announced(heard', queue', queue[i + 1].from, i)
    BY <1>5, <2>1, <2>3, <2>4
  <2> QED
    BY <2>1, <2>5
<1>7. ASSUME (cpc \in {"ask", "sendFg"} /\ PeerAlive)'
      PROVE  Announced(heard', queue', me', Len(queue') + 1)
  <2>1. Announced(heard, queue, me, n + 1)
    BY <1>4, <1>7 DEF AnnouncedFirst, PeerAlive, n
  <2>2. Announced(heard', queue', me, n)
    BY <1>2, <1>5, <2>1
  <2> QED
    BY <1>2, <1>4, <2>2
<1>8. (heard # {} => state.client # NoPid)' /\ (state.fg # NoPid => source \in heard)'
  <2>1. CASE m.to = "client"
    BY <1>2, <1>3, <1>4, <2>1 DEF Receive, Taken, AnnouncedFirst, m
  <2>2. CASE m.to = "fg"
    <3>1. ~\E j \in 1..n : j < 1
      BY <1>2
    <3>2. m.from \in heard
      BY <1>2, <2>2, <3>1 DEF AnnouncedFirst, Announced, n
    <3>3. source' = m.from /\ heard' = heard /\ state'.client = state.client
      BY <2>2 DEF Receive, Taken, m
    <3> QED
      BY <3>2, <3>3 DEF AnnouncedFirst
  <2> QED
    BY <1>3, <2>1, <2>2
<1> QED
  BY <1>6, <1>7, <1>8 DEF AnnouncedFirst

LEMMA NextAnnounced ==
    TypeOK /\ Connection /\ AnnouncedFirst /\ [Next]_vars => AnnouncedFirst'
<1> SUFFICES ASSUME TypeOK, Connection, AnnouncedFirst, [Next]_vars
             PROVE  AnnouncedFirst'
  OBVIOUS
<1> USE DEF PeerAlive
<1>1. ASSUME NEW p \in App, Show(p) PROVE AnnouncedFirst'
  BY <1>1 DEF Show, clientVars, daemonVars, ghostVars, AnnouncedFirst, Announced
<1>2. CASE Kill
  BY <1>2 DEF Kill, daemonVars, ghostVars, AnnouncedFirst, Announced
<1>3. CASE ClientStep
  <2> USE DEF clientFrame, daemonVars, ghostVars
  <2>1. CASE Connect \/ Wake
    BY <2>1 DEF Connect, Wake, AnnouncedFirst, Announced
  <2>2. CASE SendPid
    <3>1. ClientPid \in Message /\ ClientPid.to = "client" /\ ClientPid.from = me
      BY DEF ClientPid, Message, TypeOK
    <3> QED
      BY <2>2, <3>1, SendAnnounced DEF SendPid
  <2>3. CASE Ask
    BY <2>3 DEF Ask, AnnouncedFirst, Announced
  <2>4. CASE SendFg
    <3>1. ForegroundPid \in Message /\ ForegroundPid.to = "fg" /\ ForegroundPid.from = me
      BY DEF ForegroundPid, Message, Answer, TypeOK
    <3>2. PeerAlive => Announced(heard, queue, me, Len(queue) + 1)
      BY <2>4 DEF SendFg, AnnouncedFirst
    <3> QED
      BY <2>4, <3>1, <3>2, SendAnnounced DEF SendFg
  <2> QED
    BY <1>3, <2>1, <2>2, <2>3, <2>4 DEF ClientStep
<1>4. CASE DaemonStep
  <2>1. CASE Remove \/ Chmod
    BY <2>1 DEF Remove, Chmod, daemonFrame, clientVars, ghostVars, AnnouncedFirst, Announced
  <2>2. CASE Bind
    <3>1. ~PeerAlive' /\ Len(queue') = 0
      BY <2>2 DEF Bind, daemonFrame, clientVars, Connection
    <3> QED
      BY <2>2, <3>1 DEF Bind, ghostVars, AnnouncedFirst
  <2> QED
    BY <1>4, <2>1, <2>2, ReceiveAnnounced DEF DaemonStep
<1>5. CASE Down
  <2>1. Len(queue') = 0 /\ ~PeerAlive' /\ state'.fg = NoPid /\ heard' = {}
    BY <1>5 DEF Down, NoState
  <2> QED
    BY <2>1 DEF AnnouncedFirst
<1>6. CASE Start
  <2>1. ~PeerAlive'
    BY <1>6 DEF Start, clientVars, Connection, TypeOK
  <2> QED
    BY <1>6, <2>1 DEF Start, ghostVars, AnnouncedFirst, Announced
<1>7. CASE UNCHANGED vars
  BY <1>7 DEF vars, clientVars, daemonVars, ghostVars, AnnouncedFirst, Announced
<1> QED
  BY <1>1, <1>2, <1>3, <1>4, <1>5, <1>6, <1>7 DEF Next

\* Whenever the daemon believes something, it knows the client it has that from
\* (client.rs:14-31).
THEOREM KnownFirst == Spec => []ClientKnownFirst
<1>1. Init => TypeOK /\ Connection /\ AnnouncedFirst
  BY InitType, InitConnection, InitAnnounced
<1>2. TypeOK /\ Connection /\ AnnouncedFirst /\ [Next]_vars
        => (TypeOK /\ Connection /\ AnnouncedFirst)'
  BY NextType, NextConnection, NextAnnounced
<1>3. AnnouncedFirst => ClientKnownFirst
  BY DEF AnnouncedFirst, ClientKnownFirst
<1> QED
  BY <1>1, <1>2, <1>3, PTL DEF Spec

------------------------------------------------------------------------------
(* Client implements ForegroundReport.                                      *)

LEMMA InitInOrder == Init => InOrder
<1> SUFFICES ASSUME Init PROVE InOrder
  OBVIOUS
<1>1. /\ Len(queue) = 0 /\ place = 1 /\ cpc = "connect"
      /\ Len(trail) = 1 /\ trail[1] = shown
  BY DEF Init
<1> QED
  BY <1>1 DEF InOrder

\* What was seen stays seen, however long the trail gets.
LEMMA SeenStays ==
    ASSUME TypeOK, NEW p \in App, trail' = Append(trail, p), NEW q, NEW i, Seen(q, i)
    PROVE  /\ i \in 1..Len(trail') /\ q \in {trail'[i], NoPid}
           /\ Len(trail') = Len(trail) + 1 /\ Len(trail) \in Nat
  BY DEF TypeOK, Seen

\* A message goes to the end of the queue, and has the youngest news if any.
LEMMA SendInOrder ==
    ASSUME TypeOK, InOrder, NEW m \in Message, NEW l, Send(m, l), l # "sendFg",
           UNCHANGED <<shown, place, trail, answer>>,
           m.to = "fg" => m.pid = answer.pid /\ m.at = answer.at /\ cpc = "sendFg"
    PROVE  InOrder'
<1>1. CASE UNCHANGED queue /\ cpc' = "sleep"
  BY <1>1 DEF InOrder, Seen
<1>2. CASE queue' = Append(queue, m) /\ cpc' = l
  <2> DEFINE n == Len(queue)
  <2>1. /\ n \in Nat /\ Len(queue') = n + 1
        /\ \A i \in 1..n : queue'[i] = queue[i]
        /\ queue'[n + 1] = m
    BY <1>2, LongerQueue DEF TypeOK
  <2>2. ASSUME NEW i \in 1..(n + 1), queue'[i].to = "fg"
        PROVE  /\ Seen(queue'[i].pid, queue'[i].at) /\ place <= queue'[i].at
               /\ \A j \in 1..(n + 1) : j > i /\ queue'[j].to = "fg" =>
                    queue'[i].at <= queue'[j].at
    <3> HIDE DEF n
    <3>1. CASE i = n + 1
      BY <2>1, <2>2, <3>1 DEF InOrder
    <3>2. CASE i \in 1..n
      <4>1. /\ Seen(queue[i].pid, queue[i].at) /\ place <= queue[i].at
            /\ \A j \in 1..n : j > i /\ queue[j].to = "fg" => queue[i].at <= queue[j].at
        BY <2>1, <2>2, <3>2 DEF InOrder, n
      <4>2. m.to = "fg" => queue[i].at <= m.at
        BY <2>1, <2>2, <3>2 DEF InOrder, n
      <4> QED
        BY <2>1, <2>2, <3>2, <4>1, <4>2
    <3> QED
      BY <2>1, <3>1, <3>2
  <2> QED
    BY <1>2, <2>1, <2>2 DEF InOrder, Seen
<1> QED
  BY <1>1, <1>2 DEF Send

\* The first in the queue is the oldest, and what is behind it is not older.
LEMMA ReceiveInOrder ==
    ASSUME TypeOK, InOrder, Receive
    PROVE  /\ InOrder'
           /\ \/ place' = place /\ state'.fg = state.fg
              \/ place <= place' /\ Seen(state'.fg, place')
<1> DEFINE m == Head(queue)
           n == Len(queue)
<1>1. queue # <<>> /\ queue' = Tail(queue)
  BY DEF Receive, Taken
<1>2. /\ m = queue[1] /\ m \in Message /\ n \in Nat \ {0} /\ Len(queue') = n - 1
      /\ \A i \in 1..(n - 1) : queue'[i] = queue[i + 1]
  BY <1>1, TailOfQueue DEF TypeOK
<1>3. m.to \in {"client", "fg"} /\ m.at \in Nat
  BY <1>2, Messages
<1>4. /\ UNCHANGED <<cpc, answer, trail, shown>>
      /\ m.to = "client" => place' = place /\ state'.fg = state.fg
      /\ m.to = "fg" => place' = m.at /\ state'.fg = m.pid
  BY <1>3 DEF Receive, Taken, daemonFrame, clientVars, worldVars, TypeOK
<1> HIDE DEF m, n
<1>5. ASSUME NEW i \in 1..(n - 1), queue'[i].to = "fg"
      PROVE  /\ Seen(queue'[i].pid, queue'[i].at) /\ place <= queue'[i].at
             /\ \A j \in 1..(n - 1) : j > i /\ queue'[j].to = "fg" =>
                  queue'[i].at <= queue'[j].at
             /\ m.to = "fg" => m.at <= queue'[i].at
  <2>1. i + 1 \in 1..n /\ i + 1 > 1 /\ 1 \in 1..n /\ queue'[i] = queue[i + 1]
    BY <1>2
  <2>2. /\ Seen(queue[i + 1].pid, queue[i + 1].at) /\ place <= queue[i + 1].at
        /\ \A j \in 1..n : j > i + 1 /\ queue[j].to = "fg" => queue[i + 1].at <= queue[j].at
    BY <1>5, <2>1 DEF InOrder, n
  <2>3. ASSUME NEW j \in 1..(n - 1), j > i, queue'[j].to = "fg"
        PROVE  queue'[i].at <= queue'[j].at
    <3>1. j + 1 \in 1..n /\ j + 1 > i + 1 /\ queue'[j] = queue[j + 1]
      BY <1>2, <2>3
    <3> QED
      BY <2>1, <2>2, <2>3, <3>1
  <2>4. m.to = "fg" => m.at <= queue[i + 1].at
    BY <1>2, <1>5, <2>1 DEF InOrder, n
  <2> QED
    BY <2>1, <2>2, <2>3, <2>4
<1>6. /\ place' \in 1..Len(trail) /\ place <= place'
      /\ m.to = "fg" => Seen(m.pid, m.at)
  <2>1. m.to = "fg" => Seen(m.pid, m.at) /\ place <= m.at
    BY <1>2 DEF InOrder, n
  <2> QED
    BY <1>3, <1>4, <2>1 DEF InOrder, Seen, TypeOK
<1>7. ASSUME cpc = "sendFg"
      PROVE  /\ Seen(answer.pid, answer.at) /\ place' <= answer.at
             /\ \A i \in 1..(n - 1) : queue'[i].to = "fg" => queue'[i].at <= answer.at
  <2>1. \A i \in 1..n : queue[i].to = "fg" => queue[i].at <= answer.at
    BY <1>7 DEF InOrder, n
  <2>2. ASSUME NEW i \in 1..(n - 1), queue'[i].to = "fg" PROVE queue'[i].at <= answer.at
    <3>1. i + 1 \in 1..n /\ queue'[i] = queue[i + 1]
      BY <1>2
    <3> QED
      BY <2>1, <2>2, <3>1
  <2>3. place' <= answer.at
    BY <1>2, <1>3, <1>4, <1>7, <2>1 DEF InOrder
  <2> QED
    BY <1>7, <2>2, <2>3 DEF InOrder
<1>8. ASSUME NEW i \in 1..(n - 1), queue'[i].to = "fg" PROVE place' <= queue'[i].at
  BY <1>3, <1>4, <1>5, <1>8
<1>9. InOrder'
  BY <1>2, <1>4, <1>5, <1>6, <1>7, <1>8 DEF InOrder, Seen
<1> QED
  BY <1>3, <1>4, <1>6, <1>9

LEMMA NextInOrder == TypeOK /\ InOrder /\ [Next]_vars => InOrder'
<1> SUFFICES ASSUME TypeOK, InOrder, [Next]_vars PROVE InOrder'
  OBVIOUS
<1>1. ASSUME NEW p \in App, Show(p) PROVE InOrder'
  <2>1. /\ trail' = Append(trail, p)
        /\ shown' = p /\ UNCHANGED <<queue, place, answer, cpc>>
    BY <1>1 DEF Show, clientVars, ghostVars
  <2>2. /\ Len(trail') = Len(trail) + 1 /\ Len(trail) \in Nat
        /\ trail'[Len(trail')] = p
    BY <2>1 DEF TypeOK
  <2>3. \A q, i : Seen(q, i) => i \in 1..Len(trail') /\ q \in {trail'[i], NoPid}
    BY <2>1, SeenStays
  <2> QED
    BY <2>1, <2>2, <2>3 DEF InOrder, Seen
<1>2. CASE Kill
  BY <1>2 DEF Kill, daemonVars, ghostVars, InOrder, Seen
<1>3. CASE ClientStep
  <2> USE DEF clientFrame, daemonVars, ghostVars
  <2>1. CASE Connect \/ Wake
    BY <2>1 DEF Connect, Wake, InOrder, Seen
  <2>2. CASE SendPid
    <3>1. ClientPid \in Message /\ ClientPid.to = "client"
      BY DEF ClientPid, Message, TypeOK
    <3> QED
      BY <2>2, <3>1, SendInOrder DEF SendPid
  <2>3. CASE Ask
    <3>1. Len(trail) \in Nat \ {0}
      BY DEF TypeOK
    <3>2. Seen(answer.pid, answer.at)' /\ answer'.at = Len(trail)
      <4>1. answer'.at = Len(trail) /\ answer'.pid \in {shown, NoPid} /\ UNCHANGED trail
        BY <2>3 DEF Ask
      <4> QED
        BY <3>1, <4>1 DEF Seen, InOrder
    <3>3. \A i \in 1..Len(queue) : queue[i].to = "fg" => queue[i].at <= Len(trail)
      BY <3>1 DEF InOrder, Seen
    <3> QED
      BY <2>3, <3>1, <3>2, <3>3 DEF Ask, InOrder, Seen
  <2>4. CASE SendFg
    <3>1. /\ ForegroundPid \in Message /\ ForegroundPid.pid = answer.pid
          /\ ForegroundPid.at = answer.at
      BY DEF ForegroundPid, Message, Answer, TypeOK
    <3> QED
      BY <2>4, <3>1, SendInOrder DEF SendFg
  <2> QED
    BY <1>3, <2>1, <2>2, <2>3, <2>4 DEF ClientStep
<1>4. CASE DaemonStep
  <2>1. CASE Remove \/ Chmod
    BY <2>1 DEF Remove, Chmod, daemonFrame, worldVars, clientVars, ghostVars, InOrder, Seen
  <2>2. CASE Bind
    <3>1. Len(queue') = 0
      BY <2>2 DEF Bind
    <3> QED
      BY <2>2, <3>1 DEF Bind, daemonFrame, worldVars, clientVars, ghostVars, InOrder, Seen
  <2> QED
    BY <1>4, <2>1, <2>2, ReceiveInOrder DEF DaemonStep
<1>5. CASE Down
  <2>1. Len(queue') = 0
    BY <1>5 DEF Down
  <2> QED
    BY <1>5, <2>1 DEF Down, clientVars, InOrder, Seen
<1>6. CASE Start
  BY <1>6 DEF Start, worldVars, clientVars, ghostVars, InOrder, Seen
<1>7. CASE UNCHANGED vars
  BY <1>7 DEF vars, worldVars, clientVars, ghostVars, InOrder, Seen
<1> QED
  BY <1>1, <1>2, <1>3, <1>4, <1>5, <1>6, <1>7 DEF Next

\* What the daemon believes only moves forward along what was true: every step
\* of the client, the socket and the daemon is a step of ForegroundReport or
\* leaves it alone (client.rs:14-31, main.rs:307-311).
THEOREM Implements == Spec => NeverBackwards
<1>1. Init => Report!Init
  BY DEF Init, Report!Init, NoState
<1>2. TypeOK /\ InOrder /\ [Next]_vars => [Report!Next]_Report!vars
  <2> SUFFICES ASSUME TypeOK, InOrder, [Next]_vars PROVE [Report!Next]_Report!vars
    OBVIOUS
  <2>1. ASSUME NEW p \in App, Show(p) PROVE Report!Show
    BY <2>1 DEF Show, daemonVars, ghostVars, Report!Show
  <2>2. CASE Kill
    BY <2>2 DEF Kill, daemonVars, ghostVars, Report!vars
  <2>3. CASE ClientStep
    BY <2>3 DEF ClientStep, Connect, SendPid, Ask, SendFg, Wake, clientFrame,
                daemonVars, ghostVars, Report!vars
  <2>4. CASE Remove \/ Bind \/ Chmod
    BY <2>4 DEF Remove, Bind, Chmod, daemonFrame, worldVars, ghostVars, Report!vars
  <2>5. CASE Receive
    <3>1. UNCHANGED trail
      BY <2>5 DEF Receive, daemonFrame, worldVars
    <3>2. CASE place' = place /\ state'.fg = state.fg
      BY <3>1, <3>2 DEF Report!vars
    <3>3. CASE place <= place' /\ Seen(state'.fg, place')
      <4>1. place' \in place..Len(trail)
        BY <3>3 DEF Seen, TypeOK
      <4> QED
        BY <3>1, <3>3, <4>1 DEF Seen, Report!Learn, Report!Next
    <3> QED
      BY <2>5, <3>2, <3>3, ReceiveInOrder
  <2>6. CASE Down
    BY <2>6 DEF Down, NoState, Report!Forget, Report!Next
  <2>7. CASE Start
    BY <2>7 DEF Start, worldVars, ghostVars, Report!vars
  <2>8. CASE UNCHANGED vars
    BY <2>8 DEF vars, worldVars, daemonVars, ghostVars, Report!vars
  <2> QED
    BY <2>1, <2>2, <2>3, <2>4, <2>5, <2>6, <2>7, <2>8
    DEF Next, DaemonStep, Report!Next
<1>3. TypeOK /\ InOrder /\ [Next]_vars => (TypeOK /\ InOrder)'
  BY NextType, NextInOrder
<1>4. Init => TypeOK /\ InOrder
  BY InitType, InitInOrder
<1> QED
  BY <1>1, <1>2, <1>3, <1>4, PTL DEF Spec, NeverBackwards, Report!Spec

===============================================================================
