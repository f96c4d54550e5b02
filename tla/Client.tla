-------------------------------- MODULE Client --------------------------------
(***************************************************************************)
(* The client (src/src/bin/client.rs) and the socket it reports to         *)
(* (socket_handler, src/src/main.rs).  Every 250 ms the client connects to *)
(* the daemon's socket, sends its own pid, asks the window system which    *)
(* pid is in the foreground, and sends that.  Any of these may fail: the   *)
(* daemon may be down, or replaced by another one while the client is      *)
(* connected to the socket of the first, or be about to give its socket    *)
(* away; the window system may not answer.  A datagram waits in a queue of *)
(* bounded length, and is lost with the daemon.                            *)
(*                                                                         *)
(* What a message does to the processes, and how the socket thread shares  *)
(* the state with the others, is in Daemon.                                *)
(***************************************************************************)
EXTENDS Naturals, Sequences

CONSTANTS
    App,        \* pids of windows
    NoPid,
    QueueLen,   \* net.unix.max_dgram_qlen
    Budget      \* bounds of a run on what the environment does

Kinds == {"show", "mute", "crash", "kill"}

ASSUME BudgetAssumption == Budget \in [Kinds -> Nat]
ASSUME QueueLenAssumption == QueueLen \in Nat \ {0}
ASSUME NoPidAssumption == NoPid \notin App /\ NoPid \notin Nat

VARIABLES
    shown,      \* the pid of the window in the foreground
    left,       \* what the environment may still do
    me,         \* the client's pid (the number of times it was started)
    cpc,        \* where the client is
    conn,       \* the daemon its socket is connected to
    answer,     \* what it has been told is in the foreground
    life,       \* which daemon is or was the last to be running
    dpc,        \* where its socket thread is, "down" if it has ended
    file,       \* the socket's file: "none", "stale", "private" or "open"
    queue,      \* datagrams the daemon has not read
    state,      \* the daemon's State
    trail,      \* history: the windows that have been in the foreground
    place,      \* history: the place in trail of the last news
    heard,      \* history: clients whose pid this daemon has stored
    source      \* history: the client that state.fg came from

clientVars == <<me, cpc, conn, answer>>
daemonVars == <<life, dpc, file, state>>
worldVars == <<shown, left, trail>>
ghostVars == <<place, heard, source>>
vars == <<worldVars, clientVars, daemonVars, queue, ghostVars>>

\* A window seen in the foreground, with its place in trail (history).
Answer == [pid : App \union {NoPid}, at : Nat]

\* SetClientPid { pid } and SetForegroundPid { pid }; at and from are history.
Message == [to : {"client"}, pid : Nat, at : {0}, from : Nat] \union
           [to : {"fg"}, pid : App \union {NoPid}, at : Nat, from : Nat]
ClientPid == [to |-> "client", pid |-> me, at |-> 0, from |-> me]
ForegroundPid == [to |-> "fg", pid |-> answer.pid, at |-> answer.at, from |-> me]

NoState == [fg |-> NoPid, client |-> NoPid]

------------------------------------------------------------------------------
(* The world.                                                               *)

Spend(k) == left[k] > 0 /\ left' = [left EXCEPT ![k] = @ - 1]

\* The user turns to another window.
Show(p) ==
    /\ Spend("show")
    /\ p # shown
    /\ shown' = p /\ trail' = Append(trail, p)
    /\ UNCHANGED <<clientVars, daemonVars, queue, ghostVars>>

\* The client is stopped and started again, with another pid.
Kill ==
    /\ Spend("kill")
    /\ me' = me + 1 /\ cpc' = "connect" /\ conn' = 0
    /\ answer' = [pid |-> NoPid, at |-> 1]
    /\ UNCHANGED <<shown, trail, daemonVars, queue, ghostVars>>

------------------------------------------------------------------------------
(* run(), and main's loop around it.                                        *)

clientFrame == <<shown, trail, me, daemonVars, ghostVars>>

At(l) == cpc = l
Goto(l) == cpc' = l

\* connect needs a file, a daemon behind it and the permission to write.
Connect ==
    /\ At("connect")
    /\ \/ file = "open" /\ conn' = life /\ Goto("sendPid")
       \/ file # "open" /\ conn' = 0 /\ Goto("sleep")
    /\ UNCHANGED <<left, answer, queue, clientFrame>>

PeerAlive == dpc # "down" /\ conn = life

\* Mutant: every message looks for the socket anew.
SendAnew(m, next) ==
    \/ /\ file = "open"
       /\ Len(queue) < QueueLen
       /\ queue' = Append(queue, m)
       /\ Goto(next)
    \/ file # "open" /\ Goto("sleep") /\ UNCHANGED queue

\* Mutant: a queue without bound.
SendUnbounded(m, next) ==
    \/ /\ PeerAlive
       /\ queue' = Append(queue, m)
       /\ Goto(next)
    \/ ~PeerAlive /\ Goto("sleep") /\ UNCHANGED queue

\* send blocks while the queue is full, and fails when the daemon is gone.
Send(m, next) ==
    \/ /\ PeerAlive
       /\ Len(queue) < QueueLen
       /\ queue' = Append(queue, m)
       /\ Goto(next)
    \/ ~PeerAlive /\ Goto("sleep") /\ UNCHANGED queue

SendPid ==
    /\ At("sendPid")
    /\ Send(ClientPid, "ask")
    /\ UNCHANGED <<left, conn, answer, clientFrame>>

\* get_foreground_pid, which may have no answer.
Ask ==
    /\ At("ask")
    /\ \/ answer' = [pid |-> shown, at |-> Len(trail)] /\ UNCHANGED left
       \/ answer' = [pid |-> NoPid, at |-> Len(trail)] /\ Spend("mute")
    /\ Goto("sendFg")
    /\ UNCHANGED <<conn, queue, clientFrame>>

SendFg ==
    /\ At("sendFg")
    /\ Send(ForegroundPid, "sleep")
    /\ UNCHANGED <<left, conn, answer, clientFrame>>

\* Mutant: one socket for as long as the client lives.
WakeConnected ==
    /\ At("sleep")
    /\ Goto(IF conn = 0 THEN "connect" ELSE "sendPid")
    /\ UNCHANGED <<left, conn, answer, queue, clientFrame>>

\* The 250 ms are over; run has dropped its socket.
Wake ==
    /\ At("sleep")
    /\ Goto("connect") /\ conn' = 0
    /\ UNCHANGED <<left, answer, queue, clientFrame>>

ClientStep == Connect \/ SendPid \/ Ask \/ SendFg \/ Wake

------------------------------------------------------------------------------
(* socket_handler.                                                          *)

daemonFrame == <<worldVars, clientVars, life>>

Remove ==
    /\ dpc = "remove" /\ dpc' = "bind"
    /\ file' = "none"
    /\ UNCHANGED <<queue, state, ghostVars, daemonFrame>>

Bind ==
    /\ dpc = "bind" /\ dpc' = "chmod"
    /\ file' = "private" /\ queue' = <<>>
    /\ UNCHANGED <<state, ghostVars, daemonFrame>>

\* set_permissions
Chmod ==
    /\ dpc = "chmod" /\ dpc' = "recv"
    /\ file' = "open"
    /\ UNCHANGED <<queue, state, ghostVars, daemonFrame>>

\* Mutant: the newest datagram first.
TakenLast(q) == [m |-> q[Len(q)], rest |-> SubSeq(q, 1, Len(q) - 1)]

\* Datagrams of a Unix socket arrive in order.
Taken(q) == [m |-> Head(q), rest |-> Tail(q)]

\* recv, and what process_message stores.
Receive ==
    LET m == Taken(queue).m
    IN  /\ dpc = "recv" /\ queue # <<>>
        /\ queue' = Taken(queue).rest
        /\ IF m.to = "client"
           THEN /\ state' = [state EXCEPT !.client = m.pid]
                /\ heard' = heard \union {m.from}
                /\ UNCHANGED <<place, source>>
           ELSE /\ state' = [state EXCEPT !.fg = m.pid]
                /\ place' = m.at /\ source' = m.from
                /\ UNCHANGED heard
        /\ UNCHANGED <<dpc, file, daemonFrame>>

DaemonStep == Remove \/ Bind \/ Chmod \/ Receive

\* The daemon ends, by a signal or a crash.  Its file stays.
Down ==
    /\ dpc # "down"
    /\ Spend("crash")
    /\ dpc' = "down"
    /\ file' = IF file = "none" THEN "none" ELSE "stale"
    /\ queue' = <<>> /\ state' = NoState
    /\ heard' = {} /\ source' = 0
    /\ UNCHANGED <<shown, trail, clientVars, life, place>>

Start ==
    /\ dpc = "down"
    /\ dpc' = "remove" /\ life' = life + 1
    /\ UNCHANGED <<worldVars, clientVars, file, queue, state, ghostVars>>

------------------------------------------------------------------------------
Init ==
    /\ shown \in App /\ trail = <<shown>>
    /\ left = Budget
    /\ me = 1 /\ cpc = "connect" /\ conn = 0
    /\ answer = [pid |-> NoPid, at |-> 1]
    /\ life = 0 /\ dpc = "down" /\ file \in {"none", "stale"}
    /\ queue = <<>> /\ state = NoState
    /\ place = 1 /\ heard = {} /\ source = 0

Next ==
    \/ \E p \in App : Show(p)
    \/ Kill \/ ClientStep \/ DaemonStep \/ Down \/ Start

\* The client's loop goes on and the socket thread runs.  Nobody has to start
\* the daemon.
Fairness == WF_vars(ClientStep) /\ WF_vars(DaemonStep)

Spec == Init /\ [][Next]_vars
FairSpec == Spec /\ Fairness

------------------------------------------------------------------------------
(* Properties.                                                              *)

\* Every variable stays in its range, and no more datagrams wait than the
\* socket holds (client.rs and main.rs:296-312).
TypeOK ==
    /\ shown \in App
    /\ trail \in Seq(App) /\ trail # <<>>
    /\ left \in [Kinds -> Nat]
    /\ me \in Nat
    /\ cpc \in {"connect", "sendPid", "ask", "sendFg", "sleep"}
    /\ conn \in Nat /\ answer \in Answer
    /\ life \in Nat /\ dpc \in {"down", "remove", "bind", "chmod", "recv"}
    /\ file \in {"none", "stale", "private", "open"}
    /\ queue \in Seq(Message) /\ Len(queue) <= QueueLen
    /\ state \in [fg : App \union {NoPid}, client : Nat \union {NoPid}]
    /\ place \in Nat /\ heard \subseteq Nat /\ source \in Nat

\* Whenever the daemon believes something about the foreground, it has stored
\* the pid of the client it has that from: a client that is below a critical
\* process is known as the client before anything is boosted at its word
\* (client.rs:14-31, is_critical).  It holds across restarts of either,
\* because run sends both messages over one connection.
ClientKnownFirst == state.fg # NoPid => source \in heard /\ state.client # NoPid

\* What the daemon believes only moves forward along what was true, whatever
\* is delayed in the queue, lost with a daemon, or asked for again by the
\* next client (client.rs:14-31, main.rs:307-311).
Report == INSTANCE ForegroundReport WITH known <- state.fg
NeverBackwards == Report!Spec

\* Whatever failed before, a daemon that stays up learns who the client is and
\* what is in the foreground: also one that was started anew, whose socket the
\* client cannot be connected to yet (client.rs:60-67).
Learned == <>[](dpc # "down" => state.fg = shown /\ state.client = me)

===============================================================================
