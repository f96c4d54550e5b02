------------------------------ MODULE MCDaemon ------------------------------
(* Bounded instances of Daemon for TLC.  The tree is pid 1, an application *)
(* or window manager below it (2) and a process that one forks (3).        *)
EXTENDS Daemon, TLC

CONSTANTS systemd, shell, app, rustc

MCParent == 1 :> NoPid @@ 2 :> 1 @@ 3 :> 2
MCFirstExe == 1 :> systemd @@ 2 :> app @@ 3 :> Unborn

MCParentTwo == 1 :> NoPid @@ 2 :> 1
MCFirstExeTwo == 1 :> systemd @@ 2 :> app

Foreground(p) == [to |-> "fg", pid |-> p]
Client(p) == [to |-> "client", pid |-> p]
Garbled == [to |-> "garbled", pid |-> NoPid]

MCMessages == {Foreground(2), Foreground(3), Foreground(NoPid), Client(2)}
MCOneMessage == {Foreground(2)}
MCOneMessageOrNone == {Foreground(2), Garbled}

Spending(msg, fork, exec, exit, sig, crash) ==
    [msg |-> msg, fork |-> fork, exec |-> exec, exit |-> exit, sig |-> sig,
     crash |-> crash]

MCShutdown == {Spending(1, 1, 0, 1, 1, 0)}
MCLive == {Spending(2, 0, 0, 0, 0, 1), Spending(2, 0, 0, 1, 0, 0),
           Spending(1, 1, 0, 1, 0, 0), Spending(0, 1, 1, 1, 0, 0),
           Spending(1, 0, 1, 0, 0, 0), Spending(0, 0, 2, 0, 0, 0),
           Spending(0, 0, 1, 0, 0, 1), Spending(1, 0, 0, 0, 1, 0),
           Spending(0, 0, 1, 0, 1, 0), Spending(0, 0, 0, 1, 1, 0)}
MCStop == {Spending(1, 0, 0, 1, 1, 0)}

==============================================================================
