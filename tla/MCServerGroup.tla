--------------------------- MODULE MCServerGroup ---------------------------
(***************************************************************************)
(* Small server groups for TLC: two or three ports, one server object more *)
(* than ports (a client may still hold one that has left the lists).       *)
(***************************************************************************)
EXTENDS ServerGroup, TLC

MCServers == Permutations(Server)

MCPort == {1, 2}

Group(alive, available, idle, countdown) ==
  [ports |-> MCPort, min_alive_server_no |-> alive,
   min_available_server_no |-> available, max_idle_server_no |-> idle,
   countdown |-> countdown]

\* Configurations: the servers are never restarted, or after each session.
SmallGroup == Group(1, 1, 0, 0)
TwoServerGroup == Group(2, 1, 1, 0)
RestartingGroup == Group(1, 1, 0, 1)

NoChange == [ports |-> {}, min_alive_server_no |-> Unset,
             min_available_server_no |-> Unset,
             max_idle_server_no |-> Unset, countdown |-> Unset,
             db_host |-> FALSE]

\* Changes: none; ports (with a database host that may be missing) and idle
\* limit; the minima and the countdown.
NoChanges == {}
PortChanges == {[NoChange EXCEPT !.ports = {2}],
                [NoChange EXCEPT !.ports = {1, 2}, !.db_host = TRUE],
                [NoChange EXCEPT !.max_idle_server_no = 1]}
NumberChanges == {[NoChange EXCEPT !.min_alive_server_no = 2],
                  [NoChange EXCEPT !.min_available_server_no = 2],
                  [NoChange EXCEPT !.countdown = 0]}
=============================================================================
