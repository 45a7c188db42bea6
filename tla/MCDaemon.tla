------------------------------- MODULE MCDaemon -------------------------------
(* Instances of Daemon for TLC. *)
EXTENDS Daemon, TLC

\* Process ids are interchangeable.
PidSymmetry == Permutations(Pid)

World(C, F, n) == [commands |-> C, faults |-> F, launches |-> n]

\* One command at a time through deaths, a taken TCP port and reused ids; one at a
\* time with late answers and failing saves; three and two at a time.
SafeWorlds ==
  { World(AllCommands \ {"shutdown"}, {"reboot", "reuse"}, 4),
    World(AllCommands \ {"fore"}, {"reboot", "reuse", "sick", "unkillable", "listFails"}, 4),
    World(AllCommands \ {"fore"}, {"reboot", "tcpBusy", "sick", "unkillable"}, 3),
    World(AllCommands \ {"shutdown"}, {"tcpBusy", "slowBoot", "reuse"}, 3),
    World(AllCommands, {"reuse", "sick", "unregister", "unkillable", "listFails"}, 4),
    World(AllCommands, {"slowBoot", "saveFails", "reuse"}, 3),
    World(AllCommands, {"overlap", "slowBoot", "tcpBusy", "unkillable", "listFails"}, 3),
    World(AllCommands, AllFaults, 2) }

\* Two at a time, for liveness.
LiveWorlds ==
  { World(AllCommands, {"overlap", "crash", "slowBoot", "tcpBusy"}, 2),
    World(AllCommands, {"overlap", "reboot", "saveFails", "sick", "unregister", "unkillable",
                        "listFails"}, 2) }
=============================================================================
