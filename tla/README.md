# Formal models of dockup

TLA+ modules for the parts of dockup where processes, crashes and stale data
meet. TLC checks small instances; TLAPS proves the theorems named below for every
value of the constants. Paths are those of the repository (`src/` is its root).

dockup is a Windows program that runs Docker Engine in a WSL distro. There is no
service: every command is a process of its own, and the processes share

* `state.json` (and its lock file): install flag, daemon record, package snapshot;
* the named pipe, which one process at a time can bind, and the default docker
  pipe, which it mirrors when it is free;
* the Windows table of processes, where a pid is used again;
* `<root>\cache\images`: the signed image and the `.part` files of downloads;
* `config.json`, the Docker CLI context, the log files, and the distro itself.

## Inventory

| Component | State | Operations | Correct when | Model |
|---|---|---|---|---|
| `internal/state` | `state.json`, `.tmp`, lock file | `Load`, `Save`, `WithLock` | updates are serialized, none is lost, readers never see half a file, every call ends | StateLock, StateStore |
| `internal/daemon` | daemon record | `Start`, `Stop`, `Status` | one server; every child is recorded; a report is true; no foreign process is killed | Daemon |
| `internal/relay` start-up | the pipes, the TCP port | `ServeEx`, `AliveOn`, `WaitAliveOn` | a pipe that answers means a server that stays up | Daemon |
| `internal/relay` bridge | a connection, its `wsl.exe` | `bridgeConn`, `EngineReady` | both directions drained, the child reaped, a dead backend reported before the first byte only | Bridge, Exchange |
| `cmd/dockup` | none of its own | foreground, `__serve`, daemon, shutdown, prune, upgrade, context, autostart, log | the commands compose the others without breaking them | Daemon, Contexts, Engine, Logs |
| `internal/image`, `download` | four cache files, `.part` files | `Ensure`, `Clear`, `Fetch` | only a verified build is used; a good cache is not lost to a failed refresh; left-overs never block | ImageCache, ImageStore |
| `internal/restore` | package snapshot | `Run` | only packages a user added are removed, never the engine | Restore; `--full` in Setup |
| `internal/docker` | engine, `wsl.conf`, units, `daemon.json` | `Install`, `Configure`, `Upgrade`, `Repair`, `WaitDaemon` | the engine answers afterwards and with every later boot; a good `daemon.json` stays | Engine, Restore |
| `internal/doctor` | daemon record, install flag, `current_path`, engine | `RunEx`, `ReconcileDistro`, `fixDistro` | only what is stale is repaired, and what is broken is | Daemon, Setup, Engine |
| `internal/setup` | distro, install flag, config, snapshot | `RunEx`, `Uninstall` | records and distro agree after success, failure and Ctrl+C | Setup, Engine, Contexts |
| `internal/dockctx` | Docker's contexts | `Ensure`, `Use`, `Remove` | the user gets back the context they had, and their own is never lost | Contexts |
| `internal/userconfig`, `autostart` | `config.json`, Startup shortcut | `Load`, `Save`, `SetEnabled` | updates are not lost (there is no lock); shortcut and flag agree | Contexts; the paths in Setup |
| `internal/logx` | log files | `Append`, `rotate` | a line is not lost to rotation; the log stays small | Logs |
| `internal/wsl` | none | wrappers of `wsl.exe`, `RunRetry` | failures are told from absence; a time-out is survived | `Exists`, `List` in Setup; `ExecScript`, `RunRetry`, `Terminate` in Engine |
| pstable, config, ui, sysinfo, imgtool | none | tables, figures, constants, release tooling | | not modelled: no protocol |

How they interact: commands read `state.json` without the lock and write it
through `WithLock`; `Start` spawns `dockup __serve` inside its locked function; the
child reports its mirror through `WithLock`; start-up gates call `ReconcileDistro`;
setup and upgrade take the image from `Ensure`; setup writes the snapshot that
restore subtracts; setup, uninstall, `context` and `autostart` each save the whole of
`config.json` from the copy they loaded; `--fix`, setup and shutdown stop the distro
under whatever runs in it; the bridges of a server append to one log, which `daemon
log` follows and a daemon's own output is redirected to.

Hard behaviours, each listed in `PROJECT.json` under `hazards` at its line: a lock
that expires by age and is removed by path; a process spawned before it is recorded;
timeouts whose late answer is still to come; pids that name another process by now;
a pipe that answers before its server is complete; shared temporary files; crashes
between the steps of a multi-file replacement; plans computed from missing data; an
apt run that outlives its `wsl.exe`; a distro that boots with the call that looks at it.

## Modules

**StateLock** models `WithLock` one system call at a time. `holder` is the lock file
with its creator, `Orphan` when that process died; `age` and `waited` count time in
units up to just above the two limits. `file` and `tmp` hold sets of updates and a
flag that tells whether they parse. `Begin`, `Open`, `Stat`, `RemoveStale`,
`LoadState`, `CreateTmp`, `WriteTmp`, `RenameTmp`, `Abandon` and `Unlock` are the
lines of `WithLock` and `Save`; `Crash` closes a process's handles and keeps its
files; `Tick` is the clock. `Load` and `fn` are one step: only processes with the
lock rename, and a reader has a whole file in either order. With `Timely` the clock
does not pass a live holder's 30s. `misses` counts the removals of the lock file that
failed because another program (a scanner) had it open; `RemoveStale` then tries again
at once, past its deadline, and `Unlock` leaves the file behind. `fn` takes effect only through the file; side
effects of `fn` (spawning, killing) are in Daemon. **StateStore** is the abstract
cell that StateLock implements.

**Daemon** models every process of dockup by its `kind` and `pc`: the commands
`daemon start | stop | restart`, `shutdown`, `doctor`, the foreground, and the child
`__serve`. `rec` and `installed` are the fields of `state.json` they use, `pipe` the
main pipe (bound, then accepting), `lock` the state lock. A `WithLock` call is one
step, which is what StateLock establishes; in `Start` it is two (`StartSpawn`,
`StartSave`), because the child runs between them. The environment is a variable,
`world`, chosen by `Init` from the constant `Worlds`: the commands users run, the
faults that may happen (reboot, reused pids, overlap, slow boots, ...), and how many
commands. One run so covers several environments, and a property says in its own text
under which of them it holds. `said`, `shot` and `missed` are history: the last report
with its author, whether a process that is not dockup's was killed, and which of
dockup's processes live on although a command tried to kill them (`unkillable`:
`StopKillFails`, `StartSickKeeps`, `ShutdownKillFails`) or to list them (`listFails`:
`ShutdownListFails`). The code does the same after such a failure as after a success,
apart from a warning of shutdown. A process is "of dockup's image" when its kind is one of
dockup's; `foreign` is a program that got a reused pid. Autostart's earlier check
of the install flag is not separate: the check under the lock gives the same refusal.

**ImageCache** models `EnsureWithKey` one file operation at a time. A file's content
is the build it belongs to (`<<tag, revision>>`), `Torn` or `Absent`; hashes and
signatures are perfect. The `.part` names and that of the metadata's temporary file
(`tmp`) are shared by all processes. Windows
refuses to rename or remove a file another process holds open (`writers`). `hit` and
`met` are history: the network, the release or a prune interfered with the call; it
met another call.
**ImageStore** is the abstract store: seen through `verifyCache`, one published build
of the current tag or nothing.

**Bridge** models `bridgeConn` for one connection; connections share nothing but the
shutdown. The four goroutines are the actions of the stdin copier (`InRead`,
`InWrite`), of the stdout copier (`OutRead`, `OutWrite`), of the reaper (`Reap`) and of
`bridgeConn` (`Spawn`, `First`, `Grace`, `Kill`, `Wait`, `Verdict`, `Refuse`,
`Finish`); `done` is the channel they report to. Data are counted chunks: `wrote` by
the backend, `reply` received by the client. Client and backend are the outside: they
send, half-close, leave, stall, write, end, fail or stop reading at any point. The
60s timer may fire whenever `bridgeConn` waits (`late` remembers that it did); the 10s
timer only when the stdout copier waits for the client (`Overdue`), since with the
backend dead and its pipe closed nothing else holds that copier for ten seconds.
`Exit` ends the process: nobody waits for bridges after a shutdown
(`relay.go:213`), and `daemon stop` kills the process. **Exchange** is what the client
may rely on: the output, or one HTTP 500 instead of it, and nothing after the close.

**Setup** models `RunEx`, `Uninstall` and `ReconcileDistro` as processes over three
stores: `distro` (WSL's registration, with the directory and whether its engine has
answered), `installed` (the flag of `state.json`) and `config` (the two paths of
`config.json`). `mem` is the copy of `config.json` a command loaded when it began, and
which setup saves minutes later. `Answers` is what a look at WSL may give: the truth,
no answer (`wsl`), or "absent" for a distro that is there (`blind`): `IsRegistered`
returns false when the API call fails (`wsl_api_windows.go:30`), and `List` takes the
output of a failed `wsl.exe` for the list (`wsl.go:82`). `Exists` makes absence of no
answer too. A setup has a second goroutine: `Interrupt` is its
`fail`, at any point of the flow and beside it, `Exit` its `os.Exit`. A dying setup may
leave a `wsl --import` behind that goes on (`Orphaned`). `retry` starts `RunEx` again
with a fresh copy (`RetryOrFail`); the interrupt goroutine of the outer call, which
saves the older copy, is left out. `Restore --full` is a setup; a call of `WithLock` is
one step; a save of `config.json` happens or does not, a torn file is left out. `Fetch`
stands for what ImageCache models. `stale` is history: a setup found no distro while the
install flag stood; `missed`: the last look took the distro for absent; `spoilt`: since
the last complete setup a look did so, WSL refused to unregister, a setup was
interrupted, or a command died. `faults` is chosen by `Init`.

**Restore** models `runLight` with `docker.Install` and `docker.Repair`, and users who
change packages and `daemon.json` between restores. `shipped` is history: what setup
installed and nobody removed; `yours` is `daemon.json` as the user last left it. `faults`
is chosen by `Init` from `Worlds`, as in Daemon: any call may fail, pass its limit or be
cut off half way (`call`, `apt`), and dockerd may stay down for a reason of its own
(`broken`). `Test` is one `TestDaemon` and one `test -f`, each of which may fail; `Rescue`
is the script of the reset, cut off anywhere (`Copied`). `Needed` are packages that the engine depends on and
a user may mark manual. The reboot of a distro without systemd (`docker.go:191`) is
part of `Repair`: it leads to the same restart. Retries of apt are one attempt with
its final outcome; a failed one may have removed part of the plan.

**Contexts** models what dockup leaves on the Windows side: `host` is the endpoint of
the context "dockup" (a pipe of dockup's, `Foreign`, or none), `own` and `current` are
the user's contexts and Docker's current one, `file` is `config.json` (or `Torn`),
`shortcut` the Startup folder. Each call of the docker CLI is a step (`Show`, `Inspect`,
`Rm`, `Create`, `Switch`, `Pick`, `Back`, `Remove`, `Drop`), and so is each system call
of a save (`Truncate`, `Write`): `os.WriteFile` empties the file first, and two writers
may interleave. `mem` is a command's copy, loaded when it began. Users switch, create
and remove contexts and edit the pipe. Setup and uninstall appear with their parts that
touch these. History: `fresh` (the file is still what the command knows), `stale` (a
command saved a copy that was not), `home` (the context before the last `context use`).

**Engine** models the distro and the commands that bring its engine up: `doctor --fix`,
`upgrade`, setup from the import on, `shutdown`. The distro boots when it is called
(`Wake`), under systemd if `wsl.conf` asked for it at that moment (`conf`, `systemd`);
`units` are enabled or not; `dockerd` is down, starting or up. `apt` names the attempt
that holds dpkg's lock: a time-out kills `wsl.exe`, and apt goes on as an `Orphan` or
was cut, after which dpkg refuses to work (`cut`). `Attempt`, `Exhausted`, `Fetched`,
`FetchFails` and `FetchDies` are `RunRetry`; `Probe`, `Configure`, `Terminate`, `Pid1`,
`Answers` and `Gives` the steps of `fixDistro`, `Configure` and `WaitDaemon`. History:
`hit` (a fault or another command met the running ones) and `sound` (a repair ended
well unhit, and nobody has broken anything since). An import is one step, whole or not
at all: what half an import leaves is in Setup. `wsl.Exists` and
the prompts come before.

**Logs** models `logx.Append` and `rotate` one system call at a time, called by the
bridges of a server. A line is its number, a file a sequence of them, a size a number
of lines. `held` is a daemon, whose output is the open log: Windows does not rename it.
`Serve` starts another process after the last one ended anywhere. `daemon log` is
`follow`, with the `offset` it has read to; `FollowOpen` and `FollowRead` are its
`ReadFile`, which holds the log open for a moment. History: `met` (two rotations side
by side), `swollen` (the log was held open since it was last moved), `rotated`.

`MC*.tla` add symmetry sets for TLC. `*Proofs.tla` hold the theorems.

## Runs

Passing runs. Each one is a rich environment rather than one scenario; the conditions
are in the properties.

| Run | What it shows | Bounds |
|---|---|---|
| StateLockAny | until the first lock file is removed under its live creator: mutual exclusion, no lost update, a file that parses, every step one of StateStore's; every call ends | 2 processes, 2 calls, any speed, crashes at every step, limits of 1 and 0 units (a unit is what it takes to pass a limit), 1 failing removal |
| DaemonSafe | the properties of the table below | eight worlds: 4 or 3 commands in sequence, 3 overlapping, and 2 under all faults at once, failing kills and lists in five of them; 3 pids (two actors and one left over) |
| DaemonLive | every command ends | two worlds of 2 overlapping commands with crashes, reboots, slow boots, failing saves, kills and lists |
| ImageCacheShared | a call that meets no other returns a verified build; left-overs never make a call fail; a good cache is given up only for a verified replacement; refinement of ImageStore by any interleaving | 2 processes, 2 calls, 2 tags with 2 revisions, crashes, prune file by file |
| BridgeAny | the answer is whole or one error stands for it; connections and backends end; refinement of Exchange | 2 chunks each way, every set of faults (`exit` alone or with shutdown), all orders |
| SetupAny | install flag, config, and distro agree, whatever failed, until a look at WSL, WSL itself or an interrupt spoils it; a repair without an answer spares the record | 2 processes, 2 directories, 5 commands, 1 removal outside dockup; all faults but overlap, those without failing saves, those without deaths too, and overlap with one other fault |
| ContextsAny | `context use` and `off` lead there and back; shortcut and flag agree; an uninstall leaves the user's contexts and none of dockup's | 2 processes, 2 contexts of the user, 2 pipes; 5 commands and 3 edits where nothing fails, fewer under faults and overlap |
| EngineAny | an undisturbed `--fix` heals; what was repaired stays so; every command ends | 2 processes, 3 commands, 2 steps of the user (a removal, a setting, a stop, a reboot); worlds without faults, with all of them in sequence, and with overlap and time-outs |
| LogsAny | rotations drop the oldest lines only, the log stays near its limit, a follower misses nothing | 2 bridges, 7 lines, a limit of 1, so that all archives fill; 2 serving processes, 1 follower |
| RestoreAny | shipped packages and the engine stay, a complete restore is clean, the user's `daemon.json` is in place or whole in its copy | 5 edits, any number of restores; all faults, and those that leave package list and state readable |

A property may have named parts, each with the condition under which it holds:
`RecordHonest`, `ReportsTrue` and `SparesTheLiving` of Daemon, `AnswersHonest` of
ImageCache, `ErrorHonest` and `ConnectionsEnd` of Bridge, `SparesTheRest` of Restore.
`DaemonSafe`, part by part, with what each leaves out and why: the code does not keep
the promise there. (`RecordHonest`: Tracked, MirrorHonest, StatusTruthful;
`ReportsTrue`: StartedMeansServing to ShutdownMeansAlone; `SparesTheLiving`: the last two.)

| Property | Says | Not claimed |
|---|---|---|
| Tracked | every live child is the recorded one, or its Start is about to record it, or it outlived a kill | a child that outlived the kill of a `stop` or of a Start with a sick distro: `killQuiet` swallows the failure and the record is cleared (`daemon.go:62`, `183`; the comment at line 60 thinks of dead pids only); outside `Recorded`: when a child is slower than 15s, or a save fails, or Start dies, the child lives on without a record (`daemon.go:133`); overlapping commands; a foreground beside a record that outlived its process (reboot, busy TCP port), which Start takes for its child's pipe and doctor for a dead child's |
| MirrorHonest | a recorded mirror is one that the recorded child serves | when Start fails to save the new pid, or dies (by a crash, or by a shutdown beside it) before it could; that every served mirror is recorded: the child may look for its pid before the parent saved it (`main.go:807`, against the comment at `relay.go:181`) |
| StatusTruthful | status names the holder of the pipe | when a dead record survives beside a foreground; a child that outlived a kill is shown as a foreground |
| StartedMeansServing | after "started" the recorded child serves | when the TCP port is busy: the pipe answers before the TCP listener fails (`relay.go:204`) |
| UpMeansMine | a foreground that is up holds the pipe | as Tracked: two starters at once: a bound pipe that does not accept yet passes for a free one (`main.go:687`) |
| StoppedMeansGone | after "stopped" no child is left but those that outlived a kill | as Tracked; "stopped" is printed after a kill that failed (`daemon.go:183`, `193`) |
| ShutdownMeansAlone | after "complete" no other dockup process is left but those that outlived a kill or that tasklist did not list | commands launched meanwhile; "complete" is printed after a kill that failed (`main.go:1250`) or a list that was not given (`sysinfo.go:104`), unless the survivor answers on the pipe |
| NeverShootsForeign | no process that is not dockup's is killed | a sick or unregistered distro, where Start kills the recorded pid unverified (`daemon.go:152`), and shutdown, which kills by number what it listed by name (`main.go:1250`): either only where the process may have ended meanwhile by itself (a foreground, a busy TCP port, a child outside `Recorded`) |
| ClearsOnlyStale | doctor clears only a dead daemon's record | as Tracked: doctor judges by the pipe alone (`doctor.go:275`) |
| SecondStarterRefuses | Start spawns nothing while a pipe answers, over a stale record and beside a child that outlived a kill | as Tracked, so also when the record of a dead daemon meets a foreground: then Start does not look at the pipe, clears the dead pid and spawns a second server (`daemon.go:98`, against `docs/guides/getting-started.md:10`) |

What the properties of Bridge leave out, again because the code does: the answer and
the error after the grace period (an answer that takes more than 60s after the client
closed its stdin is cut off, or taken for none); a client that left while its backend
neither writes nor reads its input (`EndsAfterInput` excludes `wedge`: the stdin copier
hangs in its write, and only shutdown ends the bridge); a client that stalls without
closing; a failing `StdinPipe` or `StdoutPipe`, after which the client gets an empty
reply (`relay.go:235`); and a process that ends before its reaper ran, which leaves
`wsl.exe` to itself (`ShutdownReaps`).

What the properties of Setup leave out, for the same reason:

* The comment at `setup.go:79` says that aborts never touch the install location. A
  Ctrl+C at the first prompt does: the goroutine started at line 95 runs `fail`, and
  `current_path` of a working installation is forgotten (`RecordMatchesDistro` allows
  it after an interrupt).
* A failed setup keeps the install flag. When the distro had been unregistered outside
  dockup, the flag is still set, and it then stands for a half-built distro
  (`stale` in `InstalledIsEarned`).
* After a retry that is declined, `current_path` may be older than the last import:
  only distros that a setup completed are covered.
* The failure of `wsl --unregister` is ignored (`setup.go:120`): record and path of a
  living distro are erased, and the import fails (`spoilt`). An `Exists` without an answer
  is taken for an absent distro, by setup and by uninstall: "uninstalled" is then printed
  beside a living distro (`missed` in `UninstallComplete`).
* The comment at `doctor.go:79` says that a failed list leaves everything untouched. It
  does when there is no output; a `wsl.exe` that fails with output, or an API call that
  fails, passes for absence, and the gates and doctor wipe the record of a living distro
  (`spoilt` in `RecordMatchesDistro`).
* A process that dies between the save of the flag and of the paths leaves a completed
  distro without a path (`setup.go:362`); nothing repairs that.
* Setup resets all of `state.json`, the record of a running daemon included.

What the properties of Contexts leave out:

* `context use` switches Docker first and saves the context to come back to afterwards,
  and ignores the save's error (`main.go:927`, `933`): after a crash or a failing save
  `context off` leads to an older context, or to `default`.
* `Ensure` replaces any context named "dockup" that points elsewhere, the user's own
  included (`dockctx.go:104`), which `Remove` takes care not to do (`dockctx.go:135`):
  only the uninstall spares it.
* When setup replaces the active context, Docker falls back to its default one, and
  nothing switches it again.
* Every command saves the whole of `config.json` from its copy: overlapping commands
  undo one another's changes (`stale`), and what they leave may not parse. A file that
  does not parse is to be fixed or deleted by the user (`userconfig.go:81`), but
  `ensureUserConfig` goes on with the defaults, and the next save replaces it
  (`main.go:49`).
* Uninstall ignores that the shortcut could not be removed (`setup.go:471`).

What the properties of Engine leave out:

* A time-out leaves apt running in the distro (`wsl.go:161`): the next attempt meets
  its lock, and the reboot of a later `--fix` or a shutdown cuts it. An interrupted dpkg
  refuses every later attempt, and no command repairs it (`dpkg --configure -a` is
  nowhere): only an import does. `FixHeals` names `cut` through `hit`.
* `--fix` reboots a healthy engine too (`doctor.go:323`): running containers go with it.
* An upgrade that ends well does not make the engine `sound`: it neither enables the
  units nor writes `wsl.conf`.

What the properties of Logs leave out: two bridges that rotate side by side may rename
over the newest archive (`met`). The log of a daemon is open in the daemon itself
(`daemon.go:112`): it is never moved, grows without a limit, and each attempt shifts the
archives and drops one of them (`swollen`). After a rotation the follower waits until
the new log is longer than what it has shown of the old one (`rotated`).

One more divergence of `daemon.go` needs no run to be seen: `Stop` reports "stale pid
repaired" (line 180), but its function returns an error, `WithLock` does not save, and
the stale pid stays (`StopNothing` models it so).

In ImageCache, metadata may stand beside missing files after a crash in a refresh
(`image.go:112`, against the comment at `image.go:53`); `StoreSpec` shows that
`verifyCache` is not misled by it. Two calls share the `.part` file: between checksum
and rename another one may truncate it, and the call returns a tarball that was never
verified (`image.go:104`; `met` in `AnswersHonest`). They share the metadata's temporary file too
(`image.go:315`), which is renamed whoever wrote it. In Restore, the comment at
`docker.go:184` says that `daemon.json` is reset only when the daemon refuses to start
with it. The one probe after the restart (`docker.go:195`) also fails when dockerd boots
slowly, is down for another reason, or the call itself fails, and a good file is then
reset: no property claims otherwise. What holds, and what the note at line 206 promises, is
`KeepsYours`: the file is not lost. (The note is printed when the script failed, too:
its result is dropped at line 204, and the old file is then still in its place.) A
dependency of the engine that a user marked
manual is in the plan, and apt removes the engine with it (`restore.go:131`):
`SparesShipped` and `SparesEngine` name that one; the reinstall that follows brings the
engine back (`CompleteIsClean`). Without a snapshot every manual package that is not
the engine's is removed, the image's own included (`restore.go:111`, against the comment
at `setup.go:353`): `SparesShipped` speaks of a readable state.

The bounds are the smallest that let the interesting meeting happen: two actors, a
crash or reboot, and the lock, pid or file that is left over; the properties speak of
at most two commands and what an earlier one left behind (Daemon goes to four, because a
record that outlived its process misleads the third command after it), and slots and pids are used
again after an end or a crash.

Runs that end in a violation (each is a finding in `PROJECT.json`, with the sentence
it contradicts):

| Run | What happens |
|---|---|
| StateLockStolen | two waiters find one stale lock; the second removal hits the fresh lock of the first; an acknowledged update is lost (live holders are in time) |
| EngineSocat | socat is removed; `--fix` asks dockerd for its version, installs nothing and ends well, and no client can connect |

`CHECK_DEADLOCK FALSE` stands in every configuration because every model may stop:
the bounded commands, calls or edits are used up.

## Fairness

`CallsReturn` (StateLockAny): weak fairness of each process's own steps (Windows
schedules it; the loop sleeps 100ms and tries again) and of the clock. `Begin` and
`Crash` are not fair. Removals fail finitely often (`MaxMisses`): while one fails for
ever the loop has no way out (`state.go:90`). `CommandsEnd` (DaemonLive): weak fairness of what a running
process does next, and of the expiry of a dead process's lock (30s). Users' commands
and faults are not fair. All waits of the code have a deadline, which is why weak
fairness is enough. `ConnectionsEnd` (BridgeAny): weak fairness of each goroutine; Go runs what can run, and a timer that a goroutine waits
for fires. Clients, backends, shutdown and the end of the process owe nothing.
`CommandsEnd` (EngineAny): weak fairness of each command's own steps, which all have a
limit, and of what they wait for: WSL boots a distro that is called, dockerd that was
started comes up, and apt without its `wsl.exe` ends. Calls that fail, time-outs, reboots
and users are not fair. `FollowsTheLog` (LogsAny): weak fairness of the follower, which
reads once a second.

## Proofs

`StateLockProofs` needs only `ConstantsAssumption`. `NoLostUpdate` is not inductive:
it says nothing of a process that is about to rename. `IInv` adds `Owner` (while no
lock was stolen: who is in the critical section created the lock file that exists,
what it loaded is still the file's content, the temporary file is its own),
`Numbered` (a call in progress has a number, and returns nil only past the rename)
and `Fresh` (an update reaches the file only in its own call). `Inductive` has one
lemma per conjunct; `TypeCorrect`, `Safe`, `StepsImplement` and `Implements` follow.
`Implements` assumes that no lock is stolen, and StateLockStolen shows that the
assumption cannot go.

`DaemonProofs` needs `DaemonAssumption`, and so covers every number of processes and
commands and every set of faults. `DInv` has a part for each thing the code is free to
rely on. In every environment (`Base`): `Stages` (which kind of process is where),
`Holder` (who is past the bind holds the pipe, who is past `Accept` answers), `Locking`
(a lock that outlasts a step is that of a Start with its child). Without overlap:
`Alone` (one command at a time) and `ShutdownSees`. In `Recorded` environments:
`Recording` (a child is recorded, or the lock holder is about to, or it is `missed`),
`Escaped` (beside a child that outlived a kill nothing is recorded, so Start and doctor
look at the pipe, which that child still answers), `Starting` (a Start
that spawned meets no server but its child), `Settled` (a child answers, unless a Start
waits for that), `Judged` (where stop, doctor and the foreground rely on there being no
server, there is none, or only a `missed` one); with the record short-lived, `Fresh`; with the TCP port free,
`Answered` and `Listed`; and `Mirrored`. None of the promises is inductive: `Tracked`
alone does not say that doctor, which looks at the pipe, sees a child that lives.
`Authors` names the steps that report, write the record, and kill; the action
properties follow from it and `DInv`. The conditions of `Recorded` are those the
induction needs: for each one that is dropped TLC finds a child that nothing records.
`WaitingIsNoCircle` is about the two waits, that for the lock and that of a Start, which
holds no lock meanwhile, for its child. It needs `Base` alone, and so holds in every
environment: who holds the lock over a step is a Start about to save, which waits for
nobody; a chain is at most Start, child, such a holder; and the child answers or still
comes up.

`RestoreProofs` needs `RestoreAssumption`. `RestSpared` is of two parts. `EngineSpared` rests on `PlanSpares` (a
plan never names the engine) and `RemovedWasPlanned` (a removal takes only what is
planned when nothing the engine depends on is). `ShippedSpared` and `CompleteClean`
rest on `RestoreInv`: `ShippedKept` (what was shipped and kept is in the snapshot, so
in no plan), `AddedPlanned` (the snapshot holds nothing a user added, so the plan
holds all of it) and `EngineBack` (after the reinstall the engine is there); the
invariant covers aborted and failed restores. Their condition, a readable list and
state, cannot go: see Runs. `YoursKept` rests on `Rescuing`: a restore about to reset has
found a `daemon.json`, so the copy it makes is of the user's file, and an earlier copy is
overwritten only by a newer file of the user's.

`RelayProofs` is about the bridge and the log, which is why Logs writes `LogInit`,
`LogNext`, `LogSpec` and `LogTypeOK`. Bridge needs `BridgeAssumption`. `AnswerWhole` and `ErrorHonest` rest on
`BInv`: `Flow` (a chunk is in one place), `Announced` (a result is sent by a copier
that ended, and received once), `Counted` (what `outN` knows is what was copied),
`NotStarted`, `Stages` (what each stage of the teardown has established: before the
kill either the stdout side was received or the grace period ran out) and `Drained`
(the stdout copier ends on a drained pipe unless the client left or the period ran
out). `ImplementsExchange` maps every step to one of Exchange or a stutter.
That a connection ends is in two halves. `ConnectionIsFinite`: `Measure`, what is still
to be copied and the stages still to come, falls with every step, so there are at most
3 MaxIn + 3 MaxOut + 19. `NobodyIsStuck`: where `ConnectionsEnd` demands an end and there
is none yet, the guard of some goroutine's step holds. It rests on `Kept` (the result
of a copier that ended is there for whoever waits for it). `InGoes`, `OutGoes` and
`MainGoes` write out the guards that `ENABLED` would give; TLC finds them the same.
What stays with TLC is the step from the two halves to an end, which needs fairness.

Logs needs `LogsAssumption`. `LogInv` has `LogType` (also: no file has more lines than
were written, and who has the log open finds it there), `Room`, `Freed` and `Chained`.
The log alone may be at its limit with every bridge about to write, so `Room` counts the
bridges past their look: lines and writers together are what `CapHolds` allows, and a
daemon's log counts as swollen. `KeepsTheNewest` speaks of four files laid end to end;
`Chained` says of each file where it ends, which is where the next newer one begins, and
a rename keeps it because its target is free: `Freed`, which needs a single rotation.
`EndsConcat` (two ends that meet are one end) leads back to the promise.

`SetupProofs` needs `SetupAssumption`. `Earned` rests on `EarnedInv`: `Alone` (without
overlap one command runs at a time), `Unflagged` (from the reset, or from a `Look` that
saw no flag, until the record, the flag is down), and `Proven` (a setup that is about to
record has a distro whose engine answered, or has lost it). `InstalledIsEarned` itself
says nothing of a setup that has imported and not recorded. `RecordMatchesDistro` and
`UninstallComplete` speak of the moments between commands; their `RecordInv` follows the
commands under way, each part under the faults it survives: `Sited` (from its import on
a setup has the distro at its own directory), `Named` (the path is the distro's or none,
or a setup is about to record it), `Kept` with `Flagged` (path and flag are the distro's,
unless something has spoilt them: an interrupt does, `Caught`), `Cleared` (who clears a
record or imports knows that there is no distro, unless something has spoilt that) and
`Erased` (an uninstall takes the distro that it sees, then the flag, then the path).

`ContextsProofs` needs `ContextsAssumption`. `AutostartAgrees` speaks of the moments
between commands, so its invariant follows the commands under way: `Stages` (a command
is where its task leads), `Writers` (the file is torn exactly while a command that knows
it is writing), `Copies` (what a copy of a command says of the flag), and `Settled` (the
shortcut is what its last change made it, or agrees with the file, or an uninstall has
still to remove it), unless a command is already `Doomed` to save a copy that is not the
file any more. The two action properties rest on `WaysInv`, about commands that run one
at a time (`Alone`): `Remembered` (file and copies hold the context of before the last
use, or a command is about to save it), `Leads` (what a use has established and what an
off has chosen), `Drops` (an uninstall removes a context of dockup's pipe only) and
`Uninstalling` (what it has saved and removed). `OnlyOne` says that nothing but the
command itself happens until it ends.

`EngineProofs` needs `EngineAssumption`. `SInv` has `Stages`, `Running` (systemd and apt
need a distro that is up), `Meets` (commands that run side by side count as hit),
`Restored` (a repair that nothing met and that is past its configuration has enabled
units, a `wsl.conf` and the engine) and `Healing` (a `--fix` that nothing met comes to
its attempt with a free and whole dpkg, to its configuration with the engine, and waits
for a dockerd that runs or starts). `StaysRepaired` is inductive with them; `FixHeals`
follows step by step: with `Healing`, no step of such a run can report a failure.
`CommandsAreShort` gives a command a `Rank`, the steps it has left at most: its own steps
lower it, those of the others and of the distro never raise it, and it is at most
sixteen. A retry costs nothing twice because `Stages` says that an attempt under way was
counted.

`ImageCacheProofs` needs `ImageAssumption`. `IInv` has `Pending` (a call past the
signature knows the build it installs), `Genuine` (a file or a local that holds a build
holds one that was published, and not for a later binary), `Meets` (calls side by side
know it) and, for a call that met no other, `Relied` (what it found out still holds: the
`.part` files and the installed tarball are the build it wants), `Removed` (between
installFile's two steps the file is gone) and `Downloaded` (what nothing has hit is the
release). `AnswersHonest` and `KeepsGoodCache` need the parts about calls that met no
other; `ImplementsStore` needs none of them, and so holds in any interleaving: a step
changes at most one of the four files, and a valid entry has the same build in all four.

So every invariant and every action property that a passing run checks is a theorem,
for all values of the constants. Only model-checked are the five liveness properties,
whose fairness and `ENABLED` are out of the prover's reach. Of `ConnectionsEnd`, and of
`CommandsEnd` of the engine and of the daemon, the safety that they rest on is proved: a
measure that every step lowers and a step that is possible; a rank that every own step
of a command lowers; no circle of waits. `CallsReturn`
and `FollowsTheLog` have no such half: who waits for the lock of `state.json` stops
because time is up, and who follows a log does not stop. The two runs that expect a
violation have their counterexamples from TLC.

## Not modelled

`EngineReady`'s probe of `/_ping`, a timeout around one request; the exit codes of the
foreground's interrupter (what it ends is `ForeStop` and `Cancel`); in Daemon, a look at
WSL that takes a living distro for absent (its effect on the record is in Setup), and a
`processAlive` that fails to open a live process and takes it for dead (`daemon.go:28`);
in Restore, a user who edits `daemon.json` during a reset, and two restores side by side;
the removal of
directories by setup and uninstall; `docker.Prune`, which frees space in the distro;
tables, figures and terminal output (`pstable`, `ui`, `console`, most of `sysinfo`), and
the constants of `config`: no state of their own. `scripts/image/imgtool` signs images
when a release is built and is no part of the program.

## Plan

Done: the state lock, the daemon's life, the bridge, the image cache, setup and
uninstall, light restore, contexts and autostart, the engine, the logs. Next:

1. A measure for the wait of `WithLock` (it falls with time, not with steps) and for the
   daemon's commands, which have their waits proved and their length only checked.
2. The foreground's interrupter (exit codes at each point of start-up) and `EngineReady`.
