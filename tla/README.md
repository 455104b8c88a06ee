# A TLA+ model of pufferd

pufferd is the daemon that runs game servers for PufferPanel. It loads one
*program* per server from a folder of JSON files, starts and stops each program in
its *environment* (a child process on a pipe or a pty, or a container), restarts
programs that end, runs installation steps, and offers all of it over HTTP,
websockets and SFTP. It keeps no lock around most of what its goroutines share.
The modules here model the parts where the order of steps matters, TLC checks
them on small instances, and TLAPS proves the main results for every value of the
constants: what the passing runs check is, but for liveness, also proved.

## Inventory

| Part | State | Operations | What is hard | What makes it correct |
|---|---|---|---|---|
| Environment interface, `environments/envs` | root, console, WaitGroup `Wait` | ExecuteAsync, Execute, Kill, SendCode, WaitForMainProcess, … | what callers may rely on | at most one process; one truthful callback after each exit |
| tty and standard environments | `mainProcess`, `stdInWriter`, `Wait`; the process | ExecuteAsync, `handleClose` goroutine, Kill, SendCode, ExecuteInMainProcess, WaitForMainProcess | unguarded fields, IsRunning read and used later, WaitGroup reused, failed starts | no process is lost, no fatal panic, waits end when the process has |
| docker environment | container, `downloadingImage`, connection, `Wait` | the same, through the Docker API | image flag without a lock, `err` shared with a goroutine, a late `Close` of a field that has changed, a start that fails after attach, a container that survives the daemon | the end of a container is told once; waits end when it has; the flag is up only during a download |
| lxd environment | | | not registered by any loader | |
| Restart queue, `programs/program.go` | `queue`, `running`, `ticker`, `CrashCounter` | StartViaService, processQueue, afterExit, ShutdownService | afterExit overlaps with starts; ticks after Stop; a start that blocks | served in turn, bounded restarts, nothing queued twice |
| Shutdown and entry | `runService`, web server, two `Shutdown` calls | SIGTERM hook, service loop | shutdown races with the queue and with main's return | no server is left behind; the daemon ends |
| Program registry, `programs/loader.go` | `allPrograms`, JSON files | LoadFromFolder, Create, Delete, Reload, Save | stale index, two Creates, Reload while running, a crash in the middle of a file | an answer stays true; no entry is lost to another server's request, and no data unless that one named its directory |
| Program operations, `programs/program.go` | definition, directory, the server's files | Create, Destroy, Install, Edit, GetItem, OpenFile, DeleteItem | Install does not wait for Stop; Edit before Save; files changed while they are sent | a failed step leaves no half server; a download is of one file |
| Operation processes | list of steps | GenerateProcess, Run, the eight operations | a failing step, `Execute` without a WaitFunction | steps run in order up to the first error |
| Download cache, `environments/download.go` | the cached file of each URL | DownloadViaMaven, DownloadFileToCache | installations share it; a download cut short; a site that is down | what is installed is whole; a good file is kept |
| Daemon token, `oauth2` | `daemonToken`, `lastRefresh`, `expiresIn`, `atLocker` | RefreshToken, RefreshIfStale, validateSSH | logins that refresh at once, units of `expiresIn` | the panel is not asked again and again |
| SFTP, `sftp` | sessions, open files | Fileread, Filewrite, Filecmd, Filelist | uploads and downloads of one file at once, failing opens | a torn file is known to somebody |
| Console and websockets | ring buffer, `sockets` | DisplayToConsole, Register, Write | Register without Write's lock, removal in the loop | no listener is lost |
| HTTP routes, websocket messages | the server found by OAuth2Handler | one per operation above | no lock between two requests | |
| Migration and other commands, configuration | | | run by hand, or data | |

The parts meet like this. An HTTP route or the restart queue calls `Program.Start`;
that runs the pre-execution steps and calls the environment's `ExecuteAsync`, which
starts the process and a `handleClose` goroutine. When the process ends,
`handleClose` calls back `Program.afterExit`, which may put the program on the
restart queue again, and lowers the WaitGroup that `WaitForMainProcess` (stop with
`wait`, shutdown) and the next `ExecuteAsync` sleep on. The SIGTERM hook stops the
queue, closes the web server, which ends entry's loop, and stops every program.

A request finds its program with `programs.Get`, in `allPrograms` or else in its
file for that request alone, and calls `Install`, `Edit`, `Delete` or a file
operation on it; `Install` and `Destroy` run operation processes, which download
through a cache that all servers share. An SFTP session logs in by sending the
daemon's own token to the panel, and then works on the files that HTTP requests and
websockets also change. What environments write goes to the console's buffer and to
the websockets that registered.

Every hazard found in the survey is in `PROJECT.json` at its line, with the
properties that cover it or why none does.

## Modules

| Module | Models | Notes |
|---|---|---|
| `MainProcess` | the promise of `Environment` | abstract: Launch, Exit, Tell |
| `ExecEnv` | what `tty.go` and `standard.go` share | fields, WaitGroup, os/exec, the other methods |
| `TtyEnv` | `tty.go`: ttyExecuteAsync, handleClose | implements `MainProcess` |
| `StandardEnv` | `standard.go`: standardExecuteAsync, handleClose | does not |
| `RestartService` | restart queue, afterExit | an environment is what `MainProcess` promises |
| `Shutdown` | `shutdown.go`, `entry.go` | extends `RestartService`: the two run together |
| `DockerEnv` | `docker.go` | one container, dockerd as the environment |
| `Registry` | `loader.go`, the handlers that call it, the rest of `Program` | `MCRegistry` adds symmetry |
| `Operations` | `programs/operations`, `download.go` | `MCOperations` gives the directions |
| `Clients` | connections | shared by the next three |
| `DaemonToken` | `oauth2/shared.go`, `ssh.go`, the login of `sftp/server.go` | |
| `ServerFiles` | `requestprefix.go`, the file routes and messages | |
| `Console` | `websockettracker.go`, DisplayToConsole, OpenSocket, GetConsole | |
| `Sessions` | all a client can do | extends the three; `MCSessions` adds symmetry |
| `TtyEnvProofs`, `StandardEnvProofs`, `DockerEnvProofs`, `RestartServiceProofs`, `ShutdownProofs`, `RegistryProofs`, `OperationsProofs`, `SessionsProofs` | | theorems; each extends the module it is named after, and `ShutdownProofs` also `RestartServiceProofs` |

**Environments.** An element of `Exec` is one call of `ExecuteAsync`, with the
`exec.Cmd` it creates and its `handleClose` goroutine; `at` says which statement it
is at. An element of `Client` is one call of another method, which tests
`IsRunning` and then acts. A read or write of a shared field that another goroutine
can come between is a step of its own. `mainProcess` and `stdInWriter` are the
fields of the struct; `wg` is `BaseEnvironment.Wait`, with Go's rules: `Wait`
sleeps unless the counter is 0, the `Done` that takes it to 0 wakes the sleepers,
and a sleeper that runs after the counter was raised again panics. `proc`, `ok`,
`waited` and `released` are what the operating system and os/exec keep of each
process. A panic in a request handler is recovered by gin, one in a goroutine ends
the daemon, and a start can be either: `Panic` chooses. The two environments differ
in `handleClose`: tty judges the exit, releases the handle, clears `mainProcess`,
lowers the WaitGroup and calls back; standard lowers the WaitGroup first.

**Restart queue.** `queue`, `running` and `CrashCounter` are the variables of
`program.go`; `tick` is the ticker's channel, which holds one tick and is not
emptied by `Stop`. `processQueue` is three steps (`Take`, `WorkerCheck`,
`WorkerLaunch`), since it holds no lock after the take. Each `afterExit` is a
callback `k` that goes through `ResetCounter`, `PostExecution`, `Decide`, `Count`
and `Push`; `CrashCounter++` is a race between two of them, so `Count` writes the
successor of the present value or of the one read in `Decide`. Programs in `Twice`
are in a standard environment, where a crash is told twice. `stuck` says that a
failed start has left the WaitGroup raised. `retries` and `late` only count.

**Shutdown.** `Shutdown` is called by the hook and by entry (`Shutdowns`), and each
call has a goroutine per program (`prg`). Only the hook's call is waited for.
`fresh` and `unstopped` are history: the running programs that were launched after
the hook's goroutine looked at them, or that it failed to tell to stop. entry's loop
tests `runService` (`Loop`), starts the web server (`Listen`) and goes on when it has
ended (`ServeEnds`); `manners.Close` closes a server that listens and not one that is
about to. It is graceful: `web` turns false, no request is taken any more (`Ask`), and
the server ends when all that are in flight are answered. `inFlight` has the programs
some `stop?wait` (server.go:175) waits for, which only their exit answers, and `None` for
any other request (`Answer`). `WebFails` is the end of a listener that nobody closed.

**Docker.** An element of `Exec` is a call of `ExecuteAsync` with the goroutine it
leaves behind, a step for each call of dockerd; the variable `err`, which the two
share, is `err[e]`. dockerd knows the container by name, so every call acts on the one
(`cont`) that has the name when dockerd gets to it; containers are numbered (`n`), and
the number is what the call `own`s. A connection goes by the call that attached it: `connection`
is the field, `stream` what a goroutine read there when it began to copy, and `cut` the
connections closed while their container could still run. The goroutine ends with its
deferred `Close` (docker.go:104), after `Done` and the callback; the receiver is the address of
the field, so it closes whatever connection the field has by then, that of the next call
too. A field that holds none makes `Begin` and `Close` panic, which ends the daemon.
`Restart` ends the daemon and starts it again: the fields are zero, calls are lost,
the container lives on (`inherited`). Calls may overlap here, and `overlapped`
remembers it.

**Registry.** `allPrograms` is a sequence of pointers, `prog` the Program behind each,
and `proc` the process of an Environment with the Program that started it; `Heap`
collects what nothing refers to. `file` and `dir` are the disk. A directory goes by the
server whose own it is; a program works in its `root`, which is its own directory unless
the body of the Create names another (json:"root", environment.go:78), and `apart`, which
is history, has the servers such a Create has put together. A request (`call`) is
its operation, where it is, and the program its handler found; it is interleaved with
others wherever it waits for the disk or an operation, while a statement that only
touches memory is one step. `Create` is `CreateFile`, `CreateEncode`,
`CreateEnvironment` (or `CreateUnknown`) and `CreateAppend`, each with the revert of
the deferred function; `Delete` is `DeleteFind`, `Destroy` and `DeleteUnlink`, with
the index kept in between (a server that Get has loaded from its file is not in
`allPrograms`, and `DeleteFind` then answers as after a success); a file that a Delete could
not remove is "left". `Edit` is `EditSet`, `SaveTruncate` and `SaveWrite`. A
file that Save wrote is "saved", not "plain": it contains the Environment, which has
no json tag and cannot be decoded again. `Crash` may come anywhere; `LoadFromFolder`
then loads what it can, in the order of the folder, or panics on an empty file, for
ever. `told` is history: what the last answered request says of each server.

**Operations.** A process has the operations still to come (`todo`) and goes through
the steps of the current one. A file, cached or installed, is "none", "part", "page"
(an error page: no status is looked at) or "good". `look` is what DownloadViaMaven
took the cached file for, and `spoilt` and `page` are history: another process wrote
the cached file meanwhile, or a site answered with a page. spongeforge's own jar is copied
to a `mods` of the daemon's directory (spongeforgedl.go:126), where nothing of the model looks;
the jar it leaves with the server is forge's. `Kill` ends every process
and keeps the cache. A `command` cannot succeed, since `Execute` calls a nil
`WaitFunction` (environment.go:99).

**Sessions.** A client has connections of one kind. In `DaemonToken` a login goes
through RefreshIfStale, the request, and after a 401 through RefreshToken and once
more; `lock` is `atLocker` held across the panel's answer, `recent` says that
`lastRefresh` is less than a minute ago. `expiresIn` is decoded as nanoseconds, so the
token is stale as soon as it is had. In `ServerFiles` a file is an inode with the
sequence of its parts, each marked by the client that uploaded it; an upload truncates
and then writes at its own offset, a download keeps the inode it opened. `first`,
`stirred` and `blamed` are history. In `Console` a line goes to the buffer and then, in
`Write`, to every socket of the slice. The slice is a Go slice, an array and a length:
`Register` reads it and stores it in two steps, since it does not take Write's lock, and
`append` puts the socket into an array of its own or, where there is room, into the array
it has read, which another slice may share; a removal in `Write` moves what the array
holds under every slice of it. `settled` has the lines a socket was sent
and those that went out between its buffer and its registration; `raced`, which is
history, has the registrations, and the lines while they were sent, that met another
change of the slice. `Sessions` puts the three side by side: an SFTP
session begins with a login, and a websocket is both a reader of files and a listener.

## What the runs check

| Run | Question | Result |
|---|---|---|
| `tty_env` | Do unguarded fields lose a process, bring the daemon down, let a wait end early, miscount, block a start? Does the environment keep its promise? | holds |
| `tty_failed_start` | Does every `ExecuteAsync` return (environment.go:35)? | violated after a failed `pty.Start` |
| `standard_env` | What can callbacks be told, and is the count right? | holds |
| `standard_env_orphan` | Is a live process always the main process? | violated |
| `restart_service` | Starts after shutdown, double entries, crash limit, turn of every queued program | holds |
| `shutdown` | Which servers can be left, and does the daemon end? | holds |
| `shutdown_all_stopped` | "All servers stopped" (shutdown.go:33) | violated |
| `registry` | Does what an answered request says stay true, through crashes and other requests? When can a request take another server's entry or data? When can the daemon not start again? | holds |
| `registry_reload` | Do Stop and Kill reach the process of a program (program.go:184)? | violated by Reload |
| `docker` | What do waits, callbacks, commands and the image flag mean with a dockerd that may refuse anything, overlapping starts and restarts? | holds |
| `operations` | Is what a successful installation installed whole? Is a good cached file kept? Does a move keep its files? | holds |
| `sessions` | Are refreshes apart? Is a torn file known to somebody, and a download of one file? Does an open socket get every line? | holds |

The four violations:

1. *A failed start blocks the next one.* `ttyExecuteAsync` raises the WaitGroup at
   tty.go:62 and returns at tty.go:68 without lowering it when `pty.Start` fails.
   The next call sleeps at tty.go:52. If the restart queue makes it, the queue
   stops for all programs. `StartSettles` shows that nothing else blocks a start.
2. *The standard environment loses a process.* `Done` at standard.go:178 lets a
   waiting start go on; it stores its `Cmd` and starts it, and the old `handleClose`
   then releases and clears that one. `GracefulIsTrue` and `ToldAtEnd` are what the
   callbacks still guarantee.
3. *A server is started during the shutdown.* `processQueue` has the program in
   hand, the shutdown's goroutine sees it not running, then it is launched.
   `OnlyFreshLeft` shows that this and a failed `Stop` are the only ways to leave
   a server behind when "All servers stopped" is logged.
4. *Reload loses a running process.* `CopyFrom` (program.go:432) replaces the
   Environment; the process belongs to the old one, which nothing refers to any more.

Several properties name their exceptions, and those are what the code really does.
`AnswersTrue` promises an edited server an entry after a restart only where its file
still decodes, which no file that Save wrote does. It has two more exceptions. A Delete whose
`os.Remove` failed leaves a file that Get loads for each request; the next Delete does not
find the server in `allPrograms` (loader.go:181), is answered 204 and removes nothing, and the
server is back after a restart. And a server that was told to be gone has no directory only if
no Create ever named that directory, or another one for that server, as its root.
`DataKept` has the other half of this: a Create that names another server's directory fails at
`os.Mkdir`, and its deferred revert (loader.go:131) removes that server's data.
`FlagMeansPull` allows for the flag
that a failed pull leaves set, `StartSettles` of `DockerEnv` for a container whose start
dockerd refused, `InputHasConnection` and `WaitMeansGone` of `DockerEnv` for a container
that was there before this daemon and for calls that have overlapped: of two such calls
one can start the container the other made, when its own goroutine is done already.
Without any overlap they and `ToldAfterEnd` allow for the late `Close` of docker.go:104: `Done`
lets the next call pass, the old goroutine then closes that one's connection, and its copy
ends while the container runs. If dockerd refuses the stop that follows, the callback is
told, waiters are let go, and commands are written to a closed connection. TLC finds this
trace for each of the three when `CutLate` is left out.
`InstalledWhole` speaks of the jar a server has, not of spongeforge's, and allows for error
pages and for two downloads of one URL at once; `GoodCacheKept` for the process that writes
having missed the hash, or the file while it was not good; `MoveKeeps` for a target that is a file. `TornIsKnown` allows for failed and overlapping
uploads, `Heard` for lines between the buffer and the registration and for registrations
and lines that meet another change of the slice. The lines have to be named too: two
registrations that overlap can leave the slice shorter than its array, a third then
stores its socket in the place of one that is already there, and a line whose loop has
passed that place does not reach a socket whose own registration met nothing. With two
clients, as in the run, a line cannot miss anything that way; the proof for any number
asked for it, and TLC shows the case with six.

**Bounds.** Three executions are one that ends, one that waits for it and one that
waits for both, with and without a callback; one client is enough because clients
share no state with each other but the fields. The standard environment has two
executions, enough for a start that overtakes a `handleClose`. `restart_service`
has a program of each restart kind, two overlapping callbacks, a crash limit of 2
(so that counter and limit can differ by more than one step), one start over HTTP
and a queue of at most 3; `MaxQueue`, `Callback` and `MaxUserStarts` are bounds of
the model, not of the code. In `shutdown` one program restarts after a clean exit
and, being in a standard environment, tells a crash twice. The registry has two servers and two
requests at once, so that a request for one server comes between the steps of one for
the other, two programs alive and one process (`Slots`, `Procs`); variables have one value
in a Create and another in an edit, and a root may be either server's directory. Its
counterexample has one server, three programs and two processes. `docker` has two calls, one more than can
be meant, and one request; its invariants are proved for any number. `operations` has two installations that share two cached
files; only the first goes through the operations that touch no cache, since those of
two processes would not meet. `sessions` has two clients, of one kind or of the two kinds
that share files (`Scenes`), two paths, two uploads (`MaxUploads`) and two lines; four
inodes are one more than two paths and a download can keep. Deadlock is checked in
`operations`; the other models may come to rest, as the comment in each configuration
says.

**`Overlap`.** Two calls of `ExecuteAsync` that pass the `IsRunning` test together
run two processes; nothing but their count is claimed of that, so the other
properties are stated with `Overlap = FALSE`: a new call waits until the one before
it has started `handleClose`. The same goes for `UserStart`.
In `Registry` it says whether two requests that change the same server, or two Deletes,
are in progress at once: with `TRUE`, TLC finds `Kept` violated by the stale index of
loader.go:205 and `DataKept` by the revert of loader.go:131, so both are stated without.
`OneToken` and
`RetriesBounded` speak of daemons in which nobody starts a program over HTTP and of
programs whose exits are told once; otherwise a program can be queued twice and the
crash limit exceeded.

**Fairness.** A goroutine that can run does (weak fairness of `ExecuteAsync` after
its test, of `handleClose`, `processQueue`, the ticker and `afterExit`, of the
shutdown's goroutines), which is Go's scheduler. Nothing forces a process to exit, a
user to call, a program to obey its stop command, a web server that is not closed to
fail, a request to be answered, or a signal to come. A server that ignores the stop
command keeps `CompleteShutdown` waiting, but main returns as soon as the web server has
ended, and ends the daemon. `SignalEnds` names what prevents that: a signal that falls between
entry's test of `runService` and the start of the web server, which then is not closed, and a
request in flight, which a `stop?wait` of that very server is for as long as it runs. TLC
shows both to be real when they are left out. In
`DockerEnv` a call and its goroutine go on (dockerd answers every request, perhaps with
an error) and dockerd removes a container that has ended; no container has to end.
`Registry`, `Operations` and `Sessions` have no liveness properties and no fairness: a
client may stop at any point.

## What is proved

`TtyEnvProofs`, for any finite set of executions and any clients:

- `TypeCorrect`, `WaitCountCorrect`: `[]TypeOK` and `[]WaitCount`, whether or not
  starts overlap. The inductive invariant is `CountInv`: the types, the count, and
  that a `handleClose` that reaps knows its target. Each step moves at most one
  execution into or out of `Holding`, and a lemma on cardinalities does the rest;
  that the counter is never negative comes from the count.
- `LiveIsMainCorrect`, `NoCrashCorrect`, `WaitMeansGoneCorrect`: assuming
  `Overlap = FALSE`. `LiveIsMain` alone is not inductive: that `handleClose` waits
  for its own process needs that no other execution is past the WaitGroup. The
  strengthening `SerialInv` says so: at most one execution is in the call
  (`OneCall`), at most one is between `SetMain` and `Done` (`OneBusy`), a woken
  start is alone and the counter is still 0 (`WokenAlone`), that one is
  `mainProcess` exactly until it clears it (`MainIsBusy`), and the process, the
  verdict and what clients saw follow from the place it is at (`ProcByStage`,
  `VerdictByStage`, `SeenByClient`).
- `KeepsPromiseSafety`: under the same assumption `Spec` implies the initial
  condition and the steps of `MainProcess`, with `status` computed from `proc` and
  `ok`: every step is a Launch, an Exit, a Tell or a stutter.

`StandardEnvProofs`, for any finite set of executions and any clients:

- `TypeCorrect`, `WaitCountCorrect`: as above, whether or not starts overlap.
- `GracefulIsTrueCorrect`, `ToldAtEndCorrect`: assuming `Overlap = FALSE`. Here `Done`
  comes before the judging, so a start that follows may take `mainProcess` over while
  `handleClose` still uses it. `SerialInv` says what is left: only one execution at a time
  is between the WaitGroup and its own `Done` (`OneCall`, `OneBusy`, `WokenAlone`), a
  process is started by its own execution and `handleClose` reaps its own (`MainIsOwn`,
  `ProcByStage`), a verdict of success is true from then on (`VerdictIsTrue`), and what a
  callback was told follows from the place of its `handleClose` (`ToldByStage`).

`RestartServiceProofs`, for any programs, callbacks and limits:

- `TypeCorrect`: `[]TypeOK`.
- `LateBoundedCorrect`: `[]LateBounded`. The invariant `LateInv` bounds the starts
  already made by the starts still coming: once the service has stopped, `late`
  plus the program in hand plus the tick in the channel is at most 2, and no step
  adds a tick.
- `OneTokenCorrect`, `RetriesBoundedCorrect`: `[]OneToken` and `[]RetriesBounded`. A sum of
  five counts is not inductive, so `TokenInv` says which places exclude which
  (`OnePlace`), and the lemma `OnePlaceCounts` gets the sum from it. `Counted` puts
  `CrashCounter` between the restarts made and the limit, with an `afterExit` that
  holds a value of it not behind: that needs one place, or a second `afterExit` could have
  counted in between.

`ShutdownProofs`, for the daemon in which queue and shutdown run together:

- `QueueInDaemon`: `LateBounded`, `OneToken` and `RetriesBounded` hold there too, since every
  step of the daemon is one of the restart queue's or leaves its variables alone
  (`QueueSteps`).
- `ShutdownTypeCorrect`, `OnlyFreshLeftCorrect`: `[]ShutdownTypeOK` and `[]OnlyFreshLeft`.
  `LeftInv` has it of each program from the time its goroutine is done, whether the rest
  is done or not: what runs then is fresh or could not be told to stop. "All servers
  stopped" is logged when all are done.

`RegistryProofs`, for any servers, requests, programs and processes:

- `TypeInvariant`, `TypeCorrect`: `[]TypeOK`, whether or not requests overlap. The types
  alone are not inductive, because a request reads the program it holds: `TypeInv` adds
  that whatever `allPrograms`, a request or a running process refers to is a program
  (`Live`), which is what `Heap` must preserve, and what data each place of a request
  has; `Quiet` adds that a daemon that is not up holds nothing.
- `KeptCorrect`: assuming `Overlap = FALSE`, `[][...]` of `Kept`. The invariant is that the
  index a Delete has kept still is the place of its program: appends of a Create do not
  move it, and there is no other Delete.
- `AnswersTrueCorrect`, `DeadByTornFileCorrect`, `DataKeptCorrect`: assuming
  `Overlap = FALSE`. `AnswersTrue` speaks of servers that no request works on, so nothing
  in it survives the beginning of a request; `AnswersInv` says the rest. `RootsInv`: a program
  that works in another server's directory, or whose file says so, came from a Create that
  named it, so both servers are in `apart`. `Unique`: no two
  entries of `allPrograms` are of one server. `Fact`: what the last answer says of file,
  directory and entries. `Owner`: a request that changes a server is the only one to do
  so, and works on a program of that server. `Stage`: what is on disk and in
  `allPrograms` at each point of such a request, which is what its answer, or its revert,
  makes a `Fact` of again. `Whole`: a file that loads is that of an entry, unless a Delete has
  left it or a Create is about to append; this is why the Delete that finds no entry is
  right to say that the server is gone, but for the file left. And only an empty file makes the daemon panic.

`DockerEnvProofs`, for any finite set of calls and any requests:

- `TypeCorrect`: `[](TypeOK /\ Count)`, where `Count` has `wg` be the number of goroutines
  between `Add` and `Done`; without it nothing keeps `wg` from going below zero.
- `ToldCorrect`: `[]ToldAfterEnd`, however calls overlap. `ToldInv` adds that the field's
  connection is never to an older container than any call attached to
  (`ConnectionIsNewest`), so a goroutine that has come to the end of its stream is that of
  a container that has ended, or its connection was closed; and that whoever closed it
  before its container had ended has told a callback of its own, so it was another call's
  goroutine (`CutsAreLate`): a connection is read first by the call that made it
  (`Unread`, `ReadsItsOwn`).
- `FlagCorrect`: `[]FlagMeansPull`, which is inductive.
- `WaitCorrect`, `InputCorrect`: `[]WaitMeansGone` and `[]InputHasConnection`. `Alone` says
  what holds until calls overlap: one call at a time, no container runs until it starts
  one, and a running container of this daemon has the connection, and a goroutine that `wg`
  counts unless a late `Close` has cut it off (`CutOff`). `SeenRan` adds that a container once seen running is never "created" again.

`OperationsProofs`, for any processes, directions, files and sources:

- `TypeCorrect`: `[](TypeOK /\ PlanKnown)`: only operations with a factory are still to come.
- `InstalledCorrect`: `[]InstalledWhole`. `CacheInv` adds what a process knows of the cached
  file between its hash and the copy (`HashTrue`, `CopyGood`), and that no process
  writes a file another is between hash and copy of without that one being `spoilt`
  (`WritersSpoil`). `GoodCacheKeptCorrect` follows from it: the process
  that writes is one that did not find the file good (`WriteBad`).
- `MoveKeepsCorrect`: `MoveKeeps`. `MovesFew` carries the outcome of `validateMove` through
  the renames that follow: what is moved to a target that is missing is one file.

`SessionsProofs`, for any clients, paths, inodes and lines:

- `RefreshesApartCorrect`: `[]RefreshesApart`. The invariant `Asking` adds that a login
  that asks the panel holds the lock, so that when one gets its answer no other asks.
- `TornIsKnownCorrect`, `OneFileCorrect`: `[]TornIsKnown` and `[]OneFile`. `FilesInv` follows
  each operation: the only upload of an inode that nobody is to blame for has written
  all there is (`Uploaded`), and a download whose inode nobody has written to has delivered
  the first parts of it (`Downloaded`). That an inode nothing refers to is always there
  (`FreeInode`) is a lemma on cardinalities, from `FilesAssumption`.
- `HeardCorrect`: `[]Heard`. `ConsoleInv` is about every slice still in use: `sockets`, and
  what a registration or a removal has read (`Slices`). A socket stays in all of them
  (`Keeps`) because what a removal takes out is gone or was written over in a race
  (`Removes`); a registration, or a line, that is not in `raced` is alone (`Alone`,
  `Sends`); and while such a line is sent, a socket that has not got it is still in front
  of the loop (`Sends`).
- `TypeCorrect`: `[]TypeOK`, from the three invariants together.

The only assumptions are those on the constants, each named where the constants are
declared: `ExecAssumption`, `RestartAssumption`, `RegistryAssumption` (the values of a
server's variables are none of the marks of `told`), `DockerAssumption`,
`OperationsAssumption`, `ClientsAssumption`, `FilesAssumption` (an inode for each path and
each client: the file system does not run out), `ConsoleAssumption`. `Overlap = FALSE` is a
hypothesis where it is named above, and the runs have the same.

Only model-checked, because the prover has no rule for fairness and `ENABLED`: the
liveness properties (`StartSettles` of both environments, `QueueServes`, `SignalEnds`,
`ToldAtEnd` of `DockerEnv`) and the fairness part of `KeepsPromise`. The four violations
are TLC's.

## Not modelled

- `GetStats` reads and changes nothing; `WaitForMainProcessFor` with a timeout has
  no caller. The Windows build tests a process differently.
- `Execute` (environment.go:88): in the tty, standard and docker environments it
  ends in a nil `WaitFunction`, so a `command` operation panics after it has started
  its process. The models of environments start at `ExecuteAsync`, `Operations` has the
  panic; pre- and post-execution steps are taken to return, with or without an error.
- The lxd environment cannot be created: no loader registers it.
- Registry: an assignment of `allPrograms` is one step though Go could tear it, a revert
  is taken to succeed, processes of a daemon that has crashed are strangers to the next,
  and a websocket keeps the program it was opened for, whatever becomes of it. A root is a
  server's directory: one outside of them concerns no other server, and one that holds
  several (the servers' folder itself) is not modelled.
- Docker: `GetStats`, a client created by two callers at once, calls still on their way
  to dockerd when the daemon ends, and a name that is a part of another's (docker.go:275).
- Operations: the jars are what is told apart; two installations of one server at once,
  a URL of one file that is the directory of another, and the fate of temporary files are
  not. A cached file that cannot be opened is an error, although the
  message that is logged says it will be downloaded (download.go:126).
- Files: a path is a file or an empty directory, without links; empty uploads, and what
  the user that runs the daemon may not do, are failures like others.
- Console: two writers of one websocket at once, and the copy of the connection that the
  manager keeps; the ring buffer drops no line of so few.
- SFTP's key file and listener, `Stop` and the restart with the web server; the check of a
  request's token and scopes; encoding, logging, configuration and messages, which are
  I/O or data without a protocol of their own. Migration and the other commands are run by
  hand.

## Plan

Done: all modules above, and a theorem for every invariant and action property of the
passing runs. Next: an abstract specification that the standard environment does
implement, since a lost process keeps it from implementing `MainProcess`; that each
program of `RestartService` steps as `MainProcess` allows, which puts the proofs of queue
and environment together; and the safety facts under `QueueServes` and `SignalEnds` (a
queued program leaves the queue only for `processQueue`, the two shutdowns never go back).
