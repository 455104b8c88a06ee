----------------------------- MODULE DockerEnv -----------------------------
(***************************************************************************)
(* The docker environment of one server (environments/impl/docker/         *)
(* docker.go).  Calls of ExecuteAsync, one of which may begin while        *)
(* another is in progress, the goroutine each of them leaves behind, the   *)
(* requests that act on the main process, and dockerd, which answers every *)
(* call, perhaps with an error.  The container is known by name, so every  *)
(* call acts on whatever container has that name when dockerd gets to it.  *)
(*                                                                         *)
(* Containers are numbered in the order they are created, from 1.  A       *)
(* connection is known by the call that attached it.  The daemon can end   *)
(* at any time and is started again: containers survive it.                *)
(***************************************************************************)
EXTENDS Integers, Sequences, FiniteSets

CONSTANTS Exec,     \* the calls of ExecuteAsync, each with a callback
          Client,   \* the requests that act on the main process
          None      \* Go's zero value of a connection

ASSUME DockerAssumption == IsFiniteSet(Exec) /\ None \notin Exec

VARIABLES at,                \* where each call and request is
          go,                \* where the goroutine of each call is
          own,               \* the container a call attached to
          stream,            \* the connection its goroutine copies the output of
          cut,               \* the connections closed before their container had ended
          err,               \* the variable err, which a call shares with its goroutine
          told,              \* what the callback of a call was called with
          saw,               \* the container a request found running
          connection, wg, downloadingImage,   \* fields of the environment
          image,             \* whether dockerd has the image
          cont,              \* state of the container with the name
          n,                 \* containers created so far
          inherited,         \* those of them created before this daemon began
          overlapped         \* history: two calls have been in progress at once

fields  == <<connection, wg, downloadingImage>>
dockerd == <<image, cont, n>>
history == <<inherited, overlapped>>
vars == <<at, go, own, stream, cut, err, told, saw, fields, dockerd, history>>

Init == /\ at = [x \in Exec \cup Client |-> "new"]
        /\ go = [e \in Exec |-> "none"]
        /\ own = [e \in Exec |-> 0] /\ stream = [e \in Exec |-> None] /\ cut = {}
        /\ err = [e \in Exec |-> FALSE]
        /\ told = [e \in Exec |-> <<>>]
        /\ saw = [c \in Client |-> 0]
        /\ connection = None /\ wg = 0 /\ downloadingImage = FALSE
        /\ image \in BOOLEAN
        /\ cont = "absent" /\ n = 0
        /\ inherited = 0 /\ overlapped = FALSE

\* The container with number k is no more, or will not run again.
Ended(k) == k < n \/ cont \in {"exited", "absent"}

Goto(x, place) == at' = [at EXCEPT ![x] = place]
InProgress(e) == at[e] \notin {"new", "failed", "pullFailed", "returned", "lost"}

-----------------------------------------------------------------------------
(* dockerExecuteAsync, a step for each call of dockerd                     *)

\* IsRunning, whose two calls of dockerd are one look at the container.
Check(e) ==
    /\ at[e] = "new"
    /\ \/ Goto(e, "failed")
       \/ cont # "running" /\ Goto(e, "wait")
    /\ overlapped' = (overlapped \/ \E f \in Exec \ {e} : InProgress(f))
    /\ UNCHANGED <<go, own, stream, cut, err, told, saw, fields, dockerd, inherited>>

Wait(e) ==
    /\ at[e] = "wait" /\ wg = 0
    /\ Goto(e, "flag")
    /\ UNCHANGED <<go, own, stream, cut, err, told, saw, fields, dockerd, history>>

Flag(e) ==
    /\ at[e] = "flag"
    /\ Goto(e, IF downloadingImage THEN "failed" ELSE "exists")
    /\ UNCHANGED <<go, own, stream, cut, err, told, saw, fields, dockerd, history>>

doesContainerExist(e) ==
    /\ at[e] = "exists"
    /\ \/ Goto(e, "failed")
       \/ Goto(e, IF cont = "absent" THEN "image" ELSE "attach")
    /\ UNCHANGED <<go, own, stream, cut, err, told, saw, fields, dockerd, history>>

\* pullImage, up to the flag.
ImageList(e) ==
    /\ at[e] = "image"
    /\ \/ Goto(e, "failed") /\ UNCHANGED downloadingImage
       \/ image /\ Goto(e, "create") /\ UNCHANGED downloadingImage
       \/ ~image /\ Goto(e, "pull") /\ downloadingImage' = TRUE
    /\ UNCHANGED <<go, own, stream, cut, err, told, saw, connection, wg, dockerd, history>>

\* Mutant: the flag is left set by a pull that succeeds.
ImagePullLeaves(e) ==
    /\ at[e] = "pull"
    /\ \/ Goto(e, "pullFailed") /\ UNCHANGED image
       \/ Goto(e, "create") /\ image' = TRUE
    /\ UNCHANGED <<go, own, stream, cut, err, told, saw, fields, cont, n, history>>

\* An error of ImagePull leaves the flag set; one of the copy does not.
ImagePull(e) ==
    /\ at[e] = "pull"
    /\ \/ Goto(e, "pullFailed") /\ UNCHANGED <<downloadingImage, image>>
       \/ Goto(e, "failed") /\ downloadingImage' = FALSE /\ UNCHANGED image
       \/ Goto(e, "create") /\ downloadingImage' = FALSE /\ image' = TRUE
    /\ UNCHANGED <<go, own, stream, cut, err, told, saw, connection, wg, cont, n, history>>

\* dockerd refuses a second container of the name.
createContainer(e) ==
    /\ at[e] = "create"
    /\ \/ Goto(e, "failed") /\ UNCHANGED dockerd
       \/ cont = "absent" /\ Goto(e, "attach") /\ cont' = "created" /\ n' = n + 1 /\ UNCHANGED image
    /\ UNCHANGED <<go, own, stream, cut, err, told, saw, fields, history>>

\* Mutant: := declares a connection of the function's own.
ContainerAttachLocal(e) ==
    /\ at[e] = "attach"
    /\ \/ Goto(e, "failed") /\ UNCHANGED own
       \/ cont # "absent" /\ Goto(e, "add") /\ own' = [own EXCEPT ![e] = n]
    /\ UNCHANGED <<go, stream, cut, err, told, saw, fields, dockerd, history>>

\* An error assigns the zero value.
ContainerAttach(e) ==
    /\ at[e] = "attach"
    /\ \/ Goto(e, "failed") /\ connection' = None /\ UNCHANGED own
       \/ /\ cont # "absent"
          /\ Goto(e, "add")
          /\ connection' = e /\ own' = [own EXCEPT ![e] = n]
    /\ UNCHANGED <<go, stream, cut, err, told, saw, wg, downloadingImage, dockerd, history>>

\* Mutant: the goroutine counts itself, as late as it likes.
AddLater(e) ==
    /\ at[e] = "add"
    /\ Goto(e, "start")
    /\ go' = [go EXCEPT ![e] = "begin"]
    /\ UNCHANGED <<own, stream, cut, err, told, saw, fields, dockerd, history>>

\* Wait.Add and the go statement.
Add(e) ==
    /\ at[e] = "add"
    /\ Goto(e, "start")
    /\ wg' = wg + 1
    /\ go' = [go EXCEPT ![e] = "begin"]
    /\ UNCHANGED <<own, stream, cut, err, told, saw, connection, downloadingImage, dockerd, history>>

\* dockerd starts the container, takes a running one for started, or refuses
\* and either removes the container or leaves it as created.
ContainerStart(e) ==
    /\ at[e] = "start"
    /\ Goto(e, "return")
    /\ \/ /\ cont \in {"created", "running"}
          /\ cont' = "running" /\ err' = [err EXCEPT ![e] = FALSE]
       \/ /\ cont' \in IF cont = "created" THEN {"created", "exited"} ELSE {cont}
          /\ err' = [err EXCEPT ![e] = TRUE]
    /\ UNCHANGED <<go, own, stream, cut, told, saw, fields, image, n, history>>

\* The caller returns what err holds by now.
Return(e) ==
    /\ at[e] = "return"
    /\ Goto(e, IF err[e] THEN "failed" ELSE "returned")
    /\ UNCHANGED <<go, own, stream, cut, err, told, saw, fields, dockerd, history>>

dockerExecuteAsync(e) ==
    \/ Check(e) \/ Wait(e) \/ Flag(e) \/ doesContainerExist(e) \/ ImageList(e) \/ ImagePull(e)
    \/ createContainer(e) \/ ContainerAttach(e) \/ Add(e) \/ ContainerStart(e) \/ Return(e)

-----------------------------------------------------------------------------
(* The daemon ends, by a crash or otherwise, and is started again.         *)
Restart ==
    /\ at' = [x \in Exec \cup Client |-> IF at[x] = "new" THEN "new" ELSE "lost"]
    /\ go' = [e \in Exec |-> IF go[e] = "none" THEN "none" ELSE "end"]
    /\ connection' = None /\ wg' = 0 /\ downloadingImage' = FALSE
    /\ inherited' = n
    /\ UNCHANGED <<own, stream, cut, err, told, saw, dockerd, overlapped>>

-----------------------------------------------------------------------------
(* The goroutine: io.Copy ends with the container its stream belongs to,   *)
(* or when that connection is closed.                                      *)

\* It reads d.connection when it begins: a nil one panics.
Begin(e) ==
    /\ go[e] = "begin"
    /\ IF connection = None
       THEN Restart
       ELSE /\ go' = [go EXCEPT ![e] = "copy"]
            /\ stream' = [stream EXCEPT ![e] = connection]
            /\ UNCHANGED <<at, own, cut, err, told, saw, fields, dockerd, history>>

\* Mutant: the output is copied by a goroutine of its own.
CopyAside(e) ==
    /\ go[e] = "copy"
    /\ go' = [go EXCEPT ![e] = "stop"]
    /\ UNCHANGED <<at, own, stream, cut, err, told, saw, fields, dockerd, history>>

CopyEnds(e) ==
    /\ go[e] = "copy" /\ (Ended(own[stream[e]]) \/ stream[e] \in cut)
    /\ go' = [go EXCEPT ![e] = "stop"]
    /\ UNCHANGED <<at, own, stream, cut, err, told, saw, fields, dockerd, history>>

\* An error if there is no container any more; otherwise it stops, if it runs.
ContainerStop(e) ==
    /\ go[e] = "stop"
    /\ go' = [go EXCEPT ![e] = "done"]
    /\ \/ /\ cont # "absent"
          /\ cont' = IF cont = "running" THEN "exited" ELSE cont
          /\ err' = [err EXCEPT ![e] = FALSE]
       \/ err' = [err EXCEPT ![e] = TRUE] /\ UNCHANGED cont
    /\ UNCHANGED <<at, own, stream, cut, told, saw, fields, image, n, history>>

\* Mutant: the counter is left alone when the container could not be stopped.
DoneIfStopped(e) ==
    /\ go[e] = "done"
    /\ go' = [go EXCEPT ![e] = "tell"]
    /\ wg' = IF err[e] THEN wg ELSE wg - 1
    /\ UNCHANGED <<at, own, stream, cut, err, told, saw, connection, downloadingImage, dockerd, history>>

Done(e) ==
    /\ go[e] = "done"
    /\ go' = [go EXCEPT ![e] = "tell"]
    /\ wg' = wg - 1
    /\ UNCHANGED <<at, own, stream, cut, err, told, saw, connection, downloadingImage, dockerd, history>>

\* Mutant: the callback is left out after an error, which is only logged.
TellIfStopped(e) ==
    /\ go[e] = "tell"
    /\ go' = [go EXCEPT ![e] = "close"]
    /\ told' = IF err[e] THEN told ELSE [told EXCEPT ![e] = Append(@, TRUE)]
    /\ UNCHANGED <<at, own, stream, cut, err, saw, fields, dockerd, history>>

Tell(e) ==
    /\ go[e] = "tell"
    /\ go' = [go EXCEPT ![e] = "close"]
    /\ told' = [told EXCEPT ![e] = Append(@, ~err[e])]
    /\ UNCHANGED <<at, own, stream, cut, err, saw, fields, dockerd, history>>

\* The deferred d.connection.Close(): the connection the field holds by now,
\* which a call that Done let pass may have replaced; a nil one panics.
Close(e) ==
    /\ go[e] = "close"
    /\ IF connection = None
       THEN Restart
       ELSE /\ go' = [go EXCEPT ![e] = "end"]
            /\ cut' = IF Ended(own[connection]) THEN cut ELSE cut \cup {connection}
            /\ UNCHANGED <<at, own, stream, err, told, saw, fields, dockerd, history>>

Goroutine(e) == Begin(e) \/ CopyEnds(e) \/ ContainerStop(e) \/ Done(e) \/ Tell(e) \/ Close(e)

-----------------------------------------------------------------------------
(* Kill, SendCode, ExecuteInMainProcess and WaitForMainProcessFor          *)

\* IsRunning; what is done next is done to a container that may be another.
ClientCheck(c) ==
    /\ at[c] = "new"
    /\ \/ Goto(c, "failed") /\ UNCHANGED saw
       \/ /\ cont = "running"
          /\ \E place \in {"kill", "write", "waiting"} : Goto(c, place)
          /\ saw' = [saw EXCEPT ![c] = n]
    /\ UNCHANGED <<go, own, stream, cut, err, told, fields, dockerd, history>>

\* A signal that the container may survive, if it is not SIGKILL.
Kill(c) ==
    /\ at[c] = "kill"
    /\ Goto(c, "returned")
    /\ cont' \in IF cont = "running" THEN {"running", "exited"} ELSE {cont}
    /\ UNCHANGED <<go, own, stream, cut, err, told, saw, fields, image, n, history>>

\* The error of the write is dropped: of a command to a closed connection, too.
ExecuteInMainProcess(c) ==
    /\ at[c] = "write"
    /\ Goto(c, IF connection = None THEN "panicked"
               ELSE IF connection \in cut THEN "dropped" ELSE "returned")
    /\ UNCHANGED <<go, own, stream, cut, err, told, saw, fields, dockerd, history>>

\* The timer's Kill while it waits, and the end of the wait.
WaitForMainProcessFor(c) ==
    /\ at[c] = "waiting"
    /\ \/ wg = 0 /\ Goto(c, "back") /\ UNCHANGED cont
       \/ cont = "running" /\ cont' = "exited" /\ UNCHANGED at
    /\ UNCHANGED <<go, own, stream, cut, err, told, saw, fields, image, n, history>>

ClientStep(c) == ClientCheck(c) \/ Kill(c) \/ ExecuteInMainProcess(c) \/ WaitForMainProcessFor(c)

-----------------------------------------------------------------------------
(* dockerd: the container ends, and is removed after that (AutoRemove).    *)
ContainerExit == /\ cont = "running" /\ cont' = "exited"
                 /\ UNCHANGED <<at, go, own, stream, cut, err, told, saw, fields, image, n, history>>
AutoRemove == /\ cont = "exited" /\ cont' = "absent"
              /\ UNCHANGED <<at, go, own, stream, cut, err, told, saw, fields, image, n, history>>

-----------------------------------------------------------------------------
Next == \/ \E e \in Exec : dockerExecuteAsync(e) \/ Goroutine(e)
        \/ \E c \in Client : ClientStep(c)
        \/ ContainerExit \/ AutoRemove \/ Restart

\* dockerd answers every call; a container need not end.
Fairness == /\ \A e \in Exec : WF_vars(dockerExecuteAsync(e) /\ at[e] # "new") /\ WF_vars(Goroutine(e))
            /\ WF_vars(AutoRemove)

Spec == Init /\ [][Next]_vars /\ Fairness

-----------------------------------------------------------------------------
TypeOK == /\ at \in [Exec \cup Client ->
                      {"new", "failed", "wait", "flag", "exists", "image", "pull", "pullFailed",
                       "create", "attach", "add", "start", "return", "returned", "lost",
                       "kill", "write", "waiting", "back", "panicked", "dropped"}]
          /\ go \in [Exec -> {"none", "begin", "copy", "stop", "done", "tell", "close", "end"}]
          /\ own \in [Exec -> 0 .. n] /\ stream \in [Exec -> Exec \cup {None}] /\ cut \subseteq Exec
          /\ err \in [Exec -> BOOLEAN]
          /\ told \in [Exec -> Seq(BOOLEAN)]
          /\ saw \in [Client -> 0 .. n]
          /\ connection \in Exec \cup {None} /\ wg \in Nat /\ downloadingImage \in BOOLEAN
          /\ image \in BOOLEAN /\ n \in Nat
          /\ cont \in {"absent", "created", "running", "exited"}
          /\ inherited \in 0 .. n /\ overlapped \in BOOLEAN

\* The goroutine of another call, which has told its callback, has closed it.
CutLate(x) == x \in cut /\ \E f \in Exec \ {x} : told[f] # <<>>
Severed(k) == \E x \in Exec : own[x] = k /\ CutLate(x)

(* When a wait for the main process is over, the container that was running  *)
(* when it began has ended, if this daemon had started it: the shutdown and  *)
(* `stop?wait` rely on it.  Of calls that have overlapped, one may start the *)
(* container another made, after its own goroutine is done (docker.go:121);  *)
(* and Done comes before the deferred Close of docker.go:104, which may meet *)
(* the connection of the next call, whose goroutine then is done early.      *)
WaitMeansGone == \A c \in Client : at[c] = "back" =>
    saw[c] <= inherited \/ Ended(saw[c]) \/ overlapped \/ Severed(saw[c])

(* afterExit is called at most once for a call of ExecuteAsync, and while    *)
(* the container that call attached to runs only if the goroutine of another *)
(* call has closed the connection it read (docker.go:104), however calls     *)
(* overlap.                                                                  *)
ToldAfterEnd == \A e \in Exec : told[e] # <<>> =>
    Len(told[e]) = 1 /\ (Ended(own[e]) \/ CutLate(stream[e]))

(* A command finds no connection (docker.go:138 panics then) only where the  *)
(* container was there before this daemon, or ended since IsRunning looked,  *)
(* or two calls of ExecuteAsync have overlapped; it is written to a closed   *)
(* one, and lost without an error, only where the late Close of an earlier   *)
(* call has cut off the container, besides.                                  *)
InputHasConnection == \A c \in Client :
    /\ at[c] = "panicked" => saw[c] <= inherited \/ Ended(saw[c]) \/ overlapped
    /\ at[c] = "dropped" => saw[c] <= inherited \/ Ended(saw[c]) \/ overlapped \/ Severed(saw[c])

(* "image downloading" is answered only during a pull or after one failed    *)
(* (docker.go:323 then leaves the flag set until the daemon ends).           *)
FlagMeansPull == downloadingImage => \E e \in Exec : at[e] \in {"pull", "pullFailed"}

(* A start waits for ever only behind a container that runs on, or that was  *)
(* created and never started (a refused ContainerStart, docker.go:121).      *)
StartSettles == \A e \in Exec :
    <>[](at[e] = "wait") => <>[](cont \in {"created", "running"})

(* The end of the container a call attached to is told to that call, unless  *)
(* the daemon ends, or an overlapping call has replaced the connection its   *)
(* goroutine was to read.                                                    *)
ToldAtEnd == \A e \in Exec :
    (go[e] # "none" /\ Ended(own[e])) ~> (told[e] # <<>> \/ at[e] = "lost" \/ overlapped)
=============================================================================
