------------------------------ MODULE ExecEnv ------------------------------
(***************************************************************************)
(* The vocabulary that the tty and the standard environment share: the     *)
(* fields of their structs, the Go library objects they use (exec.Cmd,     *)
(* os.Process, sync.WaitGroup), the operating system's processes, and the  *)
(* methods whose code is the same in tty.go and standard.go (IsRunning,    *)
(* Kill, SendCode, ExecuteInMainProcess, WaitForMainProcess).  TtyEnv and  *)
(* StandardEnv add ExecuteAsync and handleClose, whose statements differ   *)
(* in order.  None of these fields is guarded by a lock, so every read or  *)
(* write that another goroutine can come between is a step of its own.     *)
(* Reads of a field with no call and no store between them are one load in *)
(* the code gc generates, so a test of mainProcess and the use of it that  *)
(* follows (IsRunning, the judgement and the release in handleClose) see   *)
(* the same value and are one step.                                        *)
(*                                                                         *)
(* An execution stands for one call of ExecuteAsync together with the      *)
(* exec.Cmd it creates and the handleClose goroutine it starts; a client   *)
(* for one call of another method.                                         *)
(***************************************************************************)
EXTENDS Integers, FiniteSets, Sequences

CONSTANTS Exec,      \* the calls of ExecuteAsync
          Client,    \* the calls of the other methods
          Tracked,   \* executions with a callback; a `command` operation gives none
          Overlap,   \* whether two calls of ExecuteAsync may be in progress at once
          None       \* Go's nil

ASSUME ExecAssumption == /\ IsFiniteSet(Exec)
                         /\ Tracked \subseteq Exec
                         /\ Exec \cap Client = {}
                         /\ Overlap \in BOOLEAN
                         /\ None \notin Exec \cup Client

VARIABLES at,           \* where each call or its handleClose goroutine is
          mainProcess,  \* field mainProcess: the Cmd of an execution, or nil
          stdInWriter,  \* field stdInWriter: the input of an execution's process, or nil
          wg,           \* counter of the WaitGroup BaseEnvironment.Wait
          proc,         \* state of the process of each Cmd
          ok,           \* whether that process exited with status 0
          waited,       \* Cmd.Wait has been called (Cmd.finished)
          released,     \* Process.Release has been called (its pid is -1)
          target,       \* the Cmd a handleClose goroutine waits for
          verdict,      \* what handleClose knows of the exit: err == nil, then success
          told,         \* the arguments the callback was called with
          crashed,      \* a panic nothing recovered ended the daemon
          saw           \* the Cmd a client found running

fields  == <<mainProcess, stdInWriter>>
os      == <<proc, ok>>
cmd     == <<waited, released>>
closing == <<target, verdict, told>>
vars    == <<at, fields, wg, os, cmd, closing, crashed, saw>>

Caller == Exec \cup Client

\* ExecuteAsync up to and including `go handleClose`
InCall == {"wait", "blocked", "woken", "add", "set", "spawn", "started"}

\* a "lost" call returned an error, or panicked, between Wait.Add and `go handleClose`
ExecAt == InCall \cup {"idle", "refused", "panicked", "lost", "close", "reap", "judge",
                      "release", "clear", "clearInput", "done", "tell", "end"}
ClientAt == {"idle", "kill", "code", "write", "wait", "blocked", "woken", "back", "panicked", "end"}

\* Process.Signal(0) reaches a process until it is reaped, zombies included.
IsRunning == /\ mainProcess # None
             /\ proc[mainProcess] \in {"live", "zombie"}
             /\ ~released[mainProcess]

ExecInit == /\ at = [p \in Caller |-> "idle"]
            /\ mainProcess = None /\ stdInWriter = None
            /\ wg = 0
            /\ proc = [e \in Exec |-> "none"]
            /\ ok = [e \in Exec |-> FALSE]
            /\ waited = [e \in Exec |-> FALSE]
            /\ released = [e \in Exec |-> FALSE]
            /\ target = [e \in Exec |-> None]
            /\ verdict = [e \in Exec |-> FALSE]
            /\ told = [e \in Exec |-> <<>>]
            /\ crashed = FALSE
            /\ saw = [c \in Client |-> None]

Goto(p, from, to) == at[p] = from /\ at' = [at EXCEPT ![p] = to]

-----------------------------------------------------------------------------
(* sync.WaitGroup                                                          *)

\* Wait(): returns at once when the counter is 0, else sleeps until Done
\* takes it to 0.
WgWait(p, next) ==
    /\ Goto(p, "wait", IF wg = 0 THEN next ELSE "blocked")
    /\ UNCHANGED <<fields, wg, os, cmd, closing, crashed, saw>>

\* A call that panics: a request handler recovers it, the restart queue's
\* goroutine and those of a handler do not.
Panic == crashed' \in BOOLEAN

\* A sleeper that finds the counter raised again when it runs panics:
\* "WaitGroup is reused before previous Wait has returned".
WgWake(p, next) ==
    /\ Goto(p, "woken", IF wg = 0 THEN next ELSE "panicked")
    /\ IF wg # 0 /\ p \in Exec THEN Panic ELSE UNCHANGED crashed
    /\ UNCHANGED <<fields, wg, os, cmd, closing, saw>>

WgDone(e, from, to) ==
    /\ at[e] = from
    /\ wg' = wg - 1
    /\ at' = [p \in Caller |-> IF p = e THEN to
                               ELSE IF at[p] = "blocked" /\ wg = 1 THEN "woken"
                               ELSE at[p]]
    /\ UNCHANGED <<fields, os, cmd, closing, crashed, saw>>

-----------------------------------------------------------------------------
(* The part of ExecuteAsync before Wait.Add, and Wait.Add                  *)

\* The IsRunning test of ExecuteAsync.
Check(e) ==
    /\ Overlap \/ \A f \in Exec : at[f] \notin InCall
    /\ Goto(e, "idle", IF IsRunning THEN "refused" ELSE "wait")
    /\ UNCHANGED <<fields, wg, os, cmd, closing, crashed, saw>>

AwaitEarlier(e) == WgWait(e, "add") \/ WgWake(e, "add")

\* Mutant: the WaitGroup is not raised.
RegisterWithoutAdd(e) ==
    Goto(e, "add", "set") /\ UNCHANGED <<fields, wg, os, cmd, closing, crashed, saw>>

\* Wait.Add(1)
Register(e) ==
    /\ Goto(e, "add", "set")
    /\ wg' = wg + 1
    /\ UNCHANGED <<fields, os, cmd, closing, crashed, saw>>

SetMain(e) ==
    /\ Goto(e, "set", "spawn")
    /\ mainProcess' = e
    /\ UNCHANGED <<stdInWriter, wg, os, cmd, closing, crashed, saw>>

-----------------------------------------------------------------------------
(* The parts of handleClose that both environments have                    *)

\* The call mainProcess.Wait(): a nil Cmd is a panic nothing recovers; a Cmd
\* that never started, is waited for already or was released gives an error.
CloseWait(e, next) ==
    /\ at[e] = "close"
    /\ IF mainProcess = None
       THEN /\ crashed' = TRUE
            /\ UNCHANGED <<at, waited, target>>
       ELSE LET refused == \/ proc[mainProcess] = "none"
                           \/ waited[mainProcess]
                           \/ released[mainProcess]
            IN  /\ target' = [target EXCEPT ![e] = mainProcess]
                /\ waited' = [waited EXCEPT ![mainProcess] = @ \/ proc[mainProcess] # "none"]
                /\ at' = [at EXCEPT ![e] = IF refused THEN next ELSE "reap"]
                /\ UNCHANGED crashed
    /\ UNCHANGED <<fields, wg, os, released, verdict, told, saw>>

\* Wait() returns: the process is reaped and err == nil says it exited with 0.
CloseReap(e, next) ==
    /\ Goto(e, "reap", next)
    /\ proc[target[e]] = "zombie"
    /\ proc' = [proc EXCEPT ![target[e]] = "gone"]
    /\ verdict' = [verdict EXCEPT ![e] = ok[target[e]]]
    /\ UNCHANGED <<fields, wg, ok, cmd, target, told, crashed, saw>>

\* mainProcess == nil || mainProcess.ProcessState == nil || err != nil, negated:
\* ProcessState is set by the Wait() that reaps.
HasState(e) == verdict[e] /\ mainProcess # None /\ proc[mainProcess] = "gone"

CloseRelease(e, from, to) ==
    /\ Goto(e, from, to)
    /\ released' = IF mainProcess = None THEN released
                   ELSE [released EXCEPT ![mainProcess] = @ \/ proc[mainProcess] # "none"]
    /\ UNCHANGED <<fields, wg, os, waited, closing, crashed, saw>>

CloseTell(e) ==
    /\ Goto(e, "tell", "end")
    /\ told' = IF e \in Tracked THEN [told EXCEPT ![e] = Append(@, verdict[e])] ELSE told
    /\ UNCHANGED <<fields, wg, os, cmd, target, verdict, crashed, saw>>

-----------------------------------------------------------------------------
(* The other methods, each an IsRunning test followed by its effect        *)

\* Each of them returns at once when nothing runs.
ClientCheck(c) ==
    /\ \E to \in {"kill", "code", "write", "wait"} : Goto(c, "idle", IF IsRunning THEN to ELSE "end")
    /\ saw' = [saw EXCEPT ![c] = IF IsRunning THEN mainProcess ELSE None]
    /\ UNCHANGED <<fields, wg, os, cmd, closing, crashed>>

\* mainProcess.Process: by now mainProcess may be nil, or a Cmd with no Process
\* yet; either panics, in the caller (a request handler, which recovers it).
UseProcess(c, from) ==
    Goto(c, from, IF mainProcess = None THEN "panicked"
                  ELSE IF proc[mainProcess] = "none" THEN "panicked" ELSE "end")

CanDie == mainProcess # None /\ proc[mainProcess] = "live" /\ ~released[mainProcess]

Kill(c) ==
    /\ UseProcess(c, "kill")
    /\ proc' = IF CanDie THEN [proc EXCEPT ![mainProcess] = "zombie"] ELSE proc
    /\ UNCHANGED <<fields, wg, ok, cmd, closing, crashed, saw>>

\* The signal may end the process.
SendCode(c) ==
    /\ UseProcess(c, "code")
    /\ \/ UNCHANGED proc
       \/ CanDie /\ proc' = [proc EXCEPT ![mainProcess] = "zombie"]
    /\ UNCHANGED <<fields, wg, ok, cmd, closing, crashed, saw>>

\* It writes to whatever stdInWriter is by now; what a program does with a
\* command is left to ProcExit.
ExecuteInMainProcess(c) ==
    /\ Goto(c, "write", IF stdInWriter = None THEN "panicked" ELSE "end")
    /\ UNCHANGED <<fields, wg, os, cmd, closing, crashed, saw>>

WaitForMainProcess(c) ==
    \/ WgWait(c, "back") \/ WgWake(c, "back")
    \/ Goto(c, "back", "end") /\ UNCHANGED <<fields, wg, os, cmd, closing, crashed, saw>>

ClientStep(c) == \/ ClientCheck(c) \/ Kill(c) \/ SendCode(c)
                 \/ ExecuteInMainProcess(c) \/ WaitForMainProcess(c)

\* A process ends, for any reason but a signal sent by this daemon.
ProcExit(e) ==
    /\ proc[e] = "live"
    /\ proc' = [proc EXCEPT ![e] = "zombie"]
    /\ \E s \in BOOLEAN : ok' = [ok EXCEPT ![e] = s]
    /\ UNCHANGED <<at, fields, wg, cmd, closing, crashed, saw>>

-----------------------------------------------------------------------------
TypeOK == /\ at \in [Caller -> ExecAt \cup ClientAt]
          /\ mainProcess \in Exec \cup {None} /\ stdInWriter \in Exec \cup {None}
          /\ wg \in Nat
          /\ proc \in [Exec -> {"none", "live", "zombie", "gone"}]
          /\ ok \in [Exec -> BOOLEAN]
          /\ waited \in [Exec -> BOOLEAN] /\ released \in [Exec -> BOOLEAN]
          /\ target \in [Exec -> Exec \cup {None}]
          /\ verdict \in [Exec -> BOOLEAN]
          /\ told \in [Exec -> Seq(BOOLEAN)]
          /\ crashed \in BOOLEAN
          /\ saw \in [Client -> Exec \cup {None}]

(* Kill, SendCode and IsRunning act on mainProcess, so a process that has  *)
(* not been reaped must be the one there, with a handle that still works:  *)
(* no started server becomes one the daemon cannot see or stop.            *)
LiveIsMain == \A e \in Exec : proc[e] \in {"live", "zombie"} => mainProcess = e /\ ~released[e]

(* No panic of ExecuteAsync or handleClose brings the daemon down.         *)
NoCrash == ~crashed

(* When WaitForMainProcess returns (stop with `wait`, and the shutdown of  *)
(* the daemon), the process its caller found running has ended.            *)
WaitMeansGone == \A c \in Client : at[c] = "back" => proc[saw[c]] = "gone"
=============================================================================
