------------------------------ MODULE Shutdown ------------------------------
(***************************************************************************)
(* How the daemon ends (shutdown/shutdown.go, entry/entry.go), composed    *)
(* with the restart queue.  Shutdown runs up to twice: called by the hook  *)
(* of SIGTERM, which waits for the goroutines it started and exits, and by *)
(* entry when the web server has returned, which does not wait.            *)
(***************************************************************************)
EXTENDS RestartService

VARIABLES runService,  \* entry's loop goes on
          web,         \* the web server listens
          inFlight,    \* requests it has yet to answer: `stop?wait` of a program, None for others
          hookAt,      \* where createHook's goroutine is
          entryAt,     \* where entry is
          prg,         \* where the goroutine of each Shutdown for each program is
          exited,      \* how the daemon ended, if it has
          fresh,       \* running programs launched after the hook's goroutine looked at them
          unstopped    \* running programs that the hook's goroutine failed to stop

daemon  == <<runService, web, hookAt, entryAt, exited>>
allVars == <<vars, daemon, inFlight, prg, fresh, unstopped>>

Shutdowns == {"hook", "entry"}
ShutdownAt == {"service", "close", "stopAll", "started"}

ShutdownTypeOK ==
    /\ runService \in BOOLEAN /\ web \in BOOLEAN
    /\ hookAt \in ShutdownAt \cup {"signal"}
    /\ entryAt \in ShutdownAt \cup {"loop", "listen", "serve"}
    /\ web \/ inFlight # {} => entryAt = "serve"
    /\ prg \in [Shutdowns -> [Program -> {"none", "check", "stop", "wait", "asleep", "done"}]]
    /\ exited \in {"no", "stopped", "returned"}
    /\ inFlight \ {None} \subseteq {p \in Program : status[p] = "up"}
    /\ fresh \cup unstopped \subseteq {p \in Program : status[p] = "up"}

ShutdownInit == /\ Init
                /\ runService = TRUE /\ web = FALSE /\ inFlight = {}
                /\ hookAt = "signal" /\ entryAt = "loop"
                /\ prg = [c \in Shutdowns |-> [p \in Program |-> "none"]]
                /\ exited = "no"
                /\ fresh = {} /\ unstopped = {}

-----------------------------------------------------------------------------
(* What a step of the restart queue or of a program means here             *)

Looked(p) == prg["hook"][p] \notin {"none", "check"}

\* An exit lowers the WaitGroup: the goroutines and the requests that wait for the
\* program return.
QueueOrProgramStep ==
    /\ ServiceStep \/ ProgramStep
    /\ prg' = [c \in Shutdowns |-> [p \in Program |->
                 IF prg[c][p] = "asleep" /\ status[p] = "up" /\ status'[p] = "down"
                 THEN "done" ELSE prg[c][p]]]
    /\ inFlight' = {r \in inFlight : r # None => status'[r] = "up"}
    /\ fresh' = {p \in Program : status'[p] = "up" /\ IF status[p] = "up" THEN p \in fresh
                                                                         ELSE Looked(p)}
    /\ unstopped' = {p \in unstopped : status'[p] = "up"}
    /\ UNCHANGED daemon

-----------------------------------------------------------------------------
(* Shutdown                                                                *)

At(c) == IF c = "hook" THEN hookAt ELSE entryAt

Advance(c, from, to) == /\ At(c) = from
                        /\ IF c = "hook" THEN hookAt' = to /\ UNCHANGED entryAt
                                         ELSE entryAt' = to /\ UNCHANGED hookAt

StopService(c) == /\ Advance(c, "service", "close")
                  /\ ShutdownService
                  /\ UNCHANGED <<inFlight, runService, web, exited, prg, fresh, unstopped>>

\* manners.Close(): it closes a server that listens, and not one yet to come.  It
\* takes no more requests, and those in flight go on.
CloseWeb(c) == /\ Advance(c, "close", "stopAll")
               /\ web' = FALSE
               /\ UNCHANGED <<vars, inFlight, runService, exited, prg, fresh, unstopped>>

StopAll(c) == /\ Advance(c, "stopAll", "started")
              /\ prg' = [prg EXCEPT ![c] = [p \in Program |-> "check"]]
              /\ UNCHANGED <<vars, inFlight, runService, web, exited, fresh, unstopped>>

Move(c, p, from, to) == prg[c][p] = from /\ prg' = [prg EXCEPT ![c][p] = to]

\* Mutant: the early return skips wg.Done.
PrgCheckWithoutDone(c, p) == /\ Move(c, p, "check", IF status[p] = "up" THEN "stop" ELSE "none")
                             /\ UNCHANGED <<vars, daemon, inFlight, fresh, unstopped>>

PrgCheck(c, p) == /\ Move(c, p, "check", IF status[p] = "up" THEN "stop" ELSE "done")
                  /\ UNCHANGED <<vars, daemon, inFlight, fresh, unstopped>>

\* Mutant: a program that has ended meanwhile counts as one that was not stopped.
PrgStopOffline(c, p) == /\ \/ Move(c, p, "stop", "wait") /\ status[p] = "up" /\ UNCHANGED unstopped
                           \/ /\ Move(c, p, "stop", "done")
                              /\ unstopped' = unstopped \cup {p}
                        /\ UNCHANGED <<vars, daemon, inFlight, fresh>>

\* Stop tells the program to stop, does nothing if it has ended meanwhile, or
\* fails, and then nobody waits for it.
PrgStop(c, p) == /\ \/ Move(c, p, "stop", "wait") /\ UNCHANGED unstopped
                    \/ /\ Move(c, p, "stop", "done")
                       /\ status[p] = "up"
                       /\ unstopped' = IF c = "hook" THEN unstopped \cup {p} ELSE unstopped
                 /\ UNCHANGED <<vars, daemon, inFlight, fresh>>

\* Mutant: it does not wait.
PrgWaitNot(c, p) == /\ Move(c, p, "wait", "done")
                    /\ UNCHANGED <<vars, daemon, inFlight, fresh, unstopped>>

\* WaitForMainProcess
PrgWait(c, p) == /\ Move(c, p, "wait", IF status[p] = "up" THEN "asleep" ELSE "done")
                 /\ UNCHANGED <<vars, daemon, inFlight, fresh, unstopped>>

ShutdownStep(c) == \/ StopService(c) \/ CloseWeb(c) \/ StopAll(c)
                   \/ \E p \in Program : PrgCheck(c, p) \/ PrgStop(c, p) \/ PrgWait(c, p)

-----------------------------------------------------------------------------
(* Its two callers                                                         *)

\* SIGTERM; the hook is created when the autostart programs are queued.
Signal == /\ hookAt = "signal" /\ booting = {}
          /\ hookAt' = "service"
          /\ runService' = FALSE
          /\ UNCHANGED <<vars, inFlight, web, entryAt, exited, prg, fresh, unstopped>>

\* wg.Wait(), "All servers stopped", os.Exit(0)
CompleteShutdown == /\ hookAt = "started"
                    /\ \A p \in Program : prg["hook"][p] = "done"
                    /\ exited' = "stopped"
                    /\ UNCHANGED <<vars, inFlight, runService, web, hookAt, entryAt, prg, fresh, unstopped>>

\* for runService && err == nil
Loop == /\ entryAt = "loop" /\ booting = {}
        /\ entryAt' = IF runService THEN "listen" ELSE "service"
        /\ UNCHANGED <<vars, inFlight, runService, web, hookAt, exited, prg, fresh, unstopped>>

\* runServices: the web server listens, unless what comes before it panics, which
\* is recovered, or it cannot listen, which is an error.
Listen == /\ entryAt = "listen"
          /\ entryAt' \in {"serve", "loop", "service"}
          /\ web' = (entryAt' = "serve")
          /\ UNCHANGED <<vars, inFlight, runService, hookAt, exited, prg, fresh, unstopped>>

\* StopServer waits for the main process of a program that runs, when told to;
\* other requests, such as a download, take as long as they do.
Ask(r) == /\ web /\ (r # None => status[r] = "up")
          /\ inFlight' = inFlight \cup {r}
          /\ UNCHANGED <<vars, daemon, prg, fresh, unstopped>>
Answer == /\ None \in inFlight
          /\ inFlight' = inFlight \ {None}
          /\ UNCHANGED <<vars, daemon, prg, fresh, unstopped>>

WebFails == /\ web /\ web' = FALSE
            /\ UNCHANGED <<vars, inFlight, runService, hookAt, entryAt, exited, prg, fresh, unstopped>>

\* runServices returns: the web server was closed, or failed, and has answered
\* every request.
ServeEnds == /\ entryAt = "serve" /\ ~web /\ inFlight = {}
             /\ entryAt' \in {"loop", "service"}
             /\ UNCHANGED <<vars, inFlight, runService, web, hookAt, exited, prg, fresh, unstopped>>

\* errChan <- err: runRun gets it and main returns, whatever still runs.
ReturnFromMain == /\ entryAt = "started"
                  /\ exited' = "returned"
                  /\ UNCHANGED <<vars, inFlight, runService, web, hookAt, entryAt, prg, fresh, unstopped>>

ShutdownNext == /\ exited = "no"
                /\ \/ QueueOrProgramStep
                   \/ \E c \in Shutdowns : ShutdownStep(c)
                   \/ Signal \/ CompleteShutdown
                   \/ \E r \in Program \cup {None} : Ask(r)
                   \/ Answer \/ WebFails
                   \/ Loop \/ Listen \/ ServeEnds \/ ReturnFromMain

\* No program has to stop when told to, no signal has to come, no request has to
\* be answered, and a web server that is not closed need not end.
ShutdownFairness ==
    /\ \A c \in Shutdowns : WF_allVars(exited = "no" /\ ShutdownStep(c))
    /\ WF_allVars(exited = "no" /\ (Loop \/ Listen \/ ServeEnds \/ ReturnFromMain))
    /\ WF_allVars(exited = "no" /\ CompleteShutdown)

ShutdownSpec == ShutdownInit /\ [][ShutdownNext]_allVars /\ ShutdownFairness

-----------------------------------------------------------------------------
(* shutdown.go:33 logs "All servers stopped" and exits: no server runs,    *)
(* at least when none failed to be told to stop.                           *)
AllServersStopped == exited = "stopped" /\ unstopped = {} => \A p \in Program : status[p] = "down"

(* What holds of it: a server that runs when "All servers stopped" is      *)
(* logged was started after the goroutine that stops it had looked at it,  *)
(* or could not be told to stop.                                           *)
OnlyFreshLeft == exited = "stopped" =>
    \A p \in Program : status[p] = "up" => p \in fresh \cup unstopped

(* The signal ends the daemon, even if a program ignores its stop command,  *)
(* unless entry serves on: the web server began to listen after the hook had *)
(* closed it, or waits for a request, which a `stop?wait` of that program    *)
(* never lets end (server.go:175).  The daemon then ends only when every     *)
(* program told to stop has ended.                                           *)
SignalEnds == hookAt # "signal" ~>
    \/ exited # "no"
    \/ /\ hookAt = "started" /\ (web \/ inFlight # {})
       /\ \E p \in Program : prg["hook"][p] = "asleep"
=============================================================================
