--------------------------- MODULE RestartService ---------------------------
(***************************************************************************)
(* The restart queue of programs/program.go: InitService, StartViaService, *)
(* ShutdownService, processQueue, and Program.afterExit, which refills the *)
(* queue.  The environment of a program is what MainProcess promises of    *)
(* it: down or up, and a callback for every exit.  A callback runs in the  *)
(* goroutine of its exit, with no lock but the queue's.                    *)
(***************************************************************************)
EXTENDS Integers, Sequences, FiniteSets

CONSTANTS Program,        \* the loaded, enabled programs
          AutoStart,      \* Execution.AutoStart
          AutoCrash,      \* Execution.AutoRestartFromCrash
          AutoGraceful,   \* Execution.AutoRestartFromGraceful
          Twice,          \* in the standard environment: a crash is told twice
          CrashLimit,     \* data.crashLimit
          MaxUserStarts,  \* bound: starts asked for over HTTP
          Callback,       \* bound: afterExit calls in progress at once
          MaxQueue,       \* bound: length of the queue
          None

ASSUME RestartAssumption == /\ AutoStart \subseteq Program
                            /\ AutoCrash \subseteq Program
                            /\ AutoGraceful \subseteq Program
                            /\ Twice \subseteq Program
                            /\ CrashLimit \in Nat
                            /\ MaxUserStarts \in Nat
                            /\ MaxQueue \in Nat
                            /\ None \notin [program : Program, graceful : BOOLEAN, seen : Nat,
                                             again : BOOLEAN]

VARIABLES booting,       \* autostart programs entry has yet to queue
          running,       \* the service accepts starts; its ticker runs
          queue,
          tick,          \* ticks in the ticker's channel, which holds one
          workerAt,      \* where processQueue is
          hand,          \* the programs processQueue has taken: none or one
          status,        \* of each program's environment: "down" or "up"
          stuck,         \* a start failed and left its WaitGroup raised
          CrashCounter,
          cbAt,          \* where each afterExit call is
          cb,            \* its program, its argument, the counter it read, a call still to come
          userStarts,    \* starts asked for over HTTP so far
          retries,       \* starts queued after crashes since a clean exit was handled
          late           \* starts processQueue has made since ShutdownService

service   == <<booting, running, queue, tick>>
worker    == <<workerAt, hand>>
env       == <<status, stuck>>
callbacks == <<cbAt, cb, CrashCounter, retries>>
vars      == <<service, worker, env, callbacks, userStarts, late>>

CallbackState == [program : Program, graceful : BOOLEAN, seen : Nat, again : BOOLEAN]

TypeOK == /\ booting \subseteq AutoStart
          /\ running \in BOOLEAN
          /\ queue \in Seq(Program)
          /\ tick \in 0 .. 1
          /\ workerAt \in {"idle", "check", "launch"}
          /\ hand \subseteq Program
          /\ workerAt = "idle" <=> hand = {}
          /\ status \in [Program -> {"down", "up"}]
          /\ stuck \in [Program -> BOOLEAN]
          /\ CrashCounter \in [Program -> Nat]
          /\ cbAt \in [Callback -> {"free", "reset", "post", "decide", "count", "push"}]
          /\ cb \in [Callback -> CallbackState \cup {None}]
          /\ \A k \in Callback : cb[k] = None <=> cbAt[k] = "free"
          /\ userStarts \in Nat
          /\ retries \in [Program -> Nat]
          /\ late \in Nat

\* InitService, after the programs are loaded
Init == /\ booting = AutoStart
        /\ running = TRUE
        /\ queue = <<>>
        /\ tick = 0
        /\ workerAt = "idle" /\ hand = {}
        /\ status = [p \in Program |-> "down"]
        /\ stuck = [p \in Program |-> FALSE]
        /\ CrashCounter = [p \in Program |-> 0]
        /\ cbAt = [k \in Callback |-> "free"]
        /\ cb = [k \in Callback |-> None]
        /\ userStarts = 0
        /\ retries = [p \in Program |-> 0]
        /\ late = 0

-----------------------------------------------------------------------------
(* The service                                                             *)

StartViaService(p) ==
    /\ Len(queue) < MaxQueue
    /\ queue' = IF running THEN Append(queue, p) ELSE queue

\* entry queues the programs that start with the daemon.
Boot(p) == /\ p \in booting
           /\ StartViaService(p)
           /\ booting' = booting \ {p}
           /\ UNCHANGED <<running, tick, worker, env, callbacks, userStarts, late>>

\* Stop does not empty the ticker's channel, nor close it.
ShutdownService == /\ running' = FALSE
                   /\ UNCHANGED <<booting, queue, tick, worker, env, callbacks, userStarts, late>>

\* Mutant: ticks pile up.
TickWithoutRoom == /\ running
                   /\ tick' = tick + 1
                   /\ UNCHANGED <<booting, running, queue, worker, env, callbacks, userStarts, late>>

\* Mutant: the ticker is not stopped.
TickAfterStop == /\ tick = 0
                 /\ tick' = 1
                 /\ UNCHANGED <<booting, running, queue, worker, env, callbacks, userStarts, late>>

\* time.Ticker drops the ticks its channel has no room for.
Tick == /\ running
        /\ tick = 0
        /\ tick' = 1
        /\ UNCHANGED <<booting, running, queue, worker, env, callbacks, userStarts, late>>

\* Mutant: queue.Remove is left out.
TakeWithoutRemove == /\ workerAt = "idle" /\ tick = 1 /\ queue # <<>>
                     /\ tick' = 0
                     /\ hand' = {Head(queue)}
                     /\ workerAt' = "check"
                     /\ UNCHANGED <<booting, running, queue, env, callbacks, userStarts, late>>

\* Mutant: the queue is used as a stack.
TakeBack == /\ workerAt = "idle" /\ tick = 1
            /\ tick' = 0
            /\ IF queue = <<>>
               THEN UNCHANGED <<queue, worker>>
               ELSE /\ hand' = {queue[Len(queue)]}
                    /\ queue' = SubSeq(queue, 1, Len(queue) - 1)
                    /\ workerAt' = "check"
            /\ UNCHANGED <<booting, running, env, callbacks, userStarts, late>>

\* processQueue receives a tick and takes the front of the queue.
Take == /\ workerAt = "idle"
        /\ tick = 1
        /\ tick' = 0
        /\ IF queue = <<>>
           THEN UNCHANGED <<queue, worker>>
           ELSE /\ hand' = {Head(queue)}
                /\ queue' = Tail(queue)
                /\ workerAt' = "check"
        /\ UNCHANGED <<booting, running, env, callbacks, userStarts, late>>

PutDown == workerAt' = "idle" /\ hand' = {}

\* The IsRunning tests of processQueue and Start, and Start's errors before it
\* reaches the environment: a disabled server, a failing pre-execution step.
WorkerCheck(p) ==
    /\ workerAt = "check" /\ hand = {p}
    /\ \/ PutDown
       \/ status[p] = "down" /\ workerAt' = "launch" /\ UNCHANGED hand
    /\ UNCHANGED <<service, env, callbacks, userStarts, late>>

\* ExecuteAsync: it never returns once the WaitGroup is left raised, and a
\* failure may leave it raised.
Launch(p) ==
    /\ status[p] = "up" \/ ~stuck[p]
    /\ \/ /\ status[p] = "down"
          /\ status' = [status EXCEPT ![p] = "up"]
          /\ UNCHANGED stuck
       \/ /\ status[p] = "down"
          /\ \E b \in BOOLEAN : stuck' = [stuck EXCEPT ![p] = b]
          /\ UNCHANGED status
       \/ status[p] = "up" /\ UNCHANGED env

WorkerLaunch(p) ==
    /\ workerAt = "launch" /\ hand = {p}
    /\ Launch(p)
    /\ PutDown
    /\ late' = IF running THEN late ELSE late + 1
    /\ UNCHANGED <<service, callbacks, userStarts>>

\* A start over HTTP.  Like TtyEnv with Overlap = FALSE, it does not overlap
\* with the queue's start of the same program.
UserStart(p) ==
    /\ userStarts < MaxUserStarts
    /\ ~(workerAt = "launch" /\ hand = {p})
    /\ Launch(p)
    /\ userStarts' = userStarts + 1
    /\ UNCHANGED <<service, worker, callbacks, late>>

-----------------------------------------------------------------------------
(* The exit of a program's process, and afterExit                          *)

Exit(p) ==
    /\ status[p] = "up"
    /\ status' = [status EXCEPT ![p] = "down"]
    /\ \E k \in Callback, g \in BOOLEAN :
          /\ cbAt[k] = "free"
          /\ cbAt' = [cbAt EXCEPT ![k] = "reset"]
          /\ cb' = [cb EXCEPT ![k] = [program |-> p, graceful |-> g, seen |-> 0,
                                      again |-> p \in Twice /\ ~g]]
    /\ UNCHANGED <<service, worker, stuck, CrashCounter, userStarts, retries, late>>

\* afterExit returns; the standard environment's handleClose may call it again.
Return(k) == IF cb[k].again
             THEN /\ cbAt' = [cbAt EXCEPT ![k] = "reset"]
                  /\ cb' = [cb EXCEPT ![k].again = FALSE]
             ELSE /\ cbAt' = [cbAt EXCEPT ![k] = "free"]
                  /\ cb' = [cb EXCEPT ![k] = None]

ResetCounter(k) ==
    /\ cbAt[k] = "reset"
    /\ cbAt' = [cbAt EXCEPT ![k] = "post"]
    /\ LET p == cb[k].program IN
       IF cb[k].graceful THEN /\ CrashCounter' = [CrashCounter EXCEPT ![p] = 0]
                              /\ retries' = [retries EXCEPT ![p] = 0]
                         ELSE UNCHANGED <<CrashCounter, retries>>
    /\ UNCHANGED <<cb, service, worker, env, userStarts, late>>

\* The post-execution steps; an error in them ends afterExit.
PostExecution(k) ==
    /\ cbAt[k] = "post"
    /\ \/ cbAt' = [cbAt EXCEPT ![k] = "decide"] /\ UNCHANGED cb
       \/ Return(k)
    /\ UNCHANGED <<CrashCounter, retries, service, worker, env, userStarts, late>>

\* Mutant: <= for <.
DecideOnceMore(k) ==
    /\ cbAt[k] = "decide"
    /\ LET p == cb[k].program
           again == cb[k].graceful /\ p \in AutoGraceful
           retry == ~cb[k].graceful /\ p \in AutoCrash /\ CrashCounter[p] <= CrashLimit
       IN  \/ again /\ cbAt' = [cbAt EXCEPT ![k] = "push"] /\ UNCHANGED cb
           \/ /\ retry
              /\ cbAt' = [cbAt EXCEPT ![k] = "count"]
              /\ cb' = [cb EXCEPT ![k].seen = CrashCounter[p]]
           \/ ~again /\ ~retry /\ Return(k)
    /\ UNCHANGED <<CrashCounter, retries, service, worker, env, userStarts, late>>

\* The conditions on the restart; the crash counter is read.
Decide(k) ==
    /\ cbAt[k] = "decide"
    /\ LET p == cb[k].program
           again == cb[k].graceful /\ p \in AutoGraceful
           retry == ~cb[k].graceful /\ p \in AutoCrash /\ CrashCounter[p] < CrashLimit
       IN  \/ again /\ cbAt' = [cbAt EXCEPT ![k] = "push"] /\ UNCHANGED cb
           \/ /\ retry
              /\ cbAt' = [cbAt EXCEPT ![k] = "count"]
              /\ cb' = [cb EXCEPT ![k].seen = CrashCounter[p]]
           \/ ~again /\ ~retry /\ Return(k)
    /\ UNCHANGED <<CrashCounter, retries, service, worker, env, userStarts, late>>

\* CrashCounter++ is a data race between two afterExit calls of a program: the
\* value incremented is the present one or the one read before.
Count(k) ==
    /\ cbAt[k] = "count"
    /\ cbAt' = [cbAt EXCEPT ![k] = "push"]
    /\ \E n \in {cb[k].seen, CrashCounter[cb[k].program]} :
          CrashCounter' = [CrashCounter EXCEPT ![cb[k].program] = n + 1]
    /\ UNCHANGED <<cb, retries, service, worker, env, userStarts, late>>

Push(k) ==
    /\ cbAt[k] = "push"
    /\ StartViaService(cb[k].program)
    /\ retries' = IF cb[k].graceful \/ ~running THEN retries
                  ELSE [retries EXCEPT ![cb[k].program] = @ + 1]
    /\ Return(k)
    /\ UNCHANGED <<CrashCounter, booting, running, tick, worker, env, userStarts, late>>

afterExit(k) == ResetCounter(k) \/ PostExecution(k) \/ Decide(k) \/ Count(k) \/ Push(k)

-----------------------------------------------------------------------------
ServiceStep == Tick \/ Take \/ \E p \in Program : Boot(p) \/ WorkerCheck(p) \/ WorkerLaunch(p)

ProgramStep == \/ \E p \in Program : Exit(p) \/ UserStart(p)
               \/ \E k \in Callback : afterExit(k)

Next == ServiceStep \/ ProgramStep \/ ShutdownService

\* The goroutines and the ticker go on; no process has to exit.
Fairness == /\ WF_vars(Tick) /\ WF_vars(Take)
            /\ \A p \in Program : WF_vars(Boot(p)) /\ WF_vars(WorkerCheck(p) \/ WorkerLaunch(p))
            /\ \A k \in Callback : WF_vars(afterExit(k))

Spec == Init /\ [][Next]_vars /\ Fairness

-----------------------------------------------------------------------------
(* Once ShutdownService has returned, processQueue starts at most two more *)
(* programs: the one it has already taken, and one for a tick that was in  *)
(* the channel.                                                            *)
LateBounded == late <= 2

\* The places where a start or a run of p is under way.
Tokens(p) == Cardinality(booting \cap {p}) + Cardinality(hand \cap {p})
             + Cardinality({i \in DOMAIN queue : queue[i] = p})
             + (IF status[p] = "up" THEN 1 ELSE 0)
             + Cardinality({k \in Callback : cbAt[k] # "free" /\ cb[k].program = p})

(* As long as only the daemon starts programs, a program whose exits are   *)
(* told once is in one place: it is never queued twice, nor queued while   *)
(* it runs, and its afterExit calls do not overlap.                        *)
OneToken == userStarts = 0 => \A p \in Program \ Twice : Tokens(p) <= 1

(* ... and between two clean exits it is restarted after a crash at most   *)
(* CrashLimit times.                                                       *)
RetriesBounded == userStarts = 0 => \A p \in Program \ Twice : retries[p] <= CrashLimit

\* processQueue is inside an ExecuteAsync that cannot return.
WorkerBlocked == workerAt = "launch" /\ \E p \in hand : stuck[p] /\ status[p] = "down"

(* Every queued program gets its turn, as long as the service runs and no  *)
(* start blocks processQueue.                                              *)
QueueServes == \A p \in Program :
    (\E i \in DOMAIN queue : queue[i] = p) ~> p \in hand \/ ~running \/ WorkerBlocked
=============================================================================
