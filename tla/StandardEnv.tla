---------------------------- MODULE StandardEnv ----------------------------
(***************************************************************************)
(* The standard environment (environments/impl/standard/standard.go):      *)
(* standardExecuteAsync and handleClose.  handleClose lowers the WaitGroup *)
(* before it looks at mainProcess and clears it, and everything the start  *)
(* does goes through the field.                                            *)
(***************************************************************************)
EXTENDS ExecEnv

\* From the first use of the field to s.mainProcess.Start(): nil panics, a Cmd
\* that another call has started gives an error, and so may the start itself.
Spawn(e) ==
    /\ \/ /\ Goto(e, "spawn", "lost")
          /\ IF mainProcess = None THEN Panic ELSE UNCHANGED crashed
          /\ stdInWriter' \in {stdInWriter, mainProcess}
          /\ UNCHANGED os
       \/ /\ mainProcess # None
          /\ proc[mainProcess] = "none"
          /\ Goto(e, "spawn", "started")
          /\ stdInWriter' = mainProcess
          /\ proc' = [proc EXCEPT ![mainProcess] = "live"]
          /\ UNCHANGED <<ok, crashed>>
    /\ UNCHANGED <<mainProcess, wg, cmd, closing, saw>>

\* The debug line reads mainProcess.Process.Pid, then go s.handleClose(callback).
Attach(e) ==
    /\ LET panics == mainProcess = None \/ proc[mainProcess] = "none" IN
       /\ Goto(e, "started", IF panics THEN "lost" ELSE "close")
       /\ IF panics THEN Panic ELSE UNCHANGED crashed
    /\ UNCHANGED <<fields, wg, os, cmd, closing, saw>>

\* what ExecuteAsync does once IsRunning has answered
Proceed(e) == AwaitEarlier(e) \/ Register(e) \/ SetMain(e) \/ Spawn(e) \/ Attach(e)

\* Mutant: a mainProcess that is nil counts as a clean exit.
JudgeNilAsClean(e) ==
    /\ Goto(e, "judge", "release")
    /\ verdict' = [verdict EXCEPT ![e] = mainProcess = None \/ (HasState(e) /\ ok[mainProcess])]
    /\ UNCHANGED <<fields, wg, os, cmd, target, told, crashed, saw>>

\* Mutant: no callback here.
JudgeWithoutCallback(e) ==
    /\ Goto(e, "judge", "release")
    /\ verdict' = [verdict EXCEPT ![e] = HasState(e) /\ ok[mainProcess]]
    /\ UNCHANGED <<fields, wg, os, cmd, target, told, crashed, saw>>

\* When the exit was not clean, or mainProcess is no longer this execution's
\* Cmd, the callback is called here as well; a nil callback panics.
Judge(e) ==
    /\ Goto(e, "judge", "release")
    /\ verdict' = [verdict EXCEPT ![e] = HasState(e) /\ ok[mainProcess]]
    /\ told' = IF HasState(e) \/ e \notin Tracked THEN told
               ELSE [told EXCEPT ![e] = Append(@, FALSE)]
    /\ crashed' = (~HasState(e) /\ e \notin Tracked)
    /\ UNCHANGED <<fields, wg, os, cmd, target, saw>>

Clear(e) ==
    /\ Goto(e, "clear", "clearInput")
    /\ mainProcess' = None
    /\ UNCHANGED <<stdInWriter, wg, os, cmd, closing, crashed, saw>>

ClearInput(e) ==
    /\ Goto(e, "clearInput", "tell")
    /\ stdInWriter' = None
    /\ UNCHANGED <<mainProcess, wg, os, cmd, closing, crashed, saw>>

handleClose(e) == \/ CloseWait(e, "done") \/ CloseReap(e, "done")
                  \/ WgDone(e, "done", "judge")
                  \/ Judge(e) \/ CloseRelease(e, "release", "clear")
                  \/ Clear(e) \/ ClearInput(e) \/ CloseTell(e)

Init == ExecInit

Next == /\ ~crashed
        /\ \/ \E e \in Exec : Check(e) \/ Proceed(e) \/ handleClose(e) \/ ProcExit(e)
           \/ \E c \in Client : ClientStep(c)

\* A goroutine that can run does run; nothing forces a process to exit.
Fairness == \A e \in Exec : WF_vars(~crashed /\ (Proceed(e) \/ handleClose(e)))

Spec == Init /\ [][Next]_vars /\ Fairness
-----------------------------------------------------------------------------
\* between Wait.Add and Wait.Done
Holding == {"set", "spawn", "started", "close", "reap", "done", "lost"}

(* The counter of the WaitGroup is the number of calls that have raised it *)
(* and not lowered it yet: it never goes negative, which Go makes a panic, *)
(* and a call that failed to start its process keeps it raised for ever.   *)
WaitCount == wg = Cardinality({e \in Exec : at[e] \in Holding})

(* A callback is told of a graceful exit only if its process exited with   *)
(* status 0, whatever happened to mainProcess since.                       *)
GracefulIsTrue == \A e \in Exec : \A i \in DOMAIN told[e] :
                      told[e][i] => proc[e] = "gone" /\ ok[e]

(* When handleClose ends, the callback has been called: twice, with FALSE, *)
(* if the process crashed; for a clean exit once with TRUE or, when a new  *)
(* start has meanwhile taken mainProcess, once or twice with FALSE.  The   *)
(* two calls never disagree.                                               *)
ToldAtEnd == \A e \in Tracked : at[e] = "end" =>
    \/ told[e] = <<FALSE, FALSE>>
    \/ ok[e] /\ told[e] \in {<<TRUE>>, <<FALSE>>}
=============================================================================
