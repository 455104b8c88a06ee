------------------------------- MODULE TtyEnv -------------------------------
(***************************************************************************)
(* The tty environment (environments/impl/tty/tty.go): ttyExecuteAsync and *)
(* handleClose.  handleClose clears mainProcess before it lowers the       *)
(* WaitGroup.                                                              *)
(***************************************************************************)
EXTENDS ExecEnv

\* pty.Start(pr): pr is a local, so each call starts its own Cmd.  The debug
\* line before it may panic when an overlapping execution has cleared
\* mainProcess.  A start that fails returns with the WaitGroup raised.
Spawn(e) ==
    /\ \/ Goto(e, "spawn", "lost") /\ UNCHANGED os
          /\ IF mainProcess = None THEN Panic ELSE UNCHANGED crashed
       \/ /\ Goto(e, "spawn", "started")
          /\ proc' = [proc EXCEPT ![e] = "live"]
          /\ UNCHANGED <<ok, crashed>>
    /\ UNCHANGED <<fields, wg, cmd, closing, saw>>

\* t.stdInWriter = tty and go t.handleClose(callback)
Attach(e) ==
    /\ Goto(e, "started", "close")
    /\ stdInWriter' = e
    /\ UNCHANGED <<mainProcess, wg, os, cmd, closing, crashed, saw>>

\* what ExecuteAsync does once IsRunning has answered
Proceed(e) == AwaitEarlier(e) \/ Register(e) \/ SetMain(e) \/ Spawn(e) \/ Attach(e)

\* Mutant: the exit status is not looked at.
JudgeIgnoringStatus(e) ==
    /\ Goto(e, "judge", "release")
    /\ verdict' = [verdict EXCEPT ![e] = mainProcess # None]
    /\ UNCHANGED <<fields, wg, os, cmd, target, told, crashed, saw>>

Judge(e) ==
    /\ Goto(e, "judge", "release")
    /\ verdict' = [verdict EXCEPT ![e] = HasState(e) /\ ok[mainProcess]]
    /\ UNCHANGED <<fields, wg, os, cmd, target, told, crashed, saw>>

\* Mutant: Wait.Done is forgotten.
ClearWithoutDone(e) ==
    /\ Goto(e, "clear", "tell")
    /\ mainProcess' = None
    /\ UNCHANGED <<stdInWriter, wg, os, cmd, closing, crashed, saw>>

Clear(e) ==
    /\ Goto(e, "clear", "done")
    /\ mainProcess' = None
    /\ UNCHANGED <<stdInWriter, wg, os, cmd, closing, crashed, saw>>

\* Mutant: Wait.Done comes first, as in the standard environment.
handleCloseDoneFirst(e) ==
    \/ CloseWait(e, "done") \/ CloseReap(e, "done") \/ WgDone(e, "done", "judge")
    \/ Judge(e) \/ CloseRelease(e, "release", "clear")
    \/ Goto(e, "clear", "tell") /\ mainProcess' = None
       /\ UNCHANGED <<stdInWriter, wg, os, cmd, closing, crashed, saw>>
    \/ CloseTell(e)

handleClose(e) == \/ CloseWait(e, "judge") \/ CloseReap(e, "judge")
                  \/ Judge(e) \/ CloseRelease(e, "release", "clear") \/ Clear(e)
                  \/ WgDone(e, "done", "tell") \/ CloseTell(e)

Init == ExecInit

Next == /\ ~crashed
        /\ \/ \E e \in Exec : Check(e) \/ Proceed(e) \/ handleClose(e) \/ ProcExit(e)
           \/ \E c \in Client : ClientStep(c)

\* A goroutine that can run does run; nothing forces a process to exit.
Fairness == \A e \in Exec : WF_vars(~crashed /\ (Proceed(e) \/ handleClose(e)))

Spec == Init /\ [][Next]_vars /\ Fairness
-----------------------------------------------------------------------------
\* between Wait.Add and Wait.Done
Holding == {"set", "spawn", "started", "close", "reap", "judge", "release", "clear", "done", "lost"}

(* The counter of the WaitGroup is the number of calls that have raised it *)
(* and not lowered it yet: it never goes negative, which Go makes a panic, *)
(* and a call that failed to start its process keeps it raised for ever.   *)
WaitCount == wg = Cardinality({e \in Exec : at[e] \in Holding})

(* A call of ExecuteAsync that has to wait for an earlier execution does   *)
(* get past it, unless some earlier start failed.                          *)
StartSettles == \A e \in Exec :
    at[e] = "wait" ~> at[e] \notin {"wait", "blocked", "woken"} \/ \E f \in Exec : at[f] = "lost"

(* environment.go:35 has ExecuteAsync "immediately return": no call of it  *)
(* stays blocked for ever.                                                 *)
StartReturns == \A e \in Exec : at[e] = "wait" ~> at[e] \notin {"wait", "blocked", "woken"}

(* What a caller of Environment sees of each execution.                    *)
status == [e \in Exec |-> CASE proc[e] = "none" -> "new"
                            [] proc[e] = "live" -> "live"
                            [] OTHER -> IF ok[e] THEN "ok" ELSE "bad"]
Promise == INSTANCE MainProcess WITH Exec <- Exec, Tracked <- Tracked, status <- status, told <- told

(* The environment keeps what MainProcess promises, liveness included.     *)
KeepsPromise == Promise!Spec
=============================================================================
