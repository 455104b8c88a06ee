---------------------------- MODULE MainProcess ----------------------------
(***************************************************************************)
(* What the rest of the daemon is promised by an environment               *)
(* (environments/envs/environment.go): at most one main process exists at  *)
(* a time, and the callback given to ExecuteAsync is called once, after    *)
(* that process has exited, with how it exited.  An execution is one call  *)
(* of ExecuteAsync.                                                        *)
(***************************************************************************)
EXTENDS Sequences

CONSTANTS Exec,      \* the executions
          Tracked    \* those whose caller gave a callback

VARIABLES status,    \* of the process of each execution
          told       \* the arguments its callback was called with, in order

vars == <<status, told>>

Status == {"new", "live", "ok", "bad"}
Exited == {"ok", "bad"}

Init == /\ status = [e \in Exec |-> "new"]
        /\ told = [e \in Exec |-> <<>>]

\* ExecuteAsync succeeds: "process already running" excludes a second one.
Launch(e) == /\ status[e] = "new"
             /\ \A f \in Exec : status[f] # "live"
             /\ status' = [status EXCEPT ![e] = "live"]
             /\ UNCHANGED told

\* The process ends by itself, on the stop command, on a signal or killed.
Exit(e, s) == /\ status[e] = "live"
              /\ status' = [status EXCEPT ![e] = s]
              /\ UNCHANGED told

Tell(e) == /\ e \in Tracked
           /\ status[e] \in Exited
           /\ told[e] = <<>>
           /\ told' = [told EXCEPT ![e] = <<status[e] = "ok">>]
           /\ UNCHANGED status

Next == \E e \in Exec : \/ Launch(e)
                        \/ \E s \in Exited : Exit(e, s)
                        \/ Tell(e)

Spec == Init /\ [][Next]_vars /\ \A e \in Exec : WF_vars(Tell(e))
=============================================================================
