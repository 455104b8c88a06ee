--------------------------- MODULE ShutdownProofs ---------------------------
(***************************************************************************)
(* Proofs about Shutdown, for any programs, policies and bounds.           *)
(***************************************************************************)
EXTENDS Shutdown, RestartServiceProofs

QueueInv == TypeOK /\ LateInv /\ TokenInv

\* Every step of the daemon is one of the restart queue's, or leaves it alone.
LEMMA QueueSteps == [ShutdownNext]_allVars => [Next]_vars
  <1> SUFFICES ASSUME [ShutdownNext]_allVars PROVE [Next]_vars
    OBVIOUS
  <1>1. CASE UNCHANGED allVars
    BY <1>1 DEF allVars
  <1>2. CASE QueueOrProgramStep
    BY <1>2 DEF QueueOrProgramStep, Next
  <1>3. ASSUME NEW c \in Shutdowns, ShutdownStep(c) PROVE [Next]_vars
    BY <1>3 DEF ShutdownStep, StopService, CloseWeb, StopAll, PrgCheck, PrgStop, PrgWait, Next
  <1>4. CASE Signal \/ CompleteShutdown \/ WebFails \/ Loop \/ Listen \/ ServeEnds \/ ReturnFromMain
    BY <1>4 DEF Signal, CompleteShutdown, WebFails, Loop, Listen, ServeEnds, ReturnFromMain
  <1>5. CASE Answer \/ \E r \in Program \cup {None} : Ask(r)
    BY <1>5 DEF Answer, Ask
  <1> QED
    BY <1>1, <1>2, <1>3, <1>4, <1>5 DEF ShutdownNext

LEMMA QueueInvCorrect == ShutdownSpec => []QueueInv
  <1>1. ShutdownInit => QueueInv
    BY TypeInit, TokenInit DEF ShutdownInit, QueueInv, LateInv, Init
  <1>2. QueueInv /\ [ShutdownNext]_allVars => QueueInv'
    BY QueueSteps, TypeStep, LateStep, TokenStep DEF QueueInv
  <1> QED
    BY <1>1, <1>2, PTL DEF ShutdownSpec

(* What is proved of the restart queue holds in the daemon that is shut    *)
(* down, whichever of the hook and entry calls Shutdown, or both: two late *)
(* starts, one place for a program, and the bound on its restarts.         *)
THEOREM QueueInDaemon == ShutdownSpec => [](LateBounded /\ OneToken /\ RetriesBounded)
  <1>1. QueueInv => LateBounded
    BY DEF QueueInv, TypeOK, LateInv, Coming, LateBounded
  <1>2. QueueInv => OneToken
    BY OnePlaceCounts DEF QueueInv, TokenInv, OneToken
  <1>3. QueueInv => RetriesBounded
    BY TokenBoundsRetries DEF QueueInv
  <1> QED
    BY <1>1, <1>2, <1>3, QueueInvCorrect, PTL

-----------------------------------------------------------------------------
THEOREM ShutdownTypeInit == ShutdownInit => ShutdownTypeOK
  <1> SUFFICES ASSUME ShutdownInit PROVE ShutdownTypeOK
    OBVIOUS
  <1>1. fresh \cup unstopped \subseteq {p \in Program : status[p] = "up"}
    BY DEF ShutdownInit
  <1>2. prg \in [Shutdowns -> [Program -> {"none", "check", "stop", "wait", "asleep", "done"}]]
    BY DEF ShutdownInit
  <1> QED
    BY <1>1, <1>2 DEF ShutdownInit, ShutdownTypeOK, ShutdownAt

\* A step that moves one goroutine of one Shutdown.
LEMMA MoveType ==
  ASSUME ShutdownTypeOK, NEW c \in Shutdowns, NEW p \in Program, NEW from,
         NEW to \in {"none", "check", "stop", "wait", "asleep", "done"}, Move(c, p, from, to)
  PROVE  prg' \in [Shutdowns -> [Program -> {"none", "check", "stop", "wait", "asleep", "done"}]]
  BY DEF ShutdownTypeOK, Move

THEOREM ShutdownTypeStep ==
  TypeOK /\ ShutdownTypeOK /\ [ShutdownNext]_allVars => ShutdownTypeOK'
  <1> SUFFICES ASSUME TypeOK, ShutdownTypeOK, [ShutdownNext]_allVars PROVE ShutdownTypeOK'
    OBVIOUS
  <1> USE DEF daemon, vars, env
  <1>1. CASE UNCHANGED allVars
    BY <1>1 DEF allVars, ShutdownTypeOK
  <1>2. CASE QueueOrProgramStep
    <2>1. prg' \in [Shutdowns -> [Program -> {"none", "check", "stop", "wait", "asleep", "done"}]]
      BY <1>2 DEF QueueOrProgramStep, ShutdownTypeOK
    <2>2. fresh' \cup unstopped' \subseteq {p \in Program : status'[p] = "up"}
      BY <1>2 DEF QueueOrProgramStep, ShutdownTypeOK
    <2>3. /\ inFlight' \ {None} \subseteq {p \in Program : status'[p] = "up"}
          /\ inFlight' \subseteq inFlight
      BY <1>2 DEF QueueOrProgramStep, ShutdownTypeOK
    <2> QED
      BY <1>2, <2>1, <2>2, <2>3 DEF QueueOrProgramStep, ShutdownTypeOK
  <1>3. ASSUME NEW c \in Shutdowns, NEW from \in ShutdownAt, NEW to \in ShutdownAt, Advance(c, from, to)
        PROVE  /\ hookAt' \in ShutdownAt \cup {"signal"}
               /\ entryAt' \in ShutdownAt \cup {"loop", "listen", "serve"}
               /\ entryAt' = "serve" <=> entryAt = "serve"
    BY <1>3 DEF Advance, At, ShutdownTypeOK, ShutdownAt
  <1>4. ASSUME NEW c \in Shutdowns, StopService(c) PROVE ShutdownTypeOK'
    BY <1>3, <1>4 DEF StopService, ShutdownService, ShutdownTypeOK, ShutdownAt
  <1>5. ASSUME NEW c \in Shutdowns, CloseWeb(c) PROVE ShutdownTypeOK'
    BY <1>3, <1>5 DEF CloseWeb, ShutdownTypeOK, ShutdownAt
  <1>6. ASSUME NEW c \in Shutdowns, StopAll(c) PROVE ShutdownTypeOK'
    BY <1>3, <1>6 DEF StopAll, ShutdownTypeOK, ShutdownAt
  <1>7. ASSUME NEW c \in Shutdowns, NEW p \in Program, PrgCheck(c, p) \/ PrgStop(c, p) \/ PrgWait(c, p)
        PROVE  ShutdownTypeOK'
    <2>1. prg' \in [Shutdowns -> [Program -> {"none", "check", "stop", "wait", "asleep", "done"}]]
      BY <1>7, MoveType DEF PrgCheck, PrgStop, PrgWait
    <2>2. /\ UNCHANGED <<status, fresh, daemon, inFlight>>
          /\ unstopped' = unstopped \/ (unstopped' = unstopped \cup {p} /\ status[p] = "up")
      BY <1>7 DEF PrgCheck, PrgStop, PrgWait
    <2> QED
      BY <2>1, <2>2 DEF ShutdownTypeOK
  <1>8. CASE Signal \/ CompleteShutdown \/ WebFails \/ Loop \/ Listen \/ ServeEnds \/ ReturnFromMain
    <2>1. UNCHANGED <<inFlight, prg, fresh, unstopped, status>>
      BY <1>8 DEF Signal, CompleteShutdown, WebFails, Loop, Listen, ServeEnds, ReturnFromMain
    <2>2. /\ prg' \in [Shutdowns -> [Program -> {"none", "check", "stop", "wait", "asleep", "done"}]]
          /\ fresh' \cup unstopped' \subseteq {p \in Program : status'[p] = "up"}
          /\ inFlight' \ {None} \subseteq {p \in Program : status'[p] = "up"}
      BY <2>1 DEF ShutdownTypeOK
    <2>3. /\ hookAt' \in {hookAt, "service"}
          /\ entryAt' \in {entryAt, "loop", "listen", "serve", "service"}
          /\ exited' \in {exited, "stopped", "returned"}
          /\ runService' \in {runService, FALSE}
      BY <1>8 DEF Signal, CompleteShutdown, WebFails, Loop, Listen, ServeEnds, ReturnFromMain
    <2>4. \/ web' = web /\ (entryAt' = entryAt \/ entryAt = "loop")
          \/ web' = (entryAt' = "serve")
          \/ web' = FALSE
      BY <1>8 DEF Signal, CompleteShutdown, WebFails, Loop, Listen, ServeEnds, ReturnFromMain
    <2>5. web' \in BOOLEAN /\ (web' => entryAt' = "serve")
      <3>1. web \in BOOLEAN /\ (web => entryAt = "serve") /\ "loop" # "serve"
        BY DEF ShutdownTypeOK
      <3>2. CASE web' = web /\ (entryAt' = entryAt \/ entryAt = "loop")
        BY <3>1, <3>2
      <3>3. CASE web' = (entryAt' = "serve")
        BY <3>3
      <3>4. CASE web' = FALSE
        BY <3>4
      <3> QED
        BY <2>4, <3>2, <3>3, <3>4
    <2>6. inFlight' # {} => entryAt' = "serve"
      BY <1>8, <2>1 DEF Signal, CompleteShutdown, WebFails, Loop, Listen, ServeEnds, ReturnFromMain,
                        ShutdownTypeOK
    <2> QED
      BY <2>2, <2>3, <2>5, <2>6 DEF ShutdownTypeOK, ShutdownAt
  <1>9. CASE Answer \/ \E r \in Program \cup {None} : Ask(r)
    <2>1. UNCHANGED <<runService, web, hookAt, entryAt, exited, prg, fresh, unstopped, status>>
      BY <1>9 DEF Answer, Ask
    <2>2. /\ inFlight' \ {None} \subseteq {p \in Program : status[p] = "up"}
          /\ inFlight' # {} => web \/ inFlight # {}
      BY <1>9 DEF Answer, Ask, ShutdownTypeOK
    <2> QED
      BY <2>1, <2>2 DEF ShutdownTypeOK
  <1> QED
    BY <1>1, <1>2, <1>4, <1>5, <1>6, <1>7, <1>8, <1>9 DEF ShutdownNext, ShutdownStep

THEOREM ShutdownTypeCorrect == ShutdownSpec => []ShutdownTypeOK
  <1>1. QueueInv => TypeOK
    BY DEF QueueInv
  <1> QED
    BY <1>1, ShutdownTypeInit, ShutdownTypeStep, QueueInvCorrect, PTL DEF ShutdownSpec

-----------------------------------------------------------------------------
\* The hook's goroutine for a program waits for as long as the program runs, and
\* what runs when it is done is fresh or unstopped.
LeftInv == \A p \in Program :
    /\ exited = "stopped" => prg["hook"][p] = "done"
    /\ prg["hook"][p] = "done" /\ status[p] = "up" => p \in fresh \cup unstopped

THEOREM LeftStep == TypeOK /\ ShutdownTypeOK /\ LeftInv /\ [ShutdownNext]_allVars => LeftInv'
  <1> SUFFICES ASSUME TypeOK, ShutdownTypeOK, LeftInv, [ShutdownNext]_allVars, NEW p \in Program
               PROVE  /\ exited' = "stopped" => prg'["hook"][p] = "done"
                      /\ prg'["hook"][p] = "done" /\ status'[p] = "up" => p \in fresh' \cup unstopped'
    BY DEF LeftInv
  <1> DEFINE Left == /\ exited' = "stopped" => prg'["hook"][p] = "done"
                     /\ prg'["hook"][p] = "done" /\ status'[p] = "up" => p \in fresh' \cup unstopped'
  <1> USE DEF daemon, vars, env
  <1>0. /\ exited = "stopped" => prg["hook"][p] = "done"
        /\ prg["hook"][p] = "done" /\ status[p] = "up" => p \in fresh \cup unstopped
        /\ "hook" \in Shutdowns /\ status \in [Program -> {"down", "up"}]
        /\ prg \in [Shutdowns -> [Program -> {"none", "check", "stop", "wait", "asleep", "done"}]]
    BY DEF LeftInv, Shutdowns, ShutdownTypeOK, TypeOK
  <1>1. CASE UNCHANGED allVars
    BY <1>0, <1>1 DEF allVars
  <1>2. CASE QueueOrProgramStep
    <2>1. /\ exited' = exited
          /\ prg'["hook"][p] = IF prg["hook"][p] = "asleep" /\ status[p] = "up" /\ status'[p] = "down"
                               THEN "done" ELSE prg["hook"][p]
          /\ p \in fresh' <=> status'[p] = "up" /\ IF status[p] = "up" THEN p \in fresh ELSE Looked(p)
          /\ p \in unstopped' <=> p \in unstopped /\ status'[p] = "up"
      BY <1>0, <1>2 DEF QueueOrProgramStep
    <2> QED
      BY <1>0, <2>1 DEF Looked
  <1>3. ASSUME exited = "no", NEW c \in Shutdowns, StopService(c) \/ CloseWeb(c) PROVE Left
    BY <1>0, <1>3 DEF StopService, ShutdownService, CloseWeb
  <1>4. ASSUME exited = "no", NEW c \in Shutdowns, StopAll(c) PROVE Left
    <2>1. prg'["hook"][p] = prg["hook"][p] \/ prg'["hook"][p] = "check"
      BY <1>0, <1>4 DEF StopAll
    <2> QED
      BY <1>0, <1>4, <2>1 DEF StopAll
  <1>5. ASSUME exited = "no", NEW c \in Shutdowns, NEW q \in Program,
               PrgCheck(c, q) \/ PrgStop(c, q) \/ PrgWait(c, q)
        PROVE  Left
    <2>1. UNCHANGED <<exited, status, fresh>> /\ unstopped \subseteq unstopped'
      BY <1>5 DEF PrgCheck, PrgStop, PrgWait
    <2>2. CASE c # "hook" \/ q # p
      <3>1. prg'["hook"][p] = prg["hook"][p]
        BY <1>0, <1>5, <2>2 DEF PrgCheck, PrgStop, PrgWait, Move
      <3> QED
        BY <1>0, <1>5, <2>1, <3>1
    <2>3. CASE c = "hook" /\ q = p
      <3>1. prg'["hook"][p] = "done" /\ status[p] = "up" => p \in unstopped'
        BY <1>0, <1>5, <2>3 DEF PrgCheck, PrgStop, PrgWait, Move
      <3> QED
        BY <1>5, <2>1, <3>1
    <2> QED
      BY <2>2, <2>3
  <1>6. CASE CompleteShutdown
    BY <1>0, <1>6 DEF CompleteShutdown
  <1>7. CASE exited = "no" /\ (Signal \/ WebFails \/ Loop \/ Listen \/ ServeEnds \/ ReturnFromMain)
    BY <1>0, <1>7 DEF Signal, WebFails, Loop, Listen, ServeEnds, ReturnFromMain
  <1>8. CASE Answer \/ \E r \in Program \cup {None} : Ask(r)
    BY <1>0, <1>8 DEF Answer, Ask
  <1> QED
    BY <1>1, <1>2, <1>3, <1>4, <1>5, <1>6, <1>7, <1>8 DEF ShutdownNext, ShutdownStep

(* However many programs the daemon has, and however their exits, the      *)
(* queue's starts and the two calls of Shutdown interleave: what runs when *)
(* shutdown.go:33 logs "All servers stopped" was launched behind the back  *)
(* of the goroutine that stops it, or could not be told to stop.           *)
THEOREM OnlyFreshLeftCorrect == ShutdownSpec => []OnlyFreshLeft
  <1>1. ShutdownInit => LeftInv
    BY DEF ShutdownInit, LeftInv, Shutdowns
  <1>2. LeftInv => OnlyFreshLeft
    BY DEF LeftInv, OnlyFreshLeft
  <1>3. QueueInv => TypeOK
    BY DEF QueueInv
  <1> QED
    BY <1>1, <1>2, <1>3, LeftStep, ShutdownTypeCorrect, QueueInvCorrect, PTL DEF ShutdownSpec
=============================================================================
