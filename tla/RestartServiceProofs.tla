------------------------ MODULE RestartServiceProofs ------------------------
(***************************************************************************)
(* Proofs about RestartService, for any programs, policies and bounds.     *)
(***************************************************************************)
EXTENDS RestartService, FiniteSetTheorems, TLAPS

THEOREM TypeInit == Init => TypeOK
  BY RestartAssumption DEF Init, TypeOK

(* A place in afterExit that returns leaves the callback's state well-typed. *)
LEMMA ReturnType ==
  ASSUME TypeOK, NEW k \in Callback, cbAt[k] # "free", Return(k)
  PROVE  /\ cbAt' \in [Callback -> {"free", "reset", "post", "decide", "count", "push"}]
         /\ cb' \in [Callback -> CallbackState \cup {None}]
         /\ \A j \in Callback : cb'[j] = None <=> cbAt'[j] = "free"
  <1>0. cb[k] \in CallbackState /\ None \notin CallbackState
    BY RestartAssumption DEF TypeOK, CallbackState
  <1>1. CASE cb[k].again
    <2>1. [cb[k] EXCEPT !.again = FALSE] \in CallbackState
      BY <1>0 DEF CallbackState
    <2>2. cb' = [cb EXCEPT ![k] = [cb[k] EXCEPT !.again = FALSE]] /\ cbAt' = [cbAt EXCEPT ![k] = "reset"]
      BY <1>1 DEF Return
    <2> QED
      BY <1>0, <2>1, <2>2 DEF TypeOK
  <1>2. CASE ~cb[k].again
    BY <1>2 DEF Return, TypeOK
  <1> QED
    BY <1>1, <1>2

LEMMA QueueType ==
  ASSUME TypeOK, NEW p \in Program, StartViaService(p)
  PROVE  queue' \in Seq(Program)
  BY DEF TypeOK, StartViaService

THEOREM TypeStep == TypeOK /\ [Next]_vars => TypeOK'
  <1> SUFFICES ASSUME TypeOK, [Next]_vars PROVE TypeOK'
    OBVIOUS
  <1> USE DEF service, worker, env, callbacks
  <1>0. None \notin CallbackState
    BY RestartAssumption DEF CallbackState
  <1>1. CASE UNCHANGED vars
    BY <1>1 DEF TypeOK, vars
  <1>2. CASE Tick
    BY <1>2 DEF TypeOK, Tick
  <1>11. CASE ShutdownService
    BY <1>11 DEF TypeOK, ShutdownService
  <1>3. CASE Take
    <2>1. CASE queue = <<>>
      BY <1>3, <2>1 DEF TypeOK, Take
    <2>2. CASE queue # <<>>
      <3>1. Head(queue) \in Program /\ Tail(queue) \in Seq(Program)
        BY <2>2 DEF TypeOK
      <3>2. workerAt' = "check" /\ hand' = {Head(queue)} /\ queue' = Tail(queue) /\ tick' = 0
        BY <1>3, <2>2 DEF Take
      <3>3. UNCHANGED <<booting, running, status, stuck, cbAt, cb, CrashCounter, retries, userStarts, late>>
        BY <1>3 DEF Take
      <3>4. hand' # {} /\ hand' \subseteq Program
        BY <3>1, <3>2
      <3>5. (workerAt' = "idle" <=> hand' = {}) /\ workerAt' \in {"idle", "check", "launch"}
        BY <3>2, <3>4
      <3>6. \A k \in Callback : cb'[k] = None <=> cbAt'[k] = "free"
        BY <3>3 DEF TypeOK
      <3>7. queue' \in Seq(Program) /\ tick' \in 0 .. 1
        BY <3>1, <3>2
      <3> QED
        BY <3>3, <3>4, <3>5, <3>6, <3>7 DEF TypeOK
    <2> QED
      BY <2>1, <2>2
  <1>4. ASSUME NEW p \in Program, Boot(p) PROVE TypeOK'
    BY <1>4, QueueType DEF TypeOK, Boot
  <1>5. ASSUME NEW p \in Program, WorkerCheck(p) PROVE TypeOK'
    BY <1>5 DEF TypeOK, WorkerCheck, PutDown
  <1>6. ASSUME NEW p \in Program, Launch(p)
        PROVE  status' \in [Program -> {"down", "up"}] /\ stuck' \in [Program -> BOOLEAN]
    BY <1>6 DEF TypeOK, Launch
  <1>7. ASSUME NEW p \in Program, WorkerLaunch(p) PROVE TypeOK'
    BY <1>6, <1>7 DEF TypeOK, WorkerLaunch, PutDown
  <1>8. ASSUME NEW p \in Program, UserStart(p) PROVE TypeOK'
    BY <1>6, <1>8 DEF TypeOK, UserStart
  <1>9. ASSUME NEW p \in Program, Exit(p) PROVE TypeOK'
    <2>1. PICK k \in Callback, g \in BOOLEAN :
             /\ cbAt[k] = "free" /\ cbAt' = [cbAt EXCEPT ![k] = "reset"]
             /\ cb' = [cb EXCEPT ![k] = [program |-> p, graceful |-> g, seen |-> 0,
                                         again |-> p \in Twice /\ ~g]]
      BY <1>9 DEF Exit
    <2>2. [program |-> p, graceful |-> g, seen |-> 0, again |-> p \in Twice /\ ~g] \in CallbackState
      BY DEF CallbackState
    <2> QED
      BY <1>0, <1>9, <2>1, <2>2 DEF TypeOK, Exit
  <1>10. ASSUME NEW k \in Callback, afterExit(k) PROVE TypeOK'
    <2>0. cbAt[k] # "free" /\ cb[k] \in CallbackState /\ cb[k].program \in Program
      BY <1>10 DEF TypeOK, afterExit, ResetCounter, PostExecution, Decide, Count, Push, CallbackState
    <2>1. CASE ResetCounter(k)
      <3>1. CrashCounter' \in [Program -> Nat] /\ retries' \in [Program -> Nat]
        <4>1. CASE cb[k].graceful
          <5>1. /\ CrashCounter' = [CrashCounter EXCEPT ![cb[k].program] = 0]
                /\ retries' = [retries EXCEPT ![cb[k].program] = 0]
            BY <2>1, <4>1, Zenon DEF ResetCounter
          <5> QED
            BY <5>1 DEF TypeOK
        <4>2. CASE ~cb[k].graceful
          BY <2>0, <2>1, <4>2 DEF TypeOK, ResetCounter
        <4> QED
          BY <4>1, <4>2
      <3>2. cbAt' = [cbAt EXCEPT ![k] = "post"] /\ cb' = cb
        BY <2>1 DEF ResetCounter
      <3>3. UNCHANGED <<service, worker, env, userStarts, late>>
        BY <2>1 DEF ResetCounter
      <3> QED
        BY <2>0, <3>1, <3>2, <3>3 DEF TypeOK
    <2>2. CASE PostExecution(k)
      <3>1. CASE cbAt' = [cbAt EXCEPT ![k] = "decide"] /\ UNCHANGED cb
        BY <2>0, <2>2, <3>1 DEF TypeOK, PostExecution
      <3>2. CASE Return(k)
        BY <2>0, <2>2, <3>2, ReturnType DEF TypeOK, PostExecution
      <3> QED
        BY <2>2, <3>1, <3>2 DEF PostExecution
    <2>3. CASE Decide(k)
      <3>1. CASE cbAt' = [cbAt EXCEPT ![k] = "push"] /\ UNCHANGED cb
        BY <2>0, <2>3, <3>1 DEF TypeOK, Decide
      <3>2. CASE /\ cbAt' = [cbAt EXCEPT ![k] = "count"]
                 /\ cb' = [cb EXCEPT ![k].seen = CrashCounter[cb[k].program]]
        <4>1. [cb[k] EXCEPT !.seen = CrashCounter[cb[k].program]] \in CallbackState
          BY <2>0 DEF TypeOK, CallbackState
        <4> QED
          BY <1>0, <2>0, <2>3, <3>2, <4>1 DEF TypeOK, Decide
      <3>3. CASE Return(k)
        BY <2>0, <2>3, <3>3, ReturnType DEF TypeOK, Decide
      <3> QED
        BY <2>3, <3>1, <3>2, <3>3 DEF Decide
    <2>4. CASE Count(k)
      BY <2>0, <2>4 DEF TypeOK, Count, CallbackState
    <2>5. CASE Push(k)
      <3>1. queue' \in Seq(Program)
        BY <2>0, <2>5, QueueType DEF Push
      <3>2. retries' \in [Program -> Nat]
        BY <2>0, <2>5 DEF TypeOK, Push
      <3>3. /\ cbAt' \in [Callback -> {"free", "reset", "post", "decide", "count", "push"}]
            /\ cb' \in [Callback -> CallbackState \cup {None}]
            /\ \A j \in Callback : cb'[j] = None <=> cbAt'[j] = "free"
        BY <2>0, <2>5, ReturnType DEF Push
      <3>4. UNCHANGED <<CrashCounter, booting, running, tick, worker, env, userStarts, late>>
        BY <2>5 DEF Push
      <3> QED
        BY <3>1, <3>2, <3>3, <3>4 DEF TypeOK
    <2> QED
      BY <1>10, <2>1, <2>2, <2>3, <2>4, <2>5 DEF afterExit
  <1> QED
    BY <1>1, <1>2, <1>3, <1>4, <1>5, <1>7, <1>8, <1>9, <1>10, <1>11 DEF Next, ServiceStep, ProgramStep

THEOREM TypeCorrect == Spec => []TypeOK
  BY TypeInit, TypeStep, PTL DEF Spec

-----------------------------------------------------------------------------
(* What may still be started once the service is shut down: the program    *)
(* processQueue has in hand, and one for the tick left in the channel.     *)
Coming == (IF workerAt = "idle" THEN 0 ELSE 1) + tick

LateInv == /\ running => late = 0
           /\ ~running => late + Coming <= 2

THEOREM LateStep == TypeOK /\ LateInv /\ [Next]_vars => LateInv'
  <1> SUFFICES ASSUME TypeOK, LateInv, [Next]_vars PROVE LateInv'
    OBVIOUS
  <1> USE DEF TypeOK, LateInv, Coming, service, worker
  <1>1. CASE UNCHANGED vars
    BY <1>1 DEF vars
  <1>2. CASE Tick
    BY <1>2 DEF Tick
  <1>3. CASE Take
    BY <1>3 DEF Take
  <1>4. CASE ShutdownService
    BY <1>4 DEF ShutdownService
  <1>5. ASSUME NEW p \in Program, Boot(p) PROVE LateInv'
    BY <1>5 DEF Boot
  <1>6. ASSUME NEW p \in Program, WorkerCheck(p) PROVE LateInv'
    BY <1>6 DEF WorkerCheck, PutDown
  <1>7. ASSUME NEW p \in Program, WorkerLaunch(p) PROVE LateInv'
    BY <1>7 DEF WorkerLaunch, PutDown
  <1>8. ASSUME NEW p \in Program, Exit(p) \/ UserStart(p) PROVE LateInv'
    BY <1>8 DEF Exit, UserStart
  <1>9. ASSUME NEW k \in Callback, afterExit(k) PROVE LateInv'
    BY <1>9 DEF afterExit, ResetCounter, PostExecution, Decide, Count, Push
  <1> QED
    BY <1>1, <1>2, <1>3, <1>4, <1>5, <1>6, <1>7, <1>8, <1>9 DEF Next, ServiceStep, ProgramStep

(* However many programs there are and however often they exit, at most    *)
(* two starts come from the queue after ShutdownService.                   *)
THEOREM LateBoundedCorrect == Spec => []LateBounded
  <1>1. Init => LateInv
    BY DEF Init, LateInv
  <1>2. TypeOK /\ LateInv => LateBounded
    BY DEF TypeOK, LateInv, Coming, LateBounded
  <1> QED
    BY <1>1, <1>2, LateStep, TypeCorrect, PTL DEF Spec

-----------------------------------------------------------------------------
(* Where a start or a run of a program is under way                        *)

Queued(p)     == {i \in DOMAIN queue : queue[i] = p}
Answering(p)  == {k \in Callback : cbAt[k] # "free" /\ cb[k].program = p}
AtMostOne(S)  == \A x, y \in S : x = y

\* It is in one place of one kind.
OnePlace(p) == /\ AtMostOne(Queued(p)) /\ AtMostOne(Answering(p))
               /\ p \in booting => p \notin hand /\ Queued(p) = {} /\ Answering(p) = {} /\ status[p] = "down"
               /\ p \in hand => Queued(p) = {} /\ Answering(p) = {} /\ status[p] = "down"
               /\ Queued(p) # {} => Answering(p) = {} /\ status[p] = "down"
               /\ Answering(p) # {} => status[p] = "down"
               /\ \A k \in Answering(p) : ~cb[k].again

\* The crash counter is ahead of the starts it has let through.
Counted(p) == /\ retries[p] <= CrashCounter[p] /\ CrashCounter[p] <= CrashLimit
              /\ \A k \in Answering(p) :
                    /\ cbAt[k] = "count" => ~cb[k].graceful /\ cb[k].seen = CrashCounter[p] /\ cb[k].seen < CrashLimit
                    /\ cbAt[k] = "push" /\ ~cb[k].graceful => retries[p] < CrashCounter[p]

TokenInv == userStarts = 0 => \A p \in Program \ Twice : OnePlace(p) /\ Counted(p)

\* A program nothing happens to.
LEMMA PlaceKept ==
  ASSUME NEW p \in Program, OnePlace(p), Counted(p),
         p \in booting' <=> p \in booting, p \in hand' <=> p \in hand, status'[p] = status[p],
         Queued(p)' = Queued(p), Answering(p)' = Answering(p),
         \A k \in Answering(p) : cbAt'[k] = cbAt[k] /\ cb'[k] = cb[k],
         retries'[p] = retries[p], CrashCounter'[p] = CrashCounter[p]
  PROVE  OnePlace(p)' /\ Counted(p)'
  <1>1. OnePlace(p)'
    BY DEF OnePlace, AtMostOne
  <1>2. Counted(p)'
    BY DEF Counted
  <1> QED
    BY <1>1, <1>2

\* StartViaService puts p at the end, or nowhere once the service is shut down.
LEMMA QueuedBehind ==
  ASSUME TypeOK, NEW p \in Program, StartViaService(p)
  PROVE  /\ \A q \in Program \ {p} : Queued(q)' = Queued(q)
         /\ Queued(p)' = Queued(p) \/ (running /\ Queued(p)' = Queued(p) \cup {Len(queue) + 1})
  <1>1. CASE ~running
    BY <1>1 DEF StartViaService, Queued
  <1>2. CASE running
    <2>1. PICK h \in Seq(Program) : h = Append(queue, p)
      <3>1. Append(queue, p) \in Seq(Program)
        BY DEF TypeOK
      <3> QED
        BY <3>1
    <2>2. /\ queue \in Seq(Program) /\ queue' = h /\ Len(h) = Len(queue) + 1
          /\ h[Len(queue) + 1] = p /\ \A i \in 1 .. Len(queue) : h[i] = queue[i]
      BY <1>2, <2>1 DEF TypeOK, StartViaService
    <2>3. DOMAIN h = 1 .. Len(queue) + 1 /\ DOMAIN queue = 1 .. Len(queue)
      BY <2>2
    <2>4. \A q \in Program \ {p} : Queued(q)' = Queued(q)
      BY <2>2, <2>3 DEF Queued
    <2>5. Queued(p)' = Queued(p) \cup {Len(queue) + 1}
      BY <2>2, <2>3 DEF Queued
    <2> QED
      BY <1>2, <2>4, <2>5
  <1> QED
    BY <1>1, <1>2 DEF TypeOK

\* processQueue takes the front.
LEMMA TakenFront ==
  ASSUME TypeOK, queue # <<>>, queue' = Tail(queue)
  PROVE  /\ Head(queue) \in Program /\ 1 \in Queued(Head(queue))
         /\ \A p \in Program : \A i : i \in Queued(p)' <=> (i \in Nat \ {0} /\ i + 1 \in Queued(p))
  <1>1. PICK t \in Seq(Program) : t = Tail(queue)
    <2>1. Tail(queue) \in Seq(Program)
      BY DEF TypeOK
    <2> QED
      BY <2>1
  <1>2. /\ queue \in Seq(Program) /\ Len(queue) \in Nat \ {0} /\ Len(t) = Len(queue) - 1
        /\ \A i \in 1 .. Len(t) : t[i] = queue[i + 1]
    BY <1>1 DEF TypeOK
  <1>3. Head(queue) \in Program /\ 1 \in Queued(Head(queue))
    BY <1>2 DEF Queued
  <1>4. DOMAIN t = 1 .. (Len(queue) - 1) /\ DOMAIN queue = 1 .. Len(queue)
    BY <1>2
  <1>5. ASSUME NEW p \in Program, NEW i
        PROVE  i \in Queued(p)' <=> (i \in Nat \ {0} /\ i + 1 \in Queued(p))
    BY <1>1, <1>2, <1>4 DEF Queued
  <1> QED
    BY <1>3, <1>5

\* The one afterExit call of a program goes on, or hands it to the queue.
LEMMA AnswerStep ==
  ASSUME TypeOK, NEW k \in Callback, afterExit(k), NEW p \in Program, p = cb[k].program,
         OnePlace(p), Counted(p)
  PROVE  OnePlace(p)' /\ Counted(p)'
  <1> USE DEF service, worker, env, callbacks
  <1>0. /\ cbAt[k] # "free" /\ cb[k] \in CallbackState /\ UNCHANGED <<booting, hand, status>>
        /\ cbAt \in [Callback -> {"free", "reset", "post", "decide", "count", "push"}]
        /\ cb \in [Callback -> CallbackState \cup {None}]
        /\ retries \in [Program -> Nat] /\ CrashCounter \in [Program -> Nat] /\ CrashLimit \in Nat
    BY RestartAssumption DEF TypeOK, afterExit, ResetCounter, PostExecution, Decide, Count, Push
  <1>1. /\ Answering(p) = {k} /\ ~cb[k].again /\ Queued(p) = {} /\ p \notin booting /\ p \notin hand
        /\ status[p] = "down"
    <2>1. k \in Answering(p)
      BY <1>0 DEF Answering
    <2> QED
      BY <2>1 DEF OnePlace, AtMostOne
  <1>2. ASSUME Return(k) PROVE Answering(p)' = {}
    <2>1. cbAt'[k] = "free" /\ \A j \in Callback \ {k} : cbAt'[j] = cbAt[j] /\ cb'[j] = cb[j]
      BY <1>0, <1>1, <1>2 DEF Return
    <2> QED
      BY <1>1, <2>1 DEF Answering
  <1>3. ASSUME NEW to \in {"post", "decide", "count", "push"}, cbAt' = [cbAt EXCEPT ![k] = to],
               cb'[k].program = p, cb'[k].again = cb[k].again,
               \A j \in Callback \ {k} : cb'[j] = cb[j], queue' = queue
        PROVE  OnePlace(p)' /\ Answering(p)' = {k} /\ cbAt'[k] = to
    <2>1. cbAt'[k] = to /\ \A j \in Callback \ {k} : cbAt'[j] = cbAt[j]
      BY <1>0, <1>3
    <2>2. Answering(p)' = {k}
      BY <1>1, <1>3, <2>1 DEF Answering
    <2>3. Queued(p)' = {}
      BY <1>1, <1>3 DEF Queued
    <2> QED
      BY <1>0, <1>1, <1>3, <2>1, <2>2, <2>3 DEF OnePlace, AtMostOne
  <1>4. ASSUME Return(k), queue' = queue, CrashCounter' = CrashCounter, retries' = retries
        PROVE  OnePlace(p)' /\ Counted(p)'
    <2>1. Answering(p)' = {} /\ Queued(p)' = {}
      BY <1>1, <1>2, <1>4 DEF Queued
    <2> QED
      BY <1>0, <1>1, <1>4, <2>1 DEF OnePlace, AtMostOne, Counted
  <1>5. CASE ResetCounter(k)
    <2>1. OnePlace(p)' /\ Answering(p)' = {k} /\ cbAt'[k] = "post"
      BY <1>3, <1>5 DEF ResetCounter
    <2>2. \/ CrashCounter'[p] = 0 /\ retries'[p] = 0
          \/ CrashCounter' = CrashCounter /\ retries' = retries
      BY <1>0, <1>5 DEF ResetCounter
    <2> QED
      BY <1>0, <2>1, <2>2 DEF Counted
  <1>6. CASE PostExecution(k)
    <2>1. CASE cbAt' = [cbAt EXCEPT ![k] = "decide"] /\ UNCHANGED cb
      <3>1. OnePlace(p)' /\ Answering(p)' = {k} /\ cbAt'[k] = "decide"
        BY <1>3, <1>6, <2>1 DEF PostExecution
      <3> QED
        BY <1>6, <3>1 DEF Counted, PostExecution
    <2> QED
      BY <1>4, <1>6, <2>1 DEF PostExecution
  <1>7. CASE Decide(k)
    <2>1. CASE cb[k].graceful /\ cbAt' = [cbAt EXCEPT ![k] = "push"] /\ UNCHANGED cb
      <3>1. OnePlace(p)' /\ Answering(p)' = {k} /\ cbAt'[k] = "push"
        BY <1>3, <1>7, <2>1 DEF Decide
      <3> QED
        BY <1>7, <2>1, <3>1 DEF Counted, Decide
    <2>2. CASE /\ ~cb[k].graceful /\ CrashCounter[p] < CrashLimit
               /\ cbAt' = [cbAt EXCEPT ![k] = "count"]
               /\ cb' = [cb EXCEPT ![k].seen = CrashCounter[p]]
      <3>1. /\ cb'[k].program = p /\ cb'[k].again = cb[k].again /\ cb'[k].seen = CrashCounter[p]
            /\ ~cb'[k].graceful /\ \A j \in Callback \ {k} : cb'[j] = cb[j]
        BY <1>0, <2>2 DEF CallbackState
      <3>2. OnePlace(p)' /\ Answering(p)' = {k} /\ cbAt'[k] = "count"
        BY <1>3, <1>7, <2>2, <3>1 DEF Decide
      <3> QED
        BY <1>0, <1>7, <2>2, <3>1, <3>2 DEF Counted, Decide
    <2> QED
      BY <1>4, <1>7, <2>1, <2>2 DEF Decide
  <1>8. CASE Count(k)
    <2>1. cb[k].seen = CrashCounter[p] /\ CrashCounter[p] < CrashLimit
      BY <1>1, <1>8 DEF Counted, Count
    <2>2. CrashCounter'[p] = CrashCounter[p] + 1 /\ retries' = retries
      BY <1>0, <1>8, <2>1 DEF Count
    <2>3. OnePlace(p)' /\ Answering(p)' = {k} /\ cbAt'[k] = "push"
      BY <1>3, <1>8 DEF Count
    <2> QED
      BY <1>0, <2>1, <2>2, <2>3 DEF Counted
  <1>9. CASE Push(k)
    <2>1. Answering(p)' = {} /\ StartViaService(p) /\ CrashCounter' = CrashCounter
      BY <1>2, <1>9 DEF Push
    <2>2. AtMostOne(Queued(p)')
      BY <1>1, <2>1, QueuedBehind DEF AtMostOne
    <2>3. OnePlace(p)'
      BY <1>0, <1>1, <2>1, <2>2 DEF OnePlace, AtMostOne
    <2>4. retries'[p] = retries[p] \/ (~cb[k].graceful /\ retries'[p] = retries[p] + 1)
      BY <1>0, <1>9 DEF Push
    <2>5. retries'[p] <= CrashCounter[p]
      BY <1>0, <1>1, <1>9, <2>4 DEF Counted, Push
    <2> QED
      BY <2>1, <2>3, <2>5 DEF Counted
  <1> QED
    BY <1>5, <1>6, <1>7, <1>8, <1>9 DEF afterExit

THEOREM TokenStep == TypeOK /\ TokenInv /\ [Next]_vars => TokenInv'
  <1> SUFFICES ASSUME TypeOK, TokenInv, [Next]_vars, userStarts' = 0, NEW p \in Program \ Twice
               PROVE  OnePlace(p)' /\ Counted(p)'
    BY DEF TokenInv
  <1> USE DEF service, worker, env, callbacks
  <1>0. userStarts = 0 /\ OnePlace(p) /\ Counted(p)
    <2>1. userStarts' \in {userStarts, userStarts + 1} /\ userStarts \in Nat
      BY DEF TypeOK, vars, Next, ServiceStep, ProgramStep, ShutdownService, Tick, Take, Boot, WorkerCheck,
         WorkerLaunch, Exit, UserStart, afterExit, ResetCounter, PostExecution, Decide, Count, Push
    <2> QED
      BY <2>1 DEF TokenInv
  <1>1. CASE UNCHANGED <<booting, hand, queue, status, cbAt, cb, retries, CrashCounter>>
    BY <1>0, <1>1, PlaceKept DEF Queued, Answering
  <1>2. CASE Take /\ queue # <<>>
    <2>1. /\ hand = {} /\ hand' = {Head(queue)} /\ queue' = Tail(queue)
          /\ UNCHANGED <<booting, status, cbAt, cb, retries, CrashCounter>>
      BY <1>2 DEF Take, TypeOK
    <2>2. Answering(p)' = Answering(p)
      BY <2>1 DEF Answering
    <2>3. Counted(p)'
      BY <1>0, <2>1, <2>2 DEF Counted
    <2>4. /\ 1 \in Queued(Head(queue))
          /\ \A i : i \in Queued(p)' <=> (i \in Nat \ {0} /\ i + 1 \in Queued(p))
      BY <1>2, <2>1, TakenFront
    <2>5. CASE p = Head(queue)
      <3>1. Queued(p) = {1}
        BY <1>0, <2>4, <2>5 DEF OnePlace, AtMostOne
      <3>2. Queued(p)' = {}
        BY <2>4, <3>1
      <3> QED
        BY <1>0, <2>1, <2>2, <2>3, <2>5, <3>1, <3>2 DEF OnePlace, AtMostOne
    <2>6. CASE p # Head(queue)
      <3>1. AtMostOne(Queued(p)')
        <4> SUFFICES ASSUME NEW i \in Queued(p)', NEW j \in Queued(p)' PROVE i = j
          BY DEF AtMostOne
        <4>1. i \in Nat /\ j \in Nat /\ i + 1 = j + 1
          BY <1>0, <2>4 DEF OnePlace, AtMostOne
        <4> QED
          BY <4>1
      <3>2. Queued(p) = {} => Queued(p)' = {}
        BY <2>4
      <3>3. p \notin hand' /\ p \notin hand
        BY <2>1, <2>6
      <3> QED
        BY <1>0, <2>1, <2>2, <2>3, <3>1, <3>2, <3>3 DEF OnePlace, AtMostOne
    <2> QED
      BY <2>5, <2>6
  <1>3. ASSUME NEW q \in Program, Boot(q)
        PROVE  OnePlace(p)' /\ Counted(p)'
    <2>1. /\ booting' = booting \ {q} /\ q \in booting
          /\ UNCHANGED <<hand, status, cbAt, cb, retries, CrashCounter>>
      BY <1>3 DEF Boot
    <2>2. Answering(p)' = Answering(p)
      BY <2>1 DEF Answering
    <2>3. Counted(p)'
      BY <1>0, <2>1, <2>2 DEF Counted
    <2>4. CASE p # q
      BY <1>0, <1>3, <2>1, <2>2, <2>4, QueuedBehind, PlaceKept DEF Boot
    <2>5. CASE p = q
      <3>1. Queued(p) = {} /\ AtMostOne(Queued(p)')
        BY <1>0, <1>3, <2>1, <2>5, QueuedBehind DEF Boot, OnePlace, AtMostOne
      <3> QED
        BY <1>0, <2>1, <2>2, <2>3, <2>5, <3>1 DEF OnePlace, AtMostOne
    <2> QED
      BY <2>4, <2>5
  <1>4. ASSUME NEW q \in Program, WorkerCheck(q) \/ WorkerLaunch(q)
        PROVE  OnePlace(p)' /\ Counted(p)'
    <2>1. /\ hand = {q} /\ hand' \subseteq hand
          /\ UNCHANGED <<booting, queue, cbAt, cb, retries, CrashCounter>>
      BY <1>4 DEF WorkerCheck, WorkerLaunch, PutDown
    <2>2. Answering(p)' = Answering(p) /\ Queued(p)' = Queued(p)
      BY <2>1 DEF Answering, Queued
    <2>3. Counted(p)'
      BY <1>0, <2>1, <2>2 DEF Counted
    <2>4. /\ status' = status \/ (hand' = {} /\ status' = [status EXCEPT ![q] = "up"])
      BY <1>4 DEF WorkerCheck, WorkerLaunch, PutDown, Launch
    <2>5. status'[p] = status[p] \/ (hand' = {} /\ p = q /\ status'[p] = "up")
      BY <2>4 DEF TypeOK
    <2> QED
      BY <1>0, <2>1, <2>2, <2>3, <2>5 DEF OnePlace, AtMostOne
  <1>5. ASSUME NEW q \in Program, Exit(q)
        PROVE  OnePlace(p)' /\ Counted(p)'
    <2>1. PICK k \in Callback, g \in BOOLEAN :
             /\ cbAt[k] = "free" /\ cbAt' = [cbAt EXCEPT ![k] = "reset"]
             /\ cb' = [cb EXCEPT ![k] = [program |-> q, graceful |-> g, seen |-> 0,
                                         again |-> q \in Twice /\ ~g]]
      BY <1>5 DEF Exit
    <2>2. /\ status[q] = "up" /\ status' = [status EXCEPT ![q] = "down"]
          /\ UNCHANGED <<booting, hand, queue, retries, CrashCounter>>
      BY <1>5 DEF Exit
    <2>3. /\ \A j \in Callback \ {k} : cbAt'[j] = cbAt[j] /\ cb'[j] = cb[j]
          /\ cbAt'[k] = "reset" /\ cb'[k].program = q /\ cb'[k].again = (q \in Twice /\ ~g)
          /\ status'[p] = IF p = q THEN "down" ELSE status[p]
      BY <2>1, <2>2 DEF TypeOK
    <2>4. Queued(p)' = Queued(p)
      BY <2>2 DEF Queued
    <2>5. CASE p # q
      <3>1. Answering(p)' = Answering(p)
        BY <2>1, <2>3, <2>5 DEF Answering
      <3>2. \A j \in Answering(p) : cbAt'[j] = cbAt[j] /\ cb'[j] = cb[j]
        BY <2>1, <2>3 DEF Answering
      <3> QED
        BY <1>0, <2>2, <2>3, <2>4, <2>5, <3>1, <3>2, PlaceKept
    <2>6. CASE p = q
      <3>1. Answering(p) = {} /\ Queued(p) = {} /\ p \notin hand /\ p \notin booting
        BY <1>0, <2>2, <2>6 DEF OnePlace
      <3>2. Answering(p)' = {k}
        BY <2>3, <2>6, <3>1 DEF Answering
      <3>3. OnePlace(p)'
        <4>1. ~cb'[k].again /\ status'[p] = "down" /\ Queued(p)' = {}
          BY <2>3, <2>4, <2>6, <3>1
        <4> QED
          BY <2>2, <3>1, <3>2, <4>1 DEF OnePlace, AtMostOne
      <3>4. Counted(p)'
        BY <1>0, <2>2, <2>3, <3>2 DEF Counted
      <3> QED
        BY <3>3, <3>4
    <2> QED
      BY <2>5, <2>6
  <1>6. ASSUME NEW k \in Callback, afterExit(k)
        PROVE  OnePlace(p)' /\ Counted(p)'
    <2>0. /\ cbAt[k] # "free" /\ cb[k] \in CallbackState /\ UNCHANGED <<booting, hand, status>>
          /\ cbAt \in [Callback -> {"free", "reset", "post", "decide", "count", "push"}]
          /\ cb \in [Callback -> CallbackState \cup {None}]
          /\ retries \in [Program -> Nat] /\ CrashCounter \in [Program -> Nat]
      BY <1>6 DEF TypeOK, afterExit, ResetCounter, PostExecution, Decide, Count, Push
    <2>1. PICK q \in Program : q = cb[k].program
      BY <2>0 DEF CallbackState
    <2>2. CASE p # q
      <3>1. /\ \A j \in Callback \ {k} : cbAt'[j] = cbAt[j] /\ cb'[j] = cb[j]
            /\ cbAt'[k] = "free" \/ cb'[k].program = q
        BY <1>6, <2>0, <2>1 DEF afterExit, ResetCounter, PostExecution, Decide, Count, Push, Return, CallbackState
      <3>2. Answering(p)' = Answering(p) /\ \A j \in Answering(p) : cbAt'[j] = cbAt[j] /\ cb'[j] = cb[j]
        BY <2>1, <2>2, <3>1 DEF Answering
      <3>3. retries'[p] = retries[p] /\ CrashCounter'[p] = CrashCounter[p]
        BY <1>6, <2>0, <2>1, <2>2 DEF afterExit, ResetCounter, PostExecution, Decide, Count, Push
      <3>4. queue' = queue \/ StartViaService(q)
        BY <1>6, <2>1 DEF afterExit, ResetCounter, PostExecution, Decide, Count, Push
      <3>5. Queued(p)' = Queued(p)
        BY <2>2, <3>4, QueuedBehind DEF Queued
      <3> QED
        BY <1>0, <2>0, <3>2, <3>3, <3>5, PlaceKept
    <2>3. CASE p = q
      BY <1>0, <1>6, <2>1, <2>3, AnswerStep
    <2> QED
      BY <2>2, <2>3
  <1>7. CASE Take /\ queue = <<>>
    BY <1>1, <1>7 DEF Take
  <1>8. CASE Tick \/ ShutdownService \/ UNCHANGED vars
    BY <1>1, <1>8 DEF Tick, ShutdownService, vars
  <1>9. ASSUME NEW q \in Program, UserStart(q)
        PROVE  FALSE
    BY <1>0, <1>9 DEF UserStart
  <1> QED
    BY <1>2, <1>3, <1>4, <1>5, <1>6, <1>7, <1>8, <1>9 DEF Next, ServiceStep, ProgramStep

-----------------------------------------------------------------------------
\* A set with at most one element counts for nothing or one.
LEMMA CountOfOne ==
  ASSUME NEW S, AtMostOne(S)
  PROVE  Cardinality(S) = IF S = {} THEN 0 ELSE 1
  <1>1. CASE S = {}
    BY <1>1, FS_EmptySet
  <1>2. CASE S # {}
    <2>1. PICK x \in S : TRUE
      BY <1>2
    <2>2. S = {x}
      BY <2>1 DEF AtMostOne
    <2> QED
      BY <1>2, <2>2, FS_Singleton
  <1> QED
    BY <1>1, <1>2

LEMMA OnePlaceCounts ==
  ASSUME NEW p \in Program, OnePlace(p)
  PROVE  Tokens(p) <= 1
  <1>1. /\ Cardinality(booting \cap {p}) = IF p \in booting THEN 1 ELSE 0
        /\ Cardinality(hand \cap {p}) = IF p \in hand THEN 1 ELSE 0
    <2>1. \A S : AtMostOne(S \cap {p}) /\ (S \cap {p} = {} <=> p \notin S)
      BY DEF AtMostOne
    <2> QED
      BY <2>1, CountOfOne
  <1>2. /\ Cardinality(Queued(p)) = IF Queued(p) = {} THEN 0 ELSE 1
        /\ Cardinality(Answering(p)) = IF Answering(p) = {} THEN 0 ELSE 1
    BY CountOfOne DEF OnePlace
  <1>3. Tokens(p) = Cardinality(booting \cap {p}) + Cardinality(hand \cap {p}) + Cardinality(Queued(p))
                    + (IF status[p] = "up" THEN 1 ELSE 0) + Cardinality(Answering(p))
    BY DEF Tokens, Queued, Answering
  <1>4. /\ p \in booting => p \notin hand /\ Queued(p) = {} /\ Answering(p) = {} /\ status[p] = "down"
        /\ p \in hand => Queued(p) = {} /\ Answering(p) = {} /\ status[p] = "down"
        /\ Queued(p) # {} => Answering(p) = {} /\ status[p] = "down"
        /\ Answering(p) # {} => status[p] = "down"
    BY DEF OnePlace
  <1> QED
    BY <1>1, <1>2, <1>3, <1>4

THEOREM TokenInit == Init => TokenInv
  <1> SUFFICES ASSUME Init, NEW p \in Program PROVE OnePlace(p) /\ Counted(p)
    BY DEF TokenInv
  <1>1. /\ hand = {} /\ status[p] = "down" /\ retries[p] = 0 /\ CrashCounter[p] = 0 /\ CrashLimit \in Nat
        /\ Queued(p) = {} /\ Answering(p) = {}
    BY RestartAssumption DEF Init, Queued, Answering
  <1>2. OnePlace(p)
    BY <1>1 DEF OnePlace, AtMostOne
  <1>3. Counted(p)
    BY <1>1 DEF Counted
  <1> QED
    BY <1>2, <1>3

THEOREM TokenInvCorrect == Spec => []TokenInv
  BY TokenInit, TokenStep, TypeCorrect, PTL DEF Spec

(* While only the daemon starts programs, a program whose exits are told   *)
(* once is booting, in processQueue's hand, queued, running or in one      *)
(* afterExit call, and in one of these only: whatever the policies, the    *)
(* crash limit and the length of the queue.                                *)
THEOREM OneTokenCorrect == Spec => []OneToken
  <1>1. TokenInv => OneToken
    BY OnePlaceCounts DEF TokenInv, OneToken
  <1> QED
    BY <1>1, TokenInvCorrect, PTL

LEMMA TokenBoundsRetries == TypeOK /\ TokenInv => RetriesBounded
  <1> SUFFICES ASSUME TypeOK, TokenInv, userStarts = 0, NEW p \in Program \ Twice
               PROVE  retries[p] <= CrashLimit
    BY DEF RetriesBounded
  <1>1. retries[p] <= CrashCounter[p] /\ CrashCounter[p] <= CrashLimit
    BY DEF TokenInv, Counted
  <1>2. retries[p] \in Nat /\ CrashCounter[p] \in Nat /\ CrashLimit \in Nat
    BY RestartAssumption DEF TypeOK
  <1> QED
    BY <1>1, <1>2

(* ... so that its crash counter, which afterExit reads and increments     *)
(* with no lock, is never read by two calls, and bounds the restarts after *)
(* crashes since the last clean exit.                                      *)
THEOREM RetriesBoundedCorrect == Spec => []RetriesBounded
  BY TokenBoundsRetries, TypeCorrect, TokenInvCorrect, PTL
=============================================================================
