---------------------------- MODULE TtyEnvProofs ----------------------------
(***************************************************************************)
(* Proofs about TtyEnv, for any number of executions and clients.          *)
(***************************************************************************)
EXTENDS TtyEnv, FiniteSetTheorems, TLAPS

(* handleClose waits for a Cmd. *)
ReapTarget == \A e \in Exec : at[e] = "reap" => target[e] \in Exec

(* Type correctness rests on WaitCount: the counter stays in Nat. *)
CountInv == TypeOK /\ ReapTarget /\ WaitCount

Holders == {e \in Exec : at[e] \in Holding}

-----------------------------------------------------------------------------
(* What serialised calls of ExecuteAsync add (Overlap = FALSE)             *)

(* one call of ExecuteAsync at a time *)
OneCall == \A e, f \in Exec : at[e] \in InCall /\ at[f] \in InCall => e = f

(* from the time the WaitGroup lets a call pass, its execution is alone *)
OneBusy == \A e, f \in Exec :
    at[e] \in Holding \cup {"add"} /\ at[f] \in Holding \cup {"add"} => e = f

(* a call that was woken finds the WaitGroup still at 0 *)
WokenAlone == \A e, f \in Exec : at[e] = "woken" => at[f] \notin Holding \cup {"add"}

(* mainProcess is the one execution between SetMain and Clear, or one that failed *)
MainIsBusy ==
    /\ \A e \in Exec : at[e] \in {"spawn", "started", "close", "reap", "judge", "release", "clear"}
                           => mainProcess = e
    /\ mainProcess # None => at[mainProcess] \in {"spawn", "started", "close", "reap", "judge",
                                                  "release", "clear", "lost"}

(* the state of a process follows from where its execution is *)
ProcByStage == \A e \in Exec :
    /\ at[e] \in {"idle", "refused", "panicked", "wait", "blocked", "woken", "add", "set", "spawn", "lost"}
           => proc[e] = "none" /\ ~waited[e] /\ ~released[e]
    /\ at[e] \in {"started", "close"} => proc[e] \in {"live", "zombie"} /\ ~waited[e] /\ ~released[e]
    /\ at[e] = "reap" => proc[e] \in {"live", "zombie"} /\ ~released[e] /\ target[e] = e
    /\ at[e] \in {"judge", "release", "clear", "done", "tell", "end"} => proc[e] = "gone"
    /\ at[e] \notin {"clearInput", "kill", "code", "write", "back"}

(* what handleClose knows of the exit is right, and is told once, at the end *)
VerdictByStage == \A e \in Exec :
    /\ at[e] \in {"judge", "release", "clear", "done", "tell"} => verdict[e] = ok[e]
    /\ told[e] = IF at[e] = "end" /\ e \in Tracked THEN <<ok[e]>> ELSE <<>>

(* a waiting client's process has started, and is gone once the client is woken *)
SeenByClient == \A c \in Client :
    /\ at[c] \in {"wait", "blocked"} => saw[c] \in Exec /\ proc[saw[c]] # "none"
    /\ at[c] \in {"woken", "back"} => saw[c] \in Exec /\ proc[saw[c]] = "gone"

SerialInv == /\ OneCall /\ OneBusy /\ WokenAlone /\ MainIsBusy /\ ProcByStage
             /\ VerdictByStage /\ SeenByClient /\ NoCrash
-----------------------------------------------------------------------------
LEMMA HoldersFinite == IsFiniteSet(Holders)
  BY ExecAssumption, FS_Subset DEF Holders

(* A step of p that neither enters nor leaves Holding keeps the count. *)
LEMMA SameHolders ==
  ASSUME TypeOK, WaitCount, NEW p \in Caller, NEW to,
         at' = [at EXCEPT ![p] = to], wg' = wg,
         p \in Exec => (at[p] \in Holding <=> to \in Holding)
  PROVE  WaitCount'
  <1>1. Holders' = Holders
    BY DEF Holders, TypeOK, Caller
  <1> QED
    BY <1>1 DEF WaitCount, Holders

(* Wait.Add *)
LEMMA OneMoreHolder ==
  ASSUME TypeOK, WaitCount, NEW e \in Exec, Register(e)
  PROVE  WaitCount' /\ wg' \in Nat
  <1>1. Holders' = Holders \cup {e} /\ e \notin Holders
    BY DEF Holders, TypeOK, Caller, Register, Goto, Holding
  <1>2. Cardinality(Holders') = Cardinality(Holders) + 1
    BY <1>1, HoldersFinite, FS_AddElement
  <1> QED
    BY <1>2 DEF WaitCount, Holders, Register, TypeOK

(* Wait.Done: the calls it wakes are not holders *)
LEMMA OneHolderLess ==
  ASSUME TypeOK, WaitCount, NEW e \in Exec, WgDone(e, "done", "tell")
  PROVE  WaitCount' /\ wg' \in Nat /\ wg # 0
  <1>1. Holders' = Holders \ {e} /\ e \in Holders
    BY DEF Holders, TypeOK, Caller, WgDone, Holding
  <1>2. Cardinality(Holders') = Cardinality(Holders) - 1 /\ Cardinality(Holders) \in Nat
    BY <1>1, HoldersFinite, FS_RemoveElement, FS_CardinalityType
  <1>3. Cardinality(Holders') \in Nat
    BY <1>1, HoldersFinite, FS_Subset, FS_CardinalityType
  <1> QED
    BY <1>2, <1>3 DEF WaitCount, Holders, WgDone, TypeOK

THEOREM CountInit == Init => CountInv
  <1> SUFFICES ASSUME Init PROVE CountInv
    OBVIOUS
  <1>1. ReapTarget
    BY DEF Init, ExecInit, ReapTarget, Caller
  <1>4. told \in [Exec -> Seq(BOOLEAN)]
    <2>1. <<>> \in Seq(BOOLEAN)
      OBVIOUS
    <2> QED
      BY <2>1 DEF Init, ExecInit
  <1>5. TypeOK
    BY <1>4 DEF Init, ExecInit, TypeOK, ExecAt, ClientAt, Caller
  <1>2. Holders = {}
    BY DEF Init, ExecInit, Holders, Holding, Caller
  <1>3. WaitCount
    BY <1>2, FS_EmptySet DEF WaitCount, Holders, Init, ExecInit
  <1> QED
    BY <1>1, <1>3, <1>5 DEF CountInv

(* The calls on the environment that TtyEnv has no part in raising or      *)
(* lowering the WaitGroup for.                                             *)
LEMMA ClientCount ==
  ASSUME CountInv, NEW c \in Client, ClientStep(c)
  PROVE  CountInv'
  <1> USE DEF TypeOK, Caller
  <1>0. c \in Caller /\ c \notin Exec
    BY ExecAssumption
  <1>1. CASE ClientCheck(c)
    <2>1. PICK to \in {"kill", "code", "write", "wait"} :
             at[c] = "idle" /\ at' = [at EXCEPT ![c] = IF IsRunning THEN to ELSE "end"]
      BY <1>1 DEF ClientCheck, Goto
    <2>2. TypeOK' /\ ReapTarget'
      BY <1>0, <1>1, <2>1 DEF CountInv, ClientCheck, ReapTarget, ClientAt, IsRunning, fields, os, cmd, closing
    <2>3. WaitCount'
      BY <1>0, <1>1, <2>1, SameHolders DEF CountInv, ClientCheck
    <2> QED
      BY <2>2, <2>3 DEF CountInv
  <1>2. CASE Kill(c) \/ SendCode(c)
    <2>1. PICK to \in {"panicked", "end"} : at' = [at EXCEPT ![c] = to]
      BY <1>2 DEF Kill, SendCode, UseProcess, Goto
    <2>2. proc' \in {proc, [proc EXCEPT ![mainProcess] = "zombie"]}
      BY <1>2 DEF Kill, SendCode
    <2>3. TypeOK' /\ ReapTarget'
      BY <1>0, <1>2, <2>1, <2>2 DEF CountInv, Kill, SendCode, ReapTarget, ClientAt, fields, cmd, closing
    <2>4. WaitCount'
      BY <1>0, <1>2, <2>1, SameHolders DEF CountInv, Kill, SendCode
    <2> QED
      BY <2>3, <2>4 DEF CountInv
  <1>3. CASE ExecuteInMainProcess(c) \/ WaitForMainProcess(c)
    <2>1. TypeOK' /\ ReapTarget'
      <3>1. PICK to \in {"panicked", "end", "blocked", "woken", "back"} : at' = [at EXCEPT ![c] = to]
        BY <1>3 DEF ExecuteInMainProcess, WaitForMainProcess, WgWait, WgWake, Goto
      <3>2. UNCHANGED <<fields, wg, os, cmd, closing, saw>> /\ crashed' \in BOOLEAN
        BY <1>3 DEF CountInv, TypeOK, ExecuteInMainProcess, WaitForMainProcess, WgWait, WgWake, Panic
      <3> QED
        BY <1>0, <3>1, <3>2 DEF CountInv, TypeOK, ReapTarget, ClientAt, fields, os, cmd, closing
    <2>2. WaitCount'
      BY <1>0, <1>3, SameHolders DEF CountInv, ExecuteInMainProcess, WaitForMainProcess, WgWait, WgWake, Goto
    <2> QED
      BY <2>1, <2>2 DEF CountInv
  <1> QED
    BY <1>1, <1>2, <1>3 DEF ClientStep

LEMMA ProceedCount ==
  ASSUME CountInv, NEW e \in Exec, Check(e) \/ Proceed(e)
  PROVE  CountInv'
  <1> USE DEF TypeOK, Caller
  <1>1. CASE Register(e)
    <2>1. WaitCount' /\ wg' \in Nat
      BY <1>1, OneMoreHolder DEF CountInv
    <2>2. TypeOK' /\ ReapTarget'
      BY <1>1, <2>1 DEF CountInv, Register, Goto, ReapTarget, ExecAt, InCall, fields, os, cmd, closing
    <2> QED
      BY <2>1, <2>2 DEF CountInv
  <1>2. CASE Check(e)
    <2>1. TypeOK' /\ ReapTarget'
      BY <1>2 DEF CountInv, Check, Goto, ReapTarget, ExecAt, InCall, fields, os, cmd, closing
    <2>2. WaitCount'
      BY <1>2, SameHolders DEF CountInv, Check, Goto, Holding
    <2> QED
      BY <2>1, <2>2 DEF CountInv
  <1>3. CASE WgWait(e, "add")
    <2>1. TypeOK' /\ ReapTarget'
      BY <1>3 DEF CountInv, WgWait, Goto, ReapTarget, ExecAt, InCall, fields, os, cmd, closing
    <2>2. WaitCount'
      BY <1>3, SameHolders DEF CountInv, WgWait, Goto, Holding
    <2> QED
      BY <2>1, <2>2 DEF CountInv
  <1>4. CASE WgWake(e, "add")
    <2>1. TypeOK' /\ ReapTarget'
      BY <1>4 DEF CountInv, WgWake, Panic, Goto, ReapTarget, ExecAt, InCall, fields, os, cmd, closing
    <2>2. WaitCount'
      BY <1>4, SameHolders DEF CountInv, WgWake, Goto, Holding
    <2> QED
      BY <2>1, <2>2 DEF CountInv
  <1>5. CASE SetMain(e) \/ Attach(e)
    <2>1. TypeOK' /\ ReapTarget'
      BY <1>5 DEF CountInv, SetMain, Attach, Goto, ReapTarget, ExecAt, InCall, fields, os, cmd, closing
    <2>2. WaitCount'
      BY <1>5, SameHolders DEF CountInv, SetMain, Attach, Goto, Holding
    <2> QED
      BY <2>1, <2>2 DEF CountInv
  <1>6. CASE Spawn(e)
    <2>1. PICK to \in {"lost", "started"} :
             /\ at[e] = "spawn" /\ at' = [at EXCEPT ![e] = to]
             /\ proc' \in {proc, [proc EXCEPT ![e] = "live"]}
             /\ ok' = ok /\ crashed' \in BOOLEAN
             /\ UNCHANGED <<fields, wg, cmd, closing, saw>>
      BY <1>6 DEF CountInv, Spawn, Panic, Goto, os
    <2>2. TypeOK' /\ ReapTarget'
      BY <2>1 DEF CountInv, ReapTarget, ExecAt, InCall, fields, os, cmd, closing
    <2>3. WaitCount'
      BY <2>1, SameHolders DEF CountInv, Holding
    <2> QED
      BY <2>2, <2>3 DEF CountInv
  <1> QED
    BY <1>1, <1>2, <1>3, <1>4, <1>5, <1>6 DEF Proceed, AwaitEarlier

LEMMA CloseCount ==
  ASSUME CountInv, NEW e \in Exec, handleClose(e)
  PROVE  CountInv'
  <1> USE DEF TypeOK, Caller
  <1>1. CASE WgDone(e, "done", "tell")
    <2>1. WaitCount' /\ wg' \in Nat
      BY <1>1, OneHolderLess DEF CountInv
    <2>2. TypeOK' /\ ReapTarget'
      BY <1>1, <2>1 DEF CountInv, WgDone, ReapTarget, ExecAt, ClientAt, InCall, fields, os, cmd, closing
    <2> QED
      BY <2>1, <2>2 DEF CountInv
  <1>2. CASE CloseWait(e, "judge") /\ mainProcess = None
    BY <1>2, ExecAssumption DEF CountInv, ReapTarget, WaitCount, CloseWait, fields, os
  <1>3. CASE CloseWait(e, "judge") /\ mainProcess # None
    <2>0. mainProcess \in Exec
      BY <1>3 DEF CountInv
    <2>1. PICK to \in {"reap", "judge"} : at[e] = "close" /\ at' = [at EXCEPT ![e] = to]
      BY <1>3 DEF CloseWait
    <2>2. target' = [target EXCEPT ![e] = mainProcess]
      BY <1>3 DEF CloseWait
    <2>3. waited' \in [Exec -> BOOLEAN]
      <3>1. waited' = [waited EXCEPT ![mainProcess] = waited[mainProcess] \/ proc[mainProcess] # "none"]
        BY <1>3 DEF CloseWait
      <3>2. (waited[mainProcess] \/ proc[mainProcess] # "none") \in BOOLEAN
        OBVIOUS
      <3> QED
        BY <3>1, <3>2 DEF CountInv
    <2>4. UNCHANGED <<mainProcess, stdInWriter, wg, proc, ok, released, verdict, told, crashed, saw>>
      BY <1>3 DEF CloseWait, fields, os
    <2>5. TypeOK' /\ ReapTarget'
      BY <2>0, <2>1, <2>2, <2>3, <2>4 DEF CountInv, ReapTarget, ExecAt
    <2>6. WaitCount'
      BY <2>1, <2>4, SameHolders DEF CountInv, Holding
    <2> QED
      BY <2>5, <2>6 DEF CountInv
  <1>5. CASE CloseReap(e, "judge")
    <2>1. TypeOK' /\ ReapTarget'
      BY <1>5 DEF CountInv, CloseReap, Goto, ReapTarget, ExecAt, fields, cmd
    <2>2. WaitCount'
      BY <1>5, SameHolders DEF CountInv, CloseReap, Goto, Holding
    <2> QED
      BY <2>1, <2>2 DEF CountInv
  <1>6. CASE Judge(e)
    <2>1. (HasState(e) /\ ok[mainProcess]) \in BOOLEAN
      BY DEF HasState
    <2>2. TypeOK' /\ ReapTarget'
      BY <1>6, <2>1 DEF CountInv, Judge, Goto, ReapTarget, ExecAt, fields, os, cmd
    <2>3. WaitCount'
      BY <1>6, SameHolders DEF CountInv, Judge, Goto, Holding
    <2> QED
      BY <2>2, <2>3 DEF CountInv
  <1>7. CASE CloseRelease(e, "release", "clear")
    <2>1. released' \in [Exec -> BOOLEAN]
      <3>1. (released[mainProcess] \/ proc[mainProcess] # "none") \in BOOLEAN
        OBVIOUS
      <3> QED
        BY <1>7, <3>1 DEF CountInv, CloseRelease
    <2>2. TypeOK' /\ ReapTarget'
      BY <1>7, <2>1 DEF CountInv, CloseRelease, Goto, ReapTarget, ExecAt, fields, os, closing
    <2>3. WaitCount'
      BY <1>7, SameHolders DEF CountInv, CloseRelease, Goto, Holding
    <2> QED
      BY <2>2, <2>3 DEF CountInv
  <1>8. CASE Clear(e)
    <2>1. TypeOK' /\ ReapTarget'
      BY <1>8 DEF CountInv, Clear, Goto, ReapTarget, ExecAt, os, cmd, closing
    <2>2. WaitCount'
      BY <1>8, SameHolders DEF CountInv, Clear, Goto, Holding
    <2> QED
      BY <2>1, <2>2 DEF CountInv
  <1>4. CASE CloseTell(e)
    <2>1. Append(told[e], verdict[e]) \in Seq(BOOLEAN)
      BY DEF CountInv
    <2>2. TypeOK' /\ ReapTarget'
      BY <1>4, <2>1 DEF CountInv, CloseTell, Goto, ReapTarget, ExecAt, fields, os, cmd
    <2>3. WaitCount'
      BY <1>4, SameHolders DEF CountInv, CloseTell, Goto, Holding
    <2> QED
      BY <2>2, <2>3 DEF CountInv
  <1> QED
    BY <1>1, <1>2, <1>3, <1>4, <1>5, <1>6, <1>7, <1>8 DEF handleClose

THEOREM CountStep == CountInv /\ [Next]_vars => CountInv'
  <1> SUFFICES ASSUME CountInv, [Next]_vars PROVE CountInv'
    OBVIOUS
  <1>1. CASE UNCHANGED vars
    BY <1>1 DEF CountInv, TypeOK, ReapTarget, WaitCount, vars, fields, os, cmd, closing
  <1>2. ASSUME NEW e \in Exec, ProcExit(e) PROVE CountInv'
    BY <1>2 DEF CountInv, TypeOK, ReapTarget, WaitCount, ProcExit, fields, cmd, closing
  <1> QED
    BY <1>1, <1>2, ProceedCount, CloseCount, ClientCount DEF Next

(* The state stays well-typed; that wg \in Nat is part of it is why Go's    *)
(* panic for a negative WaitGroup counter cannot happen.                   *)
THEOREM TypeCorrect == Spec => []TypeOK
  <1>1. CountInv => TypeOK
    BY DEF CountInv
  <1> QED
    BY <1>1, CountInit, CountStep, PTL DEF Spec

(* The WaitGroup counts the calls between Add and Done, whether or not     *)
(* calls of ExecuteAsync overlap.                                          *)
THEOREM WaitCountCorrect == Spec => []WaitCount
  <1>1. CountInv => WaitCount
    BY DEF CountInv
  <1> QED
    BY <1>1, CountInit, CountStep, PTL DEF Spec

-----------------------------------------------------------------------------
(* Serialised calls                                                        *)

(* The counter is 0 exactly when nobody holds the WaitGroup. *)
LEMMA ZeroMeansNone ==
  ASSUME CountInv
  PROVE  wg = 0 <=> \A e \in Exec : at[e] \notin Holding
  <1>1. Holders = {} <=> Cardinality(Holders) = 0
    BY HoldersFinite, FS_EmptySet
  <1> QED
    BY <1>1 DEF Holders, CountInv, WaitCount

(* A lone execution's Wait.Done takes it to 0. *)
LEMMA DoneMeansNone ==
  ASSUME CountInv, OneBusy, NEW e \in Exec, at[e] = "done"
  PROVE  wg = 1 /\ \A f \in Exec : at[f] \in Holding \cup {"add"} => f = e
  <1>1. \A f \in Exec : at[f] \in Holding \cup {"add"} => f = e
    BY DEF OneBusy, Holding
  <1>2. Holders = {e}
    BY <1>1 DEF Holders, Holding
  <1>3. Cardinality(Holders) = 1
    BY <1>2, FS_Singleton
  <1> QED
    BY <1>1, <1>3 DEF Holders, CountInv, WaitCount

THEOREM SerialInit == Init => SerialInv
  BY ExecAssumption DEF Init, ExecInit, SerialInv, OneCall, OneBusy, WokenAlone, MainIsBusy, ProcByStage,
     VerdictByStage, SeenByClient, NoCrash, InCall, Holding, Caller

LEMMA ProceedSerial ==
  ASSUME CountInv, SerialInv, Overlap = FALSE, NEW e \in Exec, Check(e) \/ Proceed(e)
  PROVE  SerialInv'
  <1> USE ExecAssumption DEF CountInv, SerialInv, TypeOK, Caller, Goto, InCall, Holding, fields, os, cmd, closing
  <1>1. CASE Check(e)
    <2>1. (OneCall /\ OneBusy /\ WokenAlone)'
      BY <1>1 DEF Check, OneCall, OneBusy, WokenAlone
    <2>2. (MainIsBusy /\ ProcByStage /\ VerdictByStage)'
      BY <1>1 DEF Check, MainIsBusy, ProcByStage, VerdictByStage
    <2>3. (SeenByClient /\ NoCrash)'
      BY <1>1 DEF Check, SeenByClient, NoCrash
    <2> QED
      BY <2>1, <2>2, <2>3
  <1>2. CASE AwaitEarlier(e)
    <2>0. wg = 0 => \A f \in Exec : at[f] \notin Holding
      BY ZeroMeansNone
    <2>1. at[e] = "woken" => wg = 0
      BY ZeroMeansNone DEF WokenAlone
    <2>2. /\ \E from \in {"wait", "woken"}, to \in {"add", "blocked"} :
                at[e] = from /\ at' = [at EXCEPT ![e] = to] /\ (to = "add" => wg = 0)
          /\ UNCHANGED <<mainProcess, stdInWriter, wg, proc, ok, waited, released, target, verdict, told, crashed, saw>>
      BY <1>2, <2>1 DEF AwaitEarlier, WgWait, WgWake
    <2>3. (OneCall /\ OneBusy /\ WokenAlone)'
      BY <2>0, <2>2 DEF OneCall, OneBusy, WokenAlone
    <2>4. (MainIsBusy /\ ProcByStage /\ VerdictByStage)'
      BY <2>2 DEF MainIsBusy, ProcByStage, VerdictByStage
    <2>5. (SeenByClient /\ NoCrash)'
      BY <2>2 DEF SeenByClient, NoCrash
    <2> QED
      BY <2>3, <2>4, <2>5
  <1>3. CASE Register(e)
    <2>1. (OneCall /\ OneBusy /\ WokenAlone)'
      BY <1>3 DEF Register, OneCall, OneBusy, WokenAlone
    <2>2. (MainIsBusy /\ ProcByStage /\ VerdictByStage)'
      BY <1>3 DEF Register, MainIsBusy, ProcByStage, VerdictByStage
    <2>3. (SeenByClient /\ NoCrash)'
      BY <1>3 DEF Register, SeenByClient, NoCrash
    <2> QED
      BY <2>1, <2>2, <2>3
  <1>4. CASE SetMain(e)
    <2>1. (OneCall /\ OneBusy /\ WokenAlone)'
      BY <1>4 DEF SetMain, OneCall, OneBusy, WokenAlone
    <2>2. MainIsBusy'
      BY <1>4 DEF SetMain, MainIsBusy, OneBusy
    <2>3. (ProcByStage /\ VerdictByStage)'
      BY <1>4 DEF SetMain, ProcByStage, VerdictByStage
    <2>4. (SeenByClient /\ NoCrash)'
      BY <1>4 DEF SetMain, SeenByClient, NoCrash
    <2> QED
      BY <2>1, <2>2, <2>3, <2>4
  <1>5. CASE Spawn(e)
    <2>0. /\ \/ at' = [at EXCEPT ![e] = "lost"] /\ proc' = proc
             \/ at' = [at EXCEPT ![e] = "started"] /\ proc' = [proc EXCEPT ![e] = "live"]
          /\ at[e] = "spawn" /\ mainProcess = e
          /\ UNCHANGED <<mainProcess, stdInWriter, wg, ok, waited, released, target, verdict, told, crashed, saw>>
      BY <1>5 DEF Spawn, MainIsBusy
    <2>1. OneCall' /\ OneBusy'
      <3>1. \A f \in Exec : at'[f] = at[f] \/ f = e
        BY <2>0
      <3>2. at'[e] \in Holding /\ at[e] \in InCall \cap Holding
        BY <2>0
      <3> QED
        BY <3>1, <3>2 DEF OneCall, OneBusy
    <2>5. WokenAlone'
      BY <2>0 DEF WokenAlone
    <2>2. MainIsBusy'
      BY <2>0 DEF MainIsBusy, OneBusy
    <2>3. (ProcByStage /\ VerdictByStage)'
      BY <2>0 DEF ProcByStage, VerdictByStage
    <2>4. (SeenByClient /\ NoCrash)'
      BY <2>0 DEF SeenByClient, NoCrash, ProcByStage
    <2> QED
      BY <2>1, <2>2, <2>3, <2>4, <2>5
  <1>6. CASE Attach(e)
    <2>1. (OneCall /\ OneBusy /\ WokenAlone)'
      BY <1>6 DEF Attach, OneCall, OneBusy, WokenAlone
    <2>2. (MainIsBusy /\ ProcByStage /\ VerdictByStage)'
      BY <1>6 DEF Attach, MainIsBusy, ProcByStage, VerdictByStage
    <2>3. (SeenByClient /\ NoCrash)'
      BY <1>6 DEF Attach, SeenByClient, NoCrash
    <2> QED
      BY <2>1, <2>2, <2>3
  <1> QED
    BY <1>1, <1>2, <1>3, <1>4, <1>5, <1>6 DEF Proceed

\* handleClose is in no call, and does not come to hold the WaitGroup again.
LEMMA CloseStaysAlone ==
  ASSUME TypeOK, OneCall, OneBusy, WokenAlone, NEW e \in Exec, NEW to, at' = [at EXCEPT ![e] = to],
         to \notin InCall \cup {"add"}, to \in Holding => at[e] \in Holding
  PROVE  (OneCall /\ OneBusy /\ WokenAlone)'
  <1>1. at'[e] = to /\ \A f \in Exec \ {e} : at'[f] = at[f]
    BY DEF TypeOK, Caller
  <1> QED
    BY <1>1 DEF OneCall, OneBusy, WokenAlone, InCall

\* Wait.Done wakes calls, and leaves nobody that holds the WaitGroup.
LEMMA DoneStaysAlone ==
  ASSUME OneCall, NEW e \in Exec, \A f \in Exec : at'[f] \notin Holding \cup {"add"},
         \A f \in Exec : \/ at'[f] = at[f]
                         \/ f = e /\ at'[f] = "tell"
                         \/ at[f] = "blocked" /\ at'[f] = "woken"
  PROVE  (OneCall /\ OneBusy /\ WokenAlone)'
  <1>1. \A f \in Exec : at'[f] \in InCall => at[f] \in InCall
    BY DEF InCall
  <1> QED
    BY <1>1 DEF OneCall, OneBusy, WokenAlone

\* Wait.Done: the WaitGroup held this execution alone, so every waiting call passes.
LEMMA DoneSerial ==
  ASSUME CountInv, SerialInv, NEW e \in Exec, WgDone(e, "done", "tell")
  PROVE  SerialInv'
  <1>0. wg = 1 /\ \A f \in Exec : at[f] \in Holding \cup {"add"} => f = e
    BY DoneMeansNone DEF WgDone, SerialInv
  <1>1. /\ at[e] = "done" /\ at'[e] = "tell"
        /\ \A p \in Caller \ {e} : at'[p] = IF at[p] = "blocked" THEN "woken" ELSE at[p]
    BY <1>0 DEF WgDone, Caller
  <1>2. UNCHANGED <<mainProcess, proc, ok, waited, released, target, verdict, told, crashed, saw>>
    BY DEF WgDone, fields, os, cmd, closing
  <1>3. \A f \in Exec : \/ at'[f] = at[f]
                        \/ f = e /\ at'[f] = "tell"
                        \/ at[f] = "blocked" /\ at'[f] = "woken"
    <2> TAKE f \in Exec
    <2>1. CASE f = e
      BY <1>1, <2>1
    <2>2. CASE f # e
      <3>1. at'[f] = IF at[f] = "blocked" THEN "woken" ELSE at[f]
        BY <1>1, <2>2 DEF Caller
      <3> QED
        BY <3>1
    <2> QED
      BY <2>1, <2>2
  <1>4. (OneCall /\ OneBusy /\ WokenAlone)'
    <2>1. \A f \in Exec : at'[f] \notin Holding \cup {"add"}
      BY <1>0, <1>3, <1>1 DEF Holding
    <2> QED
      BY <1>3, <2>1, DoneStaysAlone DEF SerialInv
  <1>5. MainIsBusy'
    <2>1. MainIsBusy /\ mainProcess \in Exec \cup {None} /\ None \notin Exec
      BY ExecAssumption DEF SerialInv, CountInv, TypeOK, Caller
    <2> QED
      BY <1>1, <1>2, <1>3, <2>1 DEF MainIsBusy
  <1>6. ProcByStage'
    BY <1>1, <1>2, <1>3 DEF ProcByStage, SerialInv
  <1>7. VerdictByStage'
    BY <1>1, <1>2, <1>3 DEF VerdictByStage, SerialInv
  <1>8. SeenByClient'
    <2>1. \A f \in Exec : f # e /\ proc[f] # "none" => proc[f] = "gone"
      <3> SUFFICES ASSUME NEW f \in Exec, f # e PROVE proc[f] \in {"none", "gone"}
        OBVIOUS
      <3>1. at[f] \in ExecAt \cup ClientAt /\ at[f] \notin {"clearInput", "kill", "code", "write", "back"}
        BY DEF CountInv, TypeOK, Caller, SerialInv, ProcByStage
      <3>2. at[f] \in {"idle", "refused", "panicked", "wait", "blocked", "woken", "tell", "end"}
        BY <1>0, <3>1 DEF ExecAt, ClientAt, InCall, Holding
      <3> QED
        BY <3>2 DEF ProcByStage, SerialInv
    <2>2. proc[e] = "gone"
      BY <1>1 DEF ProcByStage, SerialInv
    <2>3. \A c \in Client : at'[c] = IF at[c] = "blocked" THEN "woken" ELSE at[c]
      BY <1>1, ExecAssumption DEF Caller
    <2> QED
      BY <1>2, <2>1, <2>2, <2>3 DEF SeenByClient, SerialInv
  <1>9. NoCrash'
    BY <1>2 DEF NoCrash, SerialInv
  <1> QED
    BY <1>4, <1>5, <1>6, <1>7, <1>8, <1>9 DEF SerialInv

LEMMA CloseSerial ==
  ASSUME CountInv, SerialInv, NEW e \in Exec, handleClose(e)
  PROVE  SerialInv'
  <1> USE ExecAssumption DEF CountInv, SerialInv, TypeOK, Caller, Goto, InCall, Holding, fields, os, cmd, closing
  <1>1. CASE CloseWait(e, "judge")
    <2>0. /\ at[e] = "close" /\ at' = [at EXCEPT ![e] = "reap"]
          /\ mainProcess = e
          /\ target' = [target EXCEPT ![e] = e]
          /\ waited' = [waited EXCEPT ![e] = waited[e] \/ proc[e] # "none"]
          /\ UNCHANGED <<mainProcess, stdInWriter, wg, proc, ok, released, verdict, told, crashed, saw>>
      BY <1>1 DEF CloseWait, MainIsBusy, ProcByStage
    <2>1. (OneCall /\ OneBusy /\ WokenAlone)'
      BY <2>0 DEF OneCall, OneBusy, WokenAlone
    <2>2. (MainIsBusy /\ VerdictByStage)'
      BY <2>0 DEF MainIsBusy, VerdictByStage
    <2>3. ProcByStage'
      BY <2>0 DEF ProcByStage
    <2>4. (SeenByClient /\ NoCrash)'
      BY <2>0 DEF SeenByClient, NoCrash
    <2> QED
      BY <2>1, <2>2, <2>3, <2>4
  <1>2. CASE CloseReap(e, "judge")
    <2>0. /\ at[e] = "reap" /\ at' = [at EXCEPT ![e] = "judge"]
          /\ proc' = [proc EXCEPT ![e] = "gone"]
          /\ verdict' = [verdict EXCEPT ![e] = ok[e]]
          /\ UNCHANGED <<mainProcess, stdInWriter, wg, ok, waited, released, target, told, crashed, saw>>
      BY <1>2 DEF CloseReap, ProcByStage
    <2>1. (OneCall /\ OneBusy /\ WokenAlone)'
      BY <2>0 DEF OneCall, OneBusy, WokenAlone
    <2>2. MainIsBusy'
      BY <2>0 DEF MainIsBusy
    <2>3. ProcByStage' /\ VerdictByStage'
      BY <2>0 DEF ProcByStage, VerdictByStage
    <2>4. (SeenByClient /\ NoCrash)'
      BY <2>0 DEF SeenByClient, NoCrash
    <2> QED
      BY <2>1, <2>2, <2>3, <2>4
  <1>3. CASE Judge(e)
    <2>0. /\ at[e] = "judge" /\ at' = [at EXCEPT ![e] = "release"]
          /\ mainProcess = e /\ proc[e] = "gone" /\ verdict[e] = ok[e]
          /\ UNCHANGED <<mainProcess, stdInWriter, wg, proc, ok, waited, released, target, told, crashed, saw>>
      BY <1>3 DEF Judge, MainIsBusy, ProcByStage, VerdictByStage
    <2>5. verdict' = verdict
      <3>1. (HasState(e) /\ ok[mainProcess]) = verdict[e]
        BY <2>0 DEF HasState
      <3>2. verdict' = [verdict EXCEPT ![e] = verdict[e]]
        BY <1>3, <3>1, Zenon DEF Judge
      <3> QED
        BY <3>2
    <2>1. (OneCall /\ OneBusy /\ WokenAlone)'
      BY <2>0 DEF OneCall, OneBusy, WokenAlone
    <2>2. MainIsBusy'
      BY <2>0 DEF MainIsBusy
    <2>3. ProcByStage' /\ VerdictByStage'
      BY <2>0, <2>5 DEF ProcByStage, VerdictByStage
    <2>4. (SeenByClient /\ NoCrash)'
      BY <2>0 DEF SeenByClient, NoCrash
    <2> QED
      BY <2>1, <2>2, <2>3, <2>4
  <1>4. CASE CloseRelease(e, "release", "clear")
    <2>0. /\ at[e] = "release" /\ at' = [at EXCEPT ![e] = "clear"]
          /\ \A f \in Exec \ {e} : released'[f] = released[f]
          /\ UNCHANGED <<mainProcess, stdInWriter, wg, proc, ok, waited, target, verdict, told, crashed, saw>>
      BY <1>4 DEF CloseRelease, MainIsBusy
    <2>1. (OneCall /\ OneBusy /\ WokenAlone)'
      BY <2>0 DEF OneCall, OneBusy, WokenAlone
    <2>2. MainIsBusy'
      BY <2>0 DEF MainIsBusy
    <2>3. ProcByStage' /\ VerdictByStage'
      BY <2>0 DEF ProcByStage, VerdictByStage
    <2>4. (SeenByClient /\ NoCrash)'
      BY <2>0 DEF SeenByClient, NoCrash
    <2> QED
      BY <2>1, <2>2, <2>3, <2>4
  <1>5. CASE Clear(e)
    <2>0. /\ at[e] = "clear" /\ at'[e] = "done" /\ \A f \in Caller \ {e} : at'[f] = at[f]
          /\ UNCHANGED <<proc, ok, waited, released, target, verdict, told>>
      BY <1>5 DEF Clear
    <2>1. (OneCall /\ OneBusy /\ WokenAlone)'
      <3>1. at' = [at EXCEPT ![e] = "done"] /\ at[e] \in Holding
        BY <1>5 DEF Clear
      <3> QED
        BY <3>1, CloseStaysAlone
    <2>2. MainIsBusy'
      BY <1>5 DEF Clear, MainIsBusy, OneBusy
    <2>3. ProcByStage' /\ VerdictByStage'
      <3>1. ProcByStage'
        BY <2>0 DEF ProcByStage
      <3>2. VerdictByStage'
        BY <2>0 DEF VerdictByStage
      <3> QED
        BY <3>1, <3>2
    <2>4. (SeenByClient /\ NoCrash)'
      BY <1>5 DEF Clear, SeenByClient, NoCrash
    <2> QED
      BY <2>1, <2>2, <2>3, <2>4
  <1>6. CASE WgDone(e, "done", "tell")
    BY <1>6, DoneSerial DEF CountInv, SerialInv
  <1>7. CASE CloseTell(e)
    <2>1. (OneCall /\ OneBusy /\ WokenAlone)'
      BY <1>7 DEF CloseTell, OneCall, OneBusy, WokenAlone
    <2>2. MainIsBusy' /\ ProcByStage'
      BY <1>7 DEF CloseTell, MainIsBusy, ProcByStage
    <2>3. VerdictByStage'
      <3>1. told[e] = <<>> /\ verdict[e] = ok[e] /\ at[e] = "tell" /\ at'[e] = "end"
        BY <1>7 DEF VerdictByStage, CloseTell
      <3>2. told'[e] = IF e \in Tracked THEN <<ok[e]>> ELSE <<>>
        <4>1. Append(<<>>, verdict[e]) = <<ok[e]>>
          BY <3>1
        <4> QED
          BY <1>7, <3>1, <4>1 DEF CloseTell
      <3> QED
        BY <1>7, <3>1, <3>2 DEF CloseTell, VerdictByStage
    <2>4. (SeenByClient /\ NoCrash)'
      BY <1>7 DEF CloseTell, SeenByClient, NoCrash
    <2> QED
      BY <2>1, <2>2, <2>3, <2>4
  <1> QED
    BY <1>1, <1>2, <1>3, <1>4, <1>5, <1>6, <1>7 DEF handleClose

LEMMA ClientSerial ==
  ASSUME CountInv, SerialInv, NEW c \in Client, ClientStep(c)
  PROVE  SerialInv'
  <1> USE ExecAssumption DEF CountInv, SerialInv, TypeOK, Caller, Goto, InCall, Holding, fields, os, cmd, closing
  <1>0. c \notin Exec
    OBVIOUS
  <1>1. \A e \in Exec : at'[e] = at[e]
    BY <1>0 DEF ClientStep, ClientCheck, Kill, SendCode, UseProcess, CanDie,
       ExecuteInMainProcess, WaitForMainProcess, WgWait, WgWake
  <1>2. (OneCall /\ OneBusy /\ WokenAlone)'
    BY <1>1 DEF OneCall, OneBusy, WokenAlone
  <1>3. /\ UNCHANGED <<mainProcess, stdInWriter, wg, ok, waited, released, target, verdict, told, crashed>>
        /\ \A e \in Exec : proc'[e] = proc[e] \/ (proc[e] = "live" /\ proc'[e] = "zombie")
    BY <1>0 DEF ClientStep, ClientCheck, Kill, SendCode, UseProcess, CanDie,
       ExecuteInMainProcess, WaitForMainProcess, WgWait, WgWake
  <1>4. MainIsBusy' /\ ProcByStage' /\ VerdictByStage' /\ NoCrash'
    BY <1>1, <1>3 DEF MainIsBusy, ProcByStage, VerdictByStage, NoCrash
  <1>5. SeenByClient'
    <2>1. CASE ClientCheck(c)
      BY <2>1 DEF ClientCheck, SeenByClient, IsRunning
    <2>2. CASE WgWait(c, "back")
      <3>1. wg = 0 => \A f \in Exec : proc[f] # "none" => proc[f] = "gone"
        BY ZeroMeansNone DEF ProcByStage, ExecAt, ClientAt
      <3> QED
        BY <2>2, <3>1 DEF WgWait, SeenByClient
    <2>3. CASE Kill(c) \/ SendCode(c) \/ ExecuteInMainProcess(c)
      BY <2>3, <1>3 DEF Kill, SendCode, UseProcess, ExecuteInMainProcess, SeenByClient
    <2>4. CASE WaitForMainProcess(c) /\ ~WgWait(c, "back")
      BY <2>4 DEF WaitForMainProcess, WgWake, SeenByClient
    <2> QED
      BY <2>1, <2>2, <2>3, <2>4 DEF ClientStep
  <1> QED
    BY <1>2, <1>4, <1>5

LEMMA ExitSerial ==
  ASSUME CountInv, SerialInv, NEW e \in Exec, ProcExit(e)
  PROVE  SerialInv'
  <1> USE DEF CountInv, SerialInv, TypeOK, Caller, fields, cmd, closing
  <1>0. at[e] \in {"started", "close", "reap"}
    BY DEF ProcExit, ProcByStage, ExecAt, ClientAt, InCall
  <1>1. (OneCall /\ OneBusy /\ WokenAlone /\ MainIsBusy /\ NoCrash)'
    BY DEF ProcExit, OneCall, OneBusy, WokenAlone, MainIsBusy, NoCrash
  <1>2. ProcByStage' /\ SeenByClient'
    BY <1>0 DEF ProcExit, ProcByStage, SeenByClient
  <1>3. VerdictByStage'
    BY <1>0 DEF ProcExit, VerdictByStage
  <1> QED
    BY <1>1, <1>2, <1>3

THEOREM SerialStep ==
  ASSUME Overlap = FALSE
  PROVE  CountInv /\ SerialInv /\ [Next]_vars => SerialInv'
  <1> SUFFICES ASSUME CountInv, SerialInv, [Next]_vars PROVE SerialInv'
    OBVIOUS
  <1>1. CASE UNCHANGED vars
    BY <1>1 DEF SerialInv, OneCall, OneBusy, WokenAlone, MainIsBusy, ProcByStage, VerdictByStage,
       SeenByClient, NoCrash, vars, fields, os, cmd, closing
  <1> QED
    BY <1>1, ProceedSerial, CloseSerial, ExitSerial, ClientSerial DEF Next

THEOREM SerialCorrect ==
  ASSUME Overlap = FALSE
  PROVE  Spec => [](CountInv /\ SerialInv)
  BY CountInit, CountStep, SerialInit, SerialStep, PTL DEF Spec

(* With serialised starts, a process that is not reaped is mainProcess, so *)
(* Kill, SendCode and IsRunning see it.                                    *)
THEOREM LiveIsMainCorrect ==
  ASSUME Overlap = FALSE
  PROVE  Spec => []LiveIsMain
  <1>1. CountInv /\ SerialInv => LiveIsMain
    <2> SUFFICES ASSUME CountInv, SerialInv, NEW e \in Exec, proc[e] \in {"live", "zombie"}
                 PROVE  mainProcess = e /\ ~released[e]
      BY DEF LiveIsMain
    <2>1. at[e] \in {"started", "close", "reap"}
      BY DEF CountInv, TypeOK, SerialInv, ProcByStage, ExecAt, ClientAt, InCall, Caller
    <2> QED
      BY <2>1 DEF SerialInv, MainIsBusy, ProcByStage
  <1> QED
    BY <1>1, SerialCorrect, PTL

(* With serialised starts, nothing in the environment panics unrecovered.  *)
THEOREM NoCrashCorrect ==
  ASSUME Overlap = FALSE
  PROVE  Spec => []NoCrash
  <1>1. SerialInv => NoCrash
    BY DEF SerialInv
  <1> QED
    BY <1>1, SerialCorrect, PTL

(* With serialised starts, whoever waits for the main process returns only *)
(* when the process it found running has ended.                            *)
THEOREM WaitMeansGoneCorrect ==
  ASSUME Overlap = FALSE
  PROVE  Spec => []WaitMeansGone
  <1>1. SerialInv => WaitMeansGone
    BY DEF SerialInv, SeenByClient, WaitMeansGone
  <1> QED
    BY <1>1, SerialCorrect, PTL

-----------------------------------------------------------------------------
(* The refinement of MainProcess                                           *)

LEMMA PromiseInit == Init => Promise!Init
  BY DEF Init, ExecInit, Promise!Init, status

(* The status a process has in MainProcess, point by point. *)
LEMMA StatusIs ==
  ASSUME NEW e \in Exec
  PROVE  status[e] = IF proc[e] = "none" THEN "new" ELSE IF proc[e] = "live" THEN "live"
                     ELSE IF ok[e] THEN "ok" ELSE "bad"
  BY DEF status

LEMMA SameStatus ==
  ASSUME UNCHANGED <<ok, told>>,
         \A e \in Exec : proc'[e] = proc[e] \/ (proc[e] = "zombie" /\ proc'[e] = "gone")
  PROVE  UNCHANGED Promise!vars
  <1>1. status' = status
    BY DEF status
  <1> QED
    BY <1>1 DEF Promise!vars

LEMMA SpawnIsLaunch ==
  ASSUME CountInv, SerialInv, NEW e \in Exec, Spawn(e)
  PROVE  Promise!Next \/ UNCHANGED Promise!vars
  <1> USE DEF CountInv, SerialInv, TypeOK, Caller, Goto, fields, os, cmd, closing
  <1>1. CASE proc' = proc
    BY <1>1, SameStatus DEF Spawn
  <1>2. CASE proc' = [proc EXCEPT ![e] = "live"] /\ ok' = ok
    <2>1. proc[e] = "none" /\ told' = told
      BY <1>2 DEF Spawn, ProcByStage
    <2>2. \A f \in Exec : status[f] # "live"
      <3> SUFFICES ASSUME NEW f \in Exec, proc[f] = "live" PROVE FALSE
        BY StatusIs
      <3>1. at[f] \in Holding /\ at[e] \in Holding
        BY DEF ProcByStage, ExecAt, ClientAt, InCall, Holding, Spawn
      <3> QED
        BY <2>1, <3>1 DEF OneBusy
    <2>3. status' = [status EXCEPT ![e] = "live"]
      BY <1>2 DEF status
    <2>4. Promise!Launch(e)
      BY <2>1, <2>2, <2>3, StatusIs DEF Promise!Launch
    <2> QED
      BY <2>4 DEF Promise!Next
  <1> QED
    BY <1>1, <1>2 DEF Spawn

LEMMA ExitIsExit ==
  ASSUME CountInv, NEW e \in Exec, ProcExit(e)
  PROVE  Promise!Next
  <1> USE DEF CountInv, TypeOK, fields, cmd, closing
  <1>1. PICK s \in BOOLEAN : ok' = [ok EXCEPT ![e] = s]
    BY DEF ProcExit
  <1>2. status' = [status EXCEPT ![e] = IF s THEN "ok" ELSE "bad"]
    BY <1>1 DEF ProcExit, status
  <1>3. Promise!Exit(e, IF s THEN "ok" ELSE "bad")
    BY <1>2, StatusIs DEF ProcExit, Promise!Exit
  <1> QED
    BY <1>3 DEF Promise!Next, Promise!Exited

LEMMA TellIsTell ==
  ASSUME CountInv, SerialInv, NEW e \in Exec, CloseTell(e)
  PROVE  Promise!Next \/ UNCHANGED Promise!vars
  <1> USE DEF CountInv, SerialInv, TypeOK, Caller, Goto, fields, os, cmd
  <1>1. status' = status
    BY DEF CloseTell, status
  <1>2. CASE e \notin Tracked
    BY <1>1, <1>2 DEF CloseTell, Promise!vars
  <1>3. CASE e \in Tracked
    <2>1. proc[e] = "gone" /\ verdict[e] = ok[e] /\ told[e] = <<>>
      BY DEF CloseTell, ProcByStage, VerdictByStage
    <2>2. status[e] \in {"ok", "bad"} /\ (status[e] = "ok") = ok[e]
      BY <2>1, StatusIs
    <2>3. told' = [told EXCEPT ![e] = <<status[e] = "ok">>]
      <3>1. Append(<<>>, verdict[e]) = <<status[e] = "ok">>
        BY <2>1, <2>2
      <3> QED
        BY <1>3, <2>1, <3>1 DEF CloseTell
    <2>4. Promise!Tell(e)
      BY <1>1, <1>3, <2>1, <2>2, <2>3 DEF Promise!Tell, Promise!Exited
    <2> QED
      BY <2>4 DEF Promise!Next
  <1> QED
    BY <1>2, <1>3

(* A signal that ends the process is an exit with a status other than 0. *)
LEMMA ClientIsExit ==
  ASSUME CountInv, SerialInv, NEW c \in Client, ClientStep(c)
  PROVE  Promise!Next \/ UNCHANGED Promise!vars
  <1> USE DEF CountInv, SerialInv, TypeOK, Caller, Goto, fields, os, cmd, closing
  <1>1. CASE UNCHANGED os
    BY <1>1, SameStatus DEF ClientStep, ClientCheck, Kill, SendCode, UseProcess, CanDie,
       ExecuteInMainProcess, WaitForMainProcess, WgWait, WgWake
  <1>2. CASE told' = told /\ mainProcess \in Exec /\ proc[mainProcess] = "live"
             /\ proc' = [proc EXCEPT ![mainProcess] = "zombie"] /\ ok' = ok
    <2>1. status' = [status EXCEPT ![mainProcess] = IF ok[mainProcess] THEN "ok" ELSE "bad"]
      BY <1>2 DEF status
    <2>2. Promise!Exit(mainProcess, IF ok[mainProcess] THEN "ok" ELSE "bad")
      BY <1>2, <2>1, StatusIs DEF Promise!Exit
    <2> QED
      BY <1>2, <2>2 DEF Promise!Next, Promise!Exited
  <1> QED
    BY <1>1, <1>2 DEF ClientStep, ClientCheck, Kill, SendCode, UseProcess, CanDie,
       ExecuteInMainProcess, WaitForMainProcess, WgWait, WgWake

THEOREM PromiseStep ==
  CountInv /\ SerialInv /\ [Next]_vars => [Promise!Next]_(Promise!vars)
  <1> SUFFICES ASSUME CountInv, SerialInv, [Next]_vars
               PROVE  Promise!Next \/ UNCHANGED Promise!vars
    OBVIOUS
  <1>1. CASE UNCHANGED vars
    BY <1>1, SameStatus DEF vars, os, closing
  <1>2. ASSUME NEW e \in Exec, Check(e) \/ AwaitEarlier(e) \/ Register(e) \/ SetMain(e) \/ Attach(e)
        PROVE  UNCHANGED Promise!vars
    BY <1>2, SameStatus DEF Check, AwaitEarlier, WgWait, WgWake, Register, SetMain, Attach, os, closing
  <1>3. ASSUME NEW e \in Exec, handleClose(e), ~CloseTell(e)
        PROVE  UNCHANGED Promise!vars
    <2>1. UNCHANGED <<ok, told>>
      BY <1>3 DEF handleClose, CloseWait, CloseReap, Judge, CloseRelease, Clear, WgDone, os, closing
    <2>2. \A f \in Exec : proc'[f] = proc[f] \/ (proc[f] = "zombie" /\ proc'[f] = "gone")
      BY <1>3 DEF CountInv, TypeOK, handleClose, CloseWait, CloseReap, Judge, CloseRelease, Clear, WgDone, os
    <2> QED
      BY <2>1, <2>2, SameStatus
  <1> QED
    BY <1>1, <1>2, <1>3, SpawnIsLaunch, ExitIsExit, TellIsTell, ClientIsExit DEF Next, Proceed

(* With serialised starts, every behaviour of the tty environment is one   *)
(* of MainProcess: one main process at a time, each callback called once   *)
(* and with how its process ended.  (That it is called is left to TLC.)    *)
THEOREM KeepsPromiseSafety ==
  ASSUME Overlap = FALSE
  PROVE  Spec => Promise!Init /\ [][Promise!Next]_(Promise!vars)
  BY PromiseInit, PromiseStep, SerialCorrect, PTL DEF Spec
=============================================================================
