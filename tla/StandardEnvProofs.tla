------------------------- MODULE StandardEnvProofs -------------------------
(***************************************************************************)
(* Proofs about StandardEnv, for any number of executions and clients.     *)
(***************************************************************************)
EXTENDS StandardEnv, FiniteSetTheorems, SequenceTheorems, TLAPS

\* handleClose waits for a Cmd.
ReapTarget == \A e \in Exec : at[e] = "reap" => target[e] \in Exec

\* Type correctness rests on WaitCount: the counter stays in Nat.
CountInv == TypeOK /\ ReapTarget /\ WaitCount

Holders == {e \in Exec : at[e] \in Holding}

-----------------------------------------------------------------------------
(* What serialised calls of ExecuteAsync add (Overlap = FALSE)             *)

\* One call of ExecuteAsync at a time.
OneCall == \A e, f \in Exec : at[e] \in InCall /\ at[f] \in InCall => e = f

\* From the time the WaitGroup lets a call pass until Wait.Done its execution is
\* alone there; but those that are past Wait.Done still go on.
OneBusy == \A e, f \in Exec :
    at[e] \in Holding \cup {"add"} /\ at[f] \in Holding \cup {"add"} => e = f

\* A call that was woken finds the WaitGroup still at 0.
WokenAlone == \A e, f \in Exec : at[e] = "woken" => at[f] \notin Holding \cup {"add"}

\* The handleClose of an earlier execution may take mainProcess from one that is
\* being started, but nobody puts another there.
MainIsOwn == \A e \in Exec : at[e] \in {"spawn", "started", "close", "reap"} => mainProcess \in {None, e}

\* A Cmd is started by its own execution, and handleClose reaps its own.
ProcByStage == \A e \in Exec :
    /\ at[e] \in {"idle", "refused", "panicked", "wait", "blocked", "woken", "add", "set", "spawn"}
           => proc[e] = "none"
    /\ at[e] = "reap" => target[e] = e
    /\ at[e] \notin {"kill", "code", "write", "back"}

\* A verdict of success is true from the reaping to the end.
VerdictIsTrue == \A e \in Exec : verdict[e] => proc[e] = "gone" /\ ok[e]

Telling == {"release", "clear", "clearInput", "tell"}

\* What the callback has been told by each stage.
ToldSoFar(e) ==
    /\ e \notin Tracked \/ at[e] \notin Telling \cup {"end"} => told[e] = <<>>
    /\ e \in Tracked /\ at[e] \in Telling => \/ told[e] = <<>> /\ proc[e] = "gone" /\ ok[e]
                                             \/ told[e] = <<FALSE>> /\ ~verdict[e]
    /\ e \in Tracked /\ at[e] = "end" =>
          \/ told[e] = <<FALSE, FALSE>>
          \/ proc[e] = "gone" /\ ok[e] /\ told[e] \in {<<TRUE>>, <<FALSE>>}
ToldByStage == \A e \in Exec : ToldSoFar(e)

SerialInv == /\ OneCall /\ OneBusy /\ WokenAlone /\ MainIsOwn
             /\ ProcByStage /\ VerdictIsTrue /\ ToldByStage
-----------------------------------------------------------------------------
(* The WaitGroup, whether or not calls overlap                             *)

LEMMA HoldersFinite == IsFiniteSet(Holders)
BY ExecAssumption, FS_Subset DEF Holders

\* A step that nobody enters or leaves Holding by keeps the count.
LEMMA SameHolders ==
    ASSUME WaitCount, wg' = wg, \A e \in Exec : at'[e] \in Holding <=> at[e] \in Holding
    PROVE  WaitCount'
<1>1. Holders' = Holders
      BY DEF Holders
<1>. QED  BY <1>1 DEF WaitCount, Holders

\* Wait.Add
LEMMA OneMoreHolder ==
    ASSUME TypeOK, WaitCount, NEW e \in Exec, Register(e)
    PROVE  WaitCount' /\ wg' \in Nat
<1>1. Holders' = Holders \cup {e} /\ e \notin Holders
      BY DEF Holders, TypeOK, Caller, Register, Goto, Holding
<1>2. Cardinality(Holders') = Cardinality(Holders) + 1
      BY <1>1, HoldersFinite, FS_AddElement
<1>. QED  BY <1>2 DEF WaitCount, Holders, Register, TypeOK

\* Wait.Done: the calls it wakes are not holders.
LEMMA OneHolderLess ==
    ASSUME TypeOK, WaitCount, NEW e \in Exec, WgDone(e, "done", "judge")
    PROVE  WaitCount' /\ wg' \in Nat
<1>1. Holders' = Holders \ {e} /\ e \in Holders
      BY DEF Holders, TypeOK, Caller, WgDone, Holding
<1>2. Cardinality(Holders') = Cardinality(Holders) - 1 /\ Cardinality(Holders) \in Nat
      BY <1>1, HoldersFinite, FS_RemoveElement, FS_CardinalityType
<1>3. Cardinality(Holders') \in Nat
      BY <1>1, HoldersFinite, FS_Subset, FS_CardinalityType
<1>. QED  BY <1>2, <1>3 DEF WaitCount, Holders, WgDone, TypeOK

LEMMA CountInit == Init => CountInv
<1>. SUFFICES ASSUME Init PROVE CountInv
     OBVIOUS
<1>1. ReapTarget
      BY DEF Init, ExecInit, ReapTarget, Caller
<1>2. told \in [Exec -> Seq(BOOLEAN)]
  <2>1. <<>> \in Seq(BOOLEAN)
        OBVIOUS
  <2>. QED  BY <2>1 DEF Init, ExecInit
<1>3. TypeOK
      BY <1>2 DEF Init, ExecInit, TypeOK, ExecAt, ClientAt, Caller
<1>4. Holders = {}
      BY DEF Init, ExecInit, Holders, Holding, Caller
<1>5. WaitCount
      BY <1>4, FS_EmptySet DEF WaitCount, Holders, Init, ExecInit
<1>. QED  BY <1>1, <1>3, <1>5 DEF CountInv

LEMMA ClientCount ==
    ASSUME CountInv, NEW c \in Client, ClientStep(c)
    PROVE  CountInv'
<1>. USE DEF TypeOK, Caller
<1>0. \A e \in Exec : at'[e] = at[e]
      BY ExecAssumption DEF CountInv, ClientStep, ClientCheck, Kill, SendCode, UseProcess,
         ExecuteInMainProcess, WaitForMainProcess, WgWait, WgWake, Goto
<1>1. wg' = wg /\ target' = target
      BY DEF ClientStep, ClientCheck, Kill, SendCode, ExecuteInMainProcess, WaitForMainProcess, WgWait, WgWake, closing
<1>2. WaitCount' /\ ReapTarget'
      BY <1>0, <1>1, SameHolders DEF CountInv, ReapTarget
<1>3. TypeOK'
  <2>. USE DEF CountInv, ClientAt, fields, os, cmd, closing
  <2>1. CASE ClientCheck(c)
        BY <2>1 DEF ClientCheck, Goto, IsRunning
  <2>2. CASE Kill(c) \/ SendCode(c)
    <3>1. PICK to \in {"panicked", "end"} : at' = [at EXCEPT ![c] = to]
          BY <2>2 DEF Kill, SendCode, UseProcess, Goto
    <3>2. proc' \in {proc, [proc EXCEPT ![mainProcess] = "zombie"]}
          BY <2>2 DEF Kill, SendCode
    <3>. QED  BY <2>2, <3>1, <3>2 DEF Kill, SendCode
  <2>3. CASE ExecuteInMainProcess(c) \/ WaitForMainProcess(c)
    <3>1. PICK to \in {"back", "blocked", "panicked", "end"} : at' = [at EXCEPT ![c] = to]
          BY <2>3 DEF ExecuteInMainProcess, WaitForMainProcess, WgWait, WgWake, Goto
    <3>2. crashed' = crashed
          BY <2>3, ExecAssumption DEF ExecuteInMainProcess, WaitForMainProcess, WgWait, WgWake
    <3>. QED  BY <2>3, <3>1, <3>2 DEF ExecuteInMainProcess, WaitForMainProcess, WgWait, WgWake
  <2>. QED  BY <2>1, <2>2, <2>3 DEF ClientStep
<1>. QED  BY <1>2, <1>3 DEF CountInv

LEMMA ProceedCount ==
    ASSUME CountInv, NEW e \in Exec, Check(e) \/ Proceed(e)
    PROVE  CountInv'
<1>. USE DEF TypeOK, Caller, Goto, Panic, ExecAt, InCall, fields, os, cmd, closing
<1>1. CASE Register(e)
  <2>1. WaitCount' /\ wg' \in Nat
        BY <1>1, OneMoreHolder DEF CountInv
  <2>2. TypeOK' /\ ReapTarget'
        BY <1>1, <2>1 DEF CountInv, Register, ReapTarget
  <2>. QED  BY <2>1, <2>2 DEF CountInv
<1>2. CASE Check(e) \/ AwaitEarlier(e)
  <2>1. TypeOK' /\ ReapTarget'
        BY <1>2 DEF CountInv, Check, AwaitEarlier, WgWait, WgWake, ReapTarget
  <2>2. WaitCount'
        BY <1>2, SameHolders DEF CountInv, Check, AwaitEarlier, WgWait, WgWake, Holding
  <2>. QED  BY <2>1, <2>2 DEF CountInv
<1>3. CASE SetMain(e) \/ Attach(e)
  <2>1. TypeOK' /\ ReapTarget'
        BY <1>3 DEF CountInv, SetMain, Attach, ReapTarget
  <2>2. WaitCount'
        BY <1>3, SameHolders DEF CountInv, SetMain, Attach, Holding
  <2>. QED  BY <2>1, <2>2 DEF CountInv
<1>4. CASE Spawn(e)
  <2>1. TypeOK' /\ ReapTarget'
    <3>1. \E to \in {"lost", "started"} : at' = [at EXCEPT ![e] = to]
          BY <1>4 DEF Spawn
    <3>2. /\ stdInWriter' \in Exec \cup {None} /\ crashed' \in BOOLEAN
          /\ proc' \in [Exec -> {"none", "live", "zombie", "gone"}] /\ ok' = ok
          BY <1>4 DEF CountInv, TypeOK, Spawn, Panic
    <3>3. UNCHANGED <<mainProcess, wg, cmd, closing, saw>>
          BY <1>4 DEF Spawn
    <3>. QED  BY <3>1, <3>2, <3>3 DEF CountInv, TypeOK, ReapTarget
  <2>2. WaitCount'
        BY <1>4, SameHolders DEF CountInv, Spawn, Holding
  <2>. QED  BY <2>1, <2>2 DEF CountInv
<1>. QED  BY <1>1, <1>2, <1>3, <1>4 DEF Proceed

LEMMA CloseCount ==
    ASSUME CountInv, NEW e \in Exec, handleClose(e)
    PROVE  CountInv'
<1>. USE DEF TypeOK, Caller, Goto, ExecAt, ClientAt, InCall, fields, os, cmd, closing
<1>1. CASE WgDone(e, "done", "judge")
  <2>1. WaitCount' /\ wg' \in Nat
        BY <1>1, OneHolderLess DEF CountInv
  <2>2. TypeOK' /\ ReapTarget'
        BY <1>1, <2>1 DEF CountInv, WgDone, ReapTarget
  <2>. QED  BY <2>1, <2>2 DEF CountInv
<1>2. CASE CloseWait(e, "done") /\ mainProcess = None
      BY <1>2, ExecAssumption DEF CountInv, ReapTarget, WaitCount, CloseWait
<1>3. CASE CloseWait(e, "done") /\ mainProcess # None
  <2>0. PICK m \in Exec : m = mainProcess
        BY <1>3 DEF CountInv
  <2>1. PICK to \in {"reap", "done"} : at[e] = "close" /\ at' = [at EXCEPT ![e] = to]
        BY <1>3 DEF CloseWait
  <2>2. target' = [target EXCEPT ![e] = m]
        BY <1>3, <2>0 DEF CloseWait
  <2>3. PICK b \in BOOLEAN : waited' = [waited EXCEPT ![m] = b]
    <3>1. waited' = [waited EXCEPT ![m] = waited[m] \/ proc[m] # "none"]
          BY <1>3, <2>0 DEF CloseWait
    <3>. QED  BY <3>1
  <2>4. waited' \in [Exec -> BOOLEAN]
        BY <2>3 DEF CountInv
  <2>5. TypeOK' /\ ReapTarget'
        BY <1>3, <2>0, <2>1, <2>2, <2>4 DEF CountInv, CloseWait, ReapTarget
  <2>6. WaitCount'
        BY <1>3, <2>1, SameHolders DEF CountInv, CloseWait, Holding
  <2>. QED  BY <2>5, <2>6 DEF CountInv
<1>4. CASE CloseReap(e, "done")
  <2>0. PICK m \in Exec : m = target[e]
        BY <1>4 DEF CountInv, CloseReap, ReapTarget
  <2>1. /\ at[e] = "reap" /\ at' = [at EXCEPT ![e] = "done"]
        /\ proc' = [proc EXCEPT ![m] = "gone"] /\ verdict' = [verdict EXCEPT ![e] = ok[m]]
        /\ UNCHANGED <<fields, wg, ok, cmd, target, told, crashed, saw>>
        BY <1>4, <2>0 DEF CloseReap
  <2>2. TypeOK' /\ ReapTarget'
        BY <2>1 DEF CountInv, ReapTarget
  <2>3. WaitCount'
        BY <2>1, SameHolders DEF CountInv, Holding
  <2>. QED  BY <2>2, <2>3 DEF CountInv
<1>5. CASE Judge(e)
  <2>1. PICK b \in BOOLEAN : verdict' = [verdict EXCEPT ![e] = b]
    <3>1. (HasState(e) /\ ok[mainProcess]) \in BOOLEAN
          BY DEF CountInv, HasState
    <3>. QED  BY <1>5, <3>1 DEF Judge
  <2>2. told' \in [Exec -> Seq(BOOLEAN)] /\ crashed' \in BOOLEAN
    <3>1. Append(told[e], FALSE) \in Seq(BOOLEAN)
          BY DEF CountInv
    <3>. QED  BY <1>5, <3>1 DEF CountInv, Judge
  <2>3. TypeOK' /\ ReapTarget'
        BY <1>5, <2>1, <2>2 DEF CountInv, Judge, ReapTarget
  <2>4. WaitCount'
        BY <1>5, SameHolders DEF CountInv, Judge, Holding
  <2>. QED  BY <2>3, <2>4 DEF CountInv
<1>6. CASE CloseRelease(e, "release", "clear")
  <2>1. released' \in [Exec -> BOOLEAN]
    <3>1. CASE mainProcess = None
          BY <1>6, <3>1 DEF CountInv, CloseRelease
    <3>2. CASE mainProcess # None
      <4>1. PICK b \in BOOLEAN : released' = [released EXCEPT ![mainProcess] = b]
        <5>1. released' = [released EXCEPT ![mainProcess] = released[mainProcess] \/ proc[mainProcess] # "none"]
              BY <1>6, <3>2 DEF CloseRelease
        <5>. QED  BY <5>1
      <4>. QED  BY <4>1 DEF CountInv
    <3>. QED  BY <3>1, <3>2
  <2>2. TypeOK' /\ ReapTarget'
        BY <1>6, <2>1 DEF CountInv, CloseRelease, ReapTarget
  <2>3. WaitCount'
        BY <1>6, SameHolders DEF CountInv, CloseRelease, Holding
  <2>. QED  BY <2>2, <2>3 DEF CountInv
<1>7. CASE Clear(e) \/ ClearInput(e)
  <2>1. TypeOK' /\ ReapTarget'
        BY <1>7 DEF CountInv, Clear, ClearInput, ReapTarget
  <2>2. WaitCount'
        BY <1>7, SameHolders DEF CountInv, Clear, ClearInput, Holding
  <2>. QED  BY <2>1, <2>2 DEF CountInv
<1>8. CASE CloseTell(e)
  <2>1. told' \in [Exec -> Seq(BOOLEAN)]
    <3>1. Append(told[e], verdict[e]) \in Seq(BOOLEAN)
          BY DEF CountInv
    <3>. QED  BY <1>8, <3>1 DEF CountInv, CloseTell
  <2>2. TypeOK' /\ ReapTarget'
        BY <1>8, <2>1 DEF CountInv, CloseTell, ReapTarget
  <2>3. WaitCount'
        BY <1>8, SameHolders DEF CountInv, CloseTell, Holding
  <2>. QED  BY <2>2, <2>3 DEF CountInv
<1>. QED  BY <1>1, <1>2, <1>3, <1>4, <1>5, <1>6, <1>7, <1>8 DEF handleClose

LEMMA CountStep == CountInv /\ [Next]_vars => CountInv'
<1>. SUFFICES ASSUME CountInv, [Next]_vars PROVE CountInv'
     OBVIOUS
<1>1. CASE UNCHANGED vars
      BY <1>1 DEF CountInv, TypeOK, ReapTarget, WaitCount, vars, fields, os, cmd, closing
<1>2. ASSUME NEW e \in Exec, ProcExit(e) PROVE CountInv'
      BY <1>2 DEF CountInv, TypeOK, ReapTarget, WaitCount, ProcExit, fields, cmd, closing
<1>. QED  BY <1>1, <1>2, ProceedCount, CloseCount, ClientCount DEF Next

(* The state stays well-typed, whether or not calls of ExecuteAsync overlap. *)
THEOREM TypeCorrect == Spec => []TypeOK
<1>1. CountInv => TypeOK
      BY DEF CountInv
<1>. QED  BY <1>1, CountInit, CountStep, PTL DEF Spec

(* The WaitGroup counts the calls between Add and Done, those of a failed    *)
(* start for ever, and never goes negative: with overlapping calls as well.  *)
THEOREM WaitCountCorrect == Spec => []WaitCount
<1>1. CountInv => WaitCount
      BY DEF CountInv
<1>. QED  BY <1>1, CountInit, CountStep, PTL DEF Spec

-----------------------------------------------------------------------------
(* Serialised calls                                                        *)

\* The counter is 0 exactly when nobody holds the WaitGroup.
LEMMA ZeroMeansNone ==
    ASSUME CountInv
    PROVE  wg = 0 <=> \A e \in Exec : at[e] \notin Holding
<1>1. Holders = {} <=> Cardinality(Holders) = 0
      BY HoldersFinite, FS_EmptySet
<1>. QED  BY <1>1 DEF Holders, CountInv, WaitCount

LEMMA SerialInit == Init => SerialInv
BY ExecAssumption DEF Init, ExecInit, SerialInv, OneCall, OneBusy, WokenAlone, MainIsOwn, ProcByStage,
   VerdictIsTrue, ToldByStage, ToldSoFar, Telling, InCall, Holding, Caller

\* A step that no execution moves by, nor has its callback told anything.
LEMMA SerialAlone ==
    ASSUME CountInv, SerialInv, mainProcess' = mainProcess, UNCHANGED closing,
           \A e \in Exec : /\ at'[e] = at[e]
                           /\ proc'[e] = "none" <=> proc[e] = "none"
                           /\ proc[e] = "gone" => proc'[e] = "gone" /\ ok'[e] = ok[e]
    PROVE  SerialInv'
<1>1. (OneCall /\ OneBusy /\ WokenAlone)'
      BY DEF SerialInv, OneCall, OneBusy, WokenAlone
<1>2. (MainIsOwn /\ ProcByStage /\ VerdictIsTrue)'
      BY DEF SerialInv, MainIsOwn, ProcByStage, VerdictIsTrue, closing
<1>3. ToldByStage'
      BY DEF SerialInv, ToldByStage, ToldSoFar, closing
<1>. QED  BY <1>1, <1>2, <1>3 DEF SerialInv

LEMMA ClientSerial ==
    ASSUME CountInv, SerialInv, NEW c \in Client, ClientStep(c)
    PROVE  SerialInv'
<1>1. \A e \in Exec : at'[e] = at[e]
      BY ExecAssumption DEF CountInv, TypeOK, Caller, ClientStep, ClientCheck, Kill, SendCode, UseProcess,
         ExecuteInMainProcess, WaitForMainProcess, WgWait, WgWake, Goto
<1>2. /\ mainProcess' = mainProcess /\ ok' = ok /\ UNCHANGED closing
      /\ proc' = proc \/ (CanDie /\ proc' = [proc EXCEPT ![mainProcess] = "zombie"])
      BY DEF ClientStep, ClientCheck, Kill, SendCode, ExecuteInMainProcess, WaitForMainProcess,
         WgWait, WgWake, fields, os, closing
<1>3. \A e \in Exec : proc'[e] = proc[e] \/ (proc[e] = "live" /\ proc'[e] = "zombie")
      BY <1>2 DEF CountInv, TypeOK, CanDie
<1>. QED  BY <1>1, <1>2, <1>3, SerialAlone

LEMMA ExitSerial ==
    ASSUME CountInv, SerialInv, NEW e \in Exec, ProcExit(e)
    PROVE  SerialInv'
BY SerialAlone DEF CountInv, TypeOK, ProcExit, fields

\* A step of one execution e that tells no callback anything and stays out of
\* what e may not do: only the places and mainProcess are left to look at.
LEMMA SerialQuiet ==
    ASSUME CountInv, SerialInv, NEW e \in Exec, NEW to, at' = [at EXCEPT ![e] = to],
           at[e] \notin Telling \cup {"end"}, to \notin Telling \cup {"end", "kill", "code", "write", "back", "reap"},
           UNCHANGED <<ok, closing>>, \A f \in Exec \ {e} : proc'[f] = proc[f],
           proc'[e] = proc[e] \/ proc[e] # "gone",
           proc'[e] = "none" \/ to \in {"started", "close", "done", "lost"},
           OneCall', OneBusy', WokenAlone', MainIsOwn'
    PROVE  SerialInv'
<1>1. at'[e] = to /\ \A f \in Exec \ {e} : at'[f] = at[f]
      BY DEF CountInv, TypeOK, Caller
<1>2. ProcByStage'
      BY <1>1 DEF SerialInv, ProcByStage, closing
<1>3. VerdictIsTrue'
      BY DEF SerialInv, VerdictIsTrue, closing
<1>4. ToldByStage'
      BY <1>1 DEF SerialInv, ToldByStage, ToldSoFar, closing
<1>. QED  BY <1>2, <1>3, <1>4 DEF SerialInv

LEMMA ProceedSerial ==
    ASSUME CountInv, SerialInv, Overlap = FALSE, NEW e \in Exec, Check(e) \/ Proceed(e)
    PROVE  SerialInv'
<1>. USE DEF Goto, InCall, Holding, Telling, fields, os, closing
<1>0. at \in [Caller -> ExecAt \cup ClientAt] /\ Exec \subseteq Caller
      BY DEF CountInv, TypeOK, Caller
<1>1. CASE Check(e)
  <2>1. PICK to \in {"refused", "wait"} : at[e] = "idle" /\ at' = [at EXCEPT ![e] = to]
        BY <1>1 DEF Check
  <2>2. (OneCall /\ OneBusy /\ WokenAlone)'
        BY <1>0, <1>1, <2>1 DEF SerialInv, Check, OneCall, OneBusy, WokenAlone
  <2>3. MainIsOwn' /\ proc[e] = "none" /\ proc' = proc
        BY <1>0, <1>1, <2>1 DEF SerialInv, Check, MainIsOwn, ProcByStage
  <2>. QED  BY <1>1, <2>1, <2>2, <2>3, SerialQuiet DEF Check
<1>2. CASE AwaitEarlier(e)
  <2>1. at[e] = "woken" => wg = 0
        BY ZeroMeansNone DEF SerialInv, WokenAlone
  <2>2. PICK from \in {"wait", "woken"}, to \in {"add", "blocked"} :
             at[e] = from /\ at' = [at EXCEPT ![e] = to] /\ (to = "add" => wg = 0)
        BY <1>2, <2>1 DEF AwaitEarlier, WgWait, WgWake
  <2>3. wg = 0 => \A f \in Exec : at[f] \notin Holding
        BY ZeroMeansNone
  <2>4. (OneCall /\ OneBusy /\ WokenAlone)'
        BY <1>0, <2>2, <2>3 DEF SerialInv, OneCall, OneBusy, WokenAlone
  <2>5. MainIsOwn' /\ proc[e] = "none" /\ proc' = proc
        BY <1>0, <1>2, <2>2 DEF SerialInv, AwaitEarlier, WgWait, WgWake, MainIsOwn, ProcByStage
  <2>. QED  BY <1>2, <2>2, <2>4, <2>5, SerialQuiet DEF AwaitEarlier, WgWait, WgWake
<1>3. CASE Register(e)
  <2>1. (OneCall /\ OneBusy /\ WokenAlone)'
        BY <1>0, <1>3 DEF SerialInv, Register, OneCall, OneBusy, WokenAlone
  <2>2. MainIsOwn' /\ proc[e] = "none" /\ proc' = proc
        BY <1>0, <1>3 DEF SerialInv, Register, MainIsOwn, ProcByStage
  <2>. QED  BY <1>3, <2>1, <2>2, SerialQuiet DEF Register
<1>4. CASE SetMain(e)
  <2>1. (OneCall /\ OneBusy /\ WokenAlone)'
        BY <1>0, <1>4 DEF SerialInv, SetMain, OneCall, OneBusy, WokenAlone
  <2>2. MainIsOwn' /\ proc[e] = "none" /\ proc' = proc
        BY <1>0, <1>4 DEF SerialInv, SetMain, MainIsOwn, ProcByStage, OneBusy
  <2>. QED  BY <1>4, <2>1, <2>2, SerialQuiet DEF SetMain
<1>5. CASE Spawn(e)
  <2>1. at[e] = "spawn" /\ mainProcess \in {None, e} /\ proc[e] = "none"
        BY <1>5 DEF SerialInv, Spawn, MainIsOwn, ProcByStage
  <2>2. PICK to \in {"lost", "started"} : /\ at' = [at EXCEPT ![e] = to] /\ mainProcess' = mainProcess
                                          /\ to = "lost" => proc' = proc
                                          /\ to = "started" => proc' = [proc EXCEPT ![e] = "live"]
        BY <1>5, <2>1 DEF Spawn
  <2>3. (OneCall /\ OneBusy /\ WokenAlone)'
        BY <1>0, <2>1, <2>2 DEF SerialInv, OneCall, OneBusy, WokenAlone
  <2>4. MainIsOwn'
        BY <1>0, <2>1, <2>2 DEF SerialInv, MainIsOwn
  <2>5. \A f \in Exec \ {e} : proc'[f] = proc[f]
        BY <2>2 DEF CountInv, TypeOK
  <2>. QED  BY <1>5, <2>1, <2>2, <2>3, <2>4, <2>5, SerialQuiet DEF Spawn
<1>6. CASE Attach(e)
  <2>1. PICK to \in {"lost", "close"} : at[e] = "started" /\ at' = [at EXCEPT ![e] = to]
        BY <1>6 DEF Attach
  <2>2. (OneCall /\ OneBusy /\ WokenAlone)'
        BY <1>0, <2>1 DEF SerialInv, OneCall, OneBusy, WokenAlone
  <2>3. MainIsOwn'
        BY <1>0, <1>6, <2>1 DEF SerialInv, Attach, MainIsOwn
  <2>. QED  BY <1>6, <2>1, <2>2, <2>3, SerialQuiet DEF Attach
<1>. QED  BY <1>1, <1>2, <1>3, <1>4, <1>5, <1>6 DEF Proceed

\* Past `go handleClose` only Wait.Done lets others pass.
LEMMA CloseStaysAlone ==
    ASSUME CountInv, SerialInv, NEW e \in Exec, NEW to, at' = [at EXCEPT ![e] = to],
           to \notin InCall \cup {"add"}, to \in Holding => at[e] \in Holding
    PROVE  (OneCall /\ OneBusy /\ WokenAlone)'
<1>1. at'[e] = to /\ \A f \in Exec \ {e} : at'[f] = at[f]
      BY DEF CountInv, TypeOK, Caller
<1>. QED  BY <1>1 DEF SerialInv, OneCall, OneBusy, WokenAlone, InCall

LEMMA Pair ==
    ASSUME NEW a, NEW b
    PROVE  /\ Append(<<a>>, b) = <<a, b>>
           /\ <<a, b>>[1] = a /\ <<a, b>>[2] = b
<1>1. PICK S : a \in S /\ b \in S
  <2>1. a \in {a, b} /\ b \in {a, b}
        OBVIOUS
  <2>. QED  BY <2>1
<1>2. PICK s \in Seq(S) : s = <<a>> /\ Len(s) = 1 /\ s[1] = a
  <2>1. <<a>> \in Seq(S) /\ Len(<<a>>) = 1 /\ <<a>>[1] = a
        BY <1>1
  <2>. QED  BY <2>1
<1>3. Append(s, b) \in Seq(S) /\ Len(Append(s, b)) = 2 /\ Append(s, b)[1] = a /\ Append(s, b)[2] = b
      BY <1>1, <1>2, AppendProperties
<1>4. PICK t \in Seq(S) : t = <<a, b>> /\ Len(t) = 2 /\ t[1] = a /\ t[2] = b
  <2>1. <<a, b>> \in Seq(S) /\ Len(<<a, b>>) = 2 /\ <<a, b>>[1] = a /\ <<a, b>>[2] = b
        BY <1>1
  <2>. QED  BY <2>1
<1>5. Append(s, b) = t
  <2>1. PICK u \in Seq(S) : u = Append(s, b) /\ Len(u) = 2 /\ u[1] = a /\ u[2] = b
        BY <1>3
  <2>2. \A i \in 1..2 : u[i] = t[i]
        BY <1>4, <2>1
  <2>. QED  BY <1>4, <2>1, <2>2, SeqEqual
<1>. QED  BY <1>2, <1>4, <1>5

LEMMA CloseSerial ==
    ASSUME CountInv, SerialInv, NEW e \in Exec, handleClose(e)
    PROVE  SerialInv'
<1>. USE DEF Goto, Holding, Telling, fields, os, closing
<1>0. /\ at \in [Caller -> ExecAt \cup ClientAt] /\ Exec \subseteq Caller
      /\ told \in [Exec -> Seq(BOOLEAN)] /\ verdict \in [Exec -> BOOLEAN]
      BY DEF CountInv, TypeOK, Caller
<1>1. CASE CloseWait(e, "done")
  <2>1. CASE mainProcess = None
        BY <1>1, <2>1, SerialAlone DEF CloseWait, SerialInv
  <2>2. CASE mainProcess # None
    <3>1. mainProcess = e
          BY <1>1, <2>2 DEF CloseWait, SerialInv, MainIsOwn
    <3>2. PICK to \in {"done", "reap"} : at[e] = "close" /\ at' = [at EXCEPT ![e] = to]
          BY <1>1, <2>2 DEF CloseWait
    <3>3. target'[e] = e /\ \A f \in Exec \ {e} : target'[f] = target[f]
          BY <1>1, <2>2, <3>1 DEF CloseWait, CountInv, TypeOK
    <3>4. at'[e] = to /\ \A f \in Exec \ {e} : at'[f] = at[f]
          BY <1>0, <3>2
    <3>5. (OneCall /\ OneBusy /\ WokenAlone)'
          BY <3>2, CloseStaysAlone DEF InCall
    <3>6. (MainIsOwn /\ ProcByStage /\ VerdictIsTrue)'
          BY <1>1, <3>1, <3>2, <3>3, <3>4 DEF CloseWait, SerialInv, MainIsOwn, ProcByStage, VerdictIsTrue
    <3>7. ToldByStage'
          BY <1>1, <3>2, <3>4 DEF CloseWait, SerialInv, ToldByStage, ToldSoFar
    <3>. QED  BY <3>5, <3>6, <3>7 DEF SerialInv
  <2>. QED  BY <2>1, <2>2
<1>2. CASE CloseReap(e, "done")
  <2>1. target[e] = e
        BY <1>2 DEF CloseReap, SerialInv, ProcByStage
  <2>2. at[e] = "reap" /\ at' = [at EXCEPT ![e] = "done"]
        BY <1>2 DEF CloseReap
  <2>3. /\ at'[e] = "done" /\ \A f \in Exec \ {e} : at'[f] = at[f]
        /\ proc'[e] = "gone" /\ \A f \in Exec \ {e} : proc'[f] = proc[f]
        /\ verdict'[e] = ok[e] /\ \A f \in Exec \ {e} : verdict'[f] = verdict[f]
        /\ mainProcess' = mainProcess /\ ok' = ok /\ target' = target /\ told' = told
        BY <1>0, <1>2, <2>1, <2>2 DEF CloseReap, CountInv, TypeOK
  <2>4. (OneCall /\ OneBusy /\ WokenAlone)'
        BY <2>2, CloseStaysAlone DEF InCall
  <2>5. (MainIsOwn /\ ProcByStage /\ VerdictIsTrue)'
        BY <2>2, <2>3 DEF SerialInv, MainIsOwn, ProcByStage, VerdictIsTrue
  <2>6. ToldByStage'
        BY <2>2, <2>3 DEF SerialInv, ToldByStage, ToldSoFar
  <2>. QED  BY <2>4, <2>5, <2>6 DEF SerialInv
<1>3. CASE WgDone(e, "done", "judge")
  <2>1. /\ at[e] = "done" /\ at'[e] = "judge"
        /\ \A f \in Exec \ {e} : at'[f] = IF at[f] = "blocked" /\ wg = 1 THEN "woken" ELSE at[f]
        /\ UNCHANGED <<mainProcess, proc, ok, target, verdict, told>>
        BY <1>0, <1>3 DEF WgDone
  <2>2. \A f \in Exec \ {e} : at[f] \notin Holding \cup {"add"}
        BY <2>1 DEF SerialInv, OneBusy
  <2>3. (OneCall /\ OneBusy /\ WokenAlone)'
        BY <2>1, <2>2 DEF SerialInv, OneCall, OneBusy, WokenAlone, InCall
  <2>4. (MainIsOwn /\ ProcByStage /\ VerdictIsTrue)'
        BY <2>1 DEF SerialInv, MainIsOwn, ProcByStage, VerdictIsTrue
  <2>5. ToldByStage'
        BY <2>1 DEF SerialInv, ToldByStage, ToldSoFar
  <2>. QED  BY <2>3, <2>4, <2>5 DEF SerialInv
<1>4. CASE Judge(e)
  <2>1. at[e] = "judge" /\ at' = [at EXCEPT ![e] = "release"]
        BY <1>4 DEF Judge
  <2>2. /\ at'[e] = "release" /\ \A f \in Exec \ {e} : at'[f] = at[f]
        /\ \A f \in Exec \ {e} : verdict'[f] = verdict[f] /\ told'[f] = told[f]
        /\ mainProcess' = mainProcess /\ proc' = proc /\ ok' = ok /\ target' = target
        BY <1>0, <1>4, <2>1 DEF Judge
  <2>3. verdict'[e] => proc[e] = "gone" /\ ok[e]
    <3>1. verdict'[e] => HasState(e)
          BY <1>0, <1>4, Zenon DEF Judge
    <3>. QED  BY <3>1 DEF HasState, SerialInv, VerdictIsTrue
  <2>4. ToldByStage /\ told[e] = <<>>
        BY <2>1 DEF SerialInv, ToldByStage, ToldSoFar
  <2>5. (OneCall /\ OneBusy /\ WokenAlone /\ MainIsOwn /\ ProcByStage /\ VerdictIsTrue)'
    <3>1. (OneCall /\ OneBusy /\ WokenAlone)'
          BY <2>1, CloseStaysAlone DEF InCall
    <3>2. MainIsOwn'
          BY <2>1, <2>2 DEF SerialInv, MainIsOwn
    <3>3. ProcByStage'
          BY <2>1, <2>2 DEF SerialInv, ProcByStage
    <3>4. VerdictIsTrue'
          BY <2>1, <2>2, <2>3 DEF SerialInv, VerdictIsTrue
    <3>. QED  BY <3>1, <3>2, <3>3, <3>4
  <2>6. CASE HasState(e)
    <3>1. told'[e] = <<>> /\ proc[e] = "gone" /\ ok[e]
          BY <1>4, <2>4, <2>6 DEF Judge, HasState, SerialInv, VerdictIsTrue
    <3>2. ToldByStage'
      <4>1. ToldSoFar(e)'
            BY <2>2, <2>5, <3>1 DEF ToldSoFar, VerdictIsTrue
      <4>2. ASSUME NEW f \in Exec, f # e PROVE ToldSoFar(f)'
        <5>1. ToldSoFar(f)
              BY <2>4 DEF ToldByStage
        <5>2. at'[f] = at[f] /\ told'[f] = told[f] /\ verdict'[f] = verdict[f] /\ proc' = proc /\ ok' = ok
              BY <2>2, <4>2
        <5>. QED  BY <5>1, <5>2 DEF ToldSoFar
      <4>. QED  BY <4>1, <4>2 DEF ToldByStage
    <3>. QED  BY <2>5, <3>2 DEF SerialInv
  <2>7. CASE ~HasState(e)
    <3>0. e \notin Tracked => told'[e] = <<>>
          BY <1>4, <2>4 DEF Judge
    <3>1. ~verdict'[e]
          BY <1>0, <1>4, <2>7, Zenon DEF Judge
    <3>2. e \in Tracked => told'[e] = <<FALSE>>
      <4>1. Append(<<>>, FALSE) = <<FALSE>>
            OBVIOUS
      <4>. QED  BY <1>0, <1>4, <2>4, <2>7, <4>1 DEF Judge
    <3>3. ToldByStage'
          BY <2>1, <2>2, <2>4, <3>0, <3>1, <3>2 DEF ToldByStage, ToldSoFar
    <3>. QED  BY <2>5, <3>3 DEF SerialInv
  <2>. QED  BY <2>6, <2>7
<1>5. CASE CloseRelease(e, "release", "clear") \/ Clear(e) \/ ClearInput(e)
  <2>1. PICK to \in {"clear", "clearInput", "tell"} :
             at[e] \in Telling /\ at' = [at EXCEPT ![e] = to]
        BY <1>5 DEF CloseRelease, Clear, ClearInput
  <2>2. /\ at'[e] = to /\ \A f \in Exec \ {e} : at'[f] = at[f]
        /\ mainProcess' \in {mainProcess, None} /\ UNCHANGED <<proc, ok, target, verdict, told>>
        BY <1>0, <1>5, <2>1 DEF CloseRelease, Clear, ClearInput
  <2>3. (OneCall /\ OneBusy /\ WokenAlone)'
        BY <2>1, CloseStaysAlone DEF InCall
  <2>4. (MainIsOwn /\ ProcByStage /\ VerdictIsTrue)'
        BY <2>1, <2>2 DEF SerialInv, MainIsOwn, ProcByStage, VerdictIsTrue
  <2>5. ToldByStage'
        BY <2>1, <2>2 DEF SerialInv, ToldByStage, ToldSoFar
  <2>. QED  BY <2>3, <2>4, <2>5 DEF SerialInv
<1>6. CASE CloseTell(e)
  <2>1. at[e] = "tell" /\ at' = [at EXCEPT ![e] = "end"]
        BY <1>6 DEF CloseTell
  <2>2. /\ at'[e] = "end" /\ \A f \in Exec \ {e} : at'[f] = at[f] /\ told'[f] = told[f]
        /\ UNCHANGED <<mainProcess, proc, ok, target, verdict>>
        BY <1>0, <1>6, <2>1 DEF CloseTell
  <2>3. e \notin Tracked => told'[e] = <<>>
        BY <1>6 DEF CloseTell, SerialInv, ToldByStage, ToldSoFar
  <2>4. e \in Tracked => \/ told'[e] = <<FALSE, FALSE>>
                         \/ proc[e] = "gone" /\ ok[e] /\ told'[e] \in {<<TRUE>>, <<FALSE>>}
    <3>. SUFFICES ASSUME e \in Tracked
                  PROVE  \/ told'[e] = <<FALSE, FALSE>>
                         \/ proc[e] = "gone" /\ ok[e] /\ told'[e] \in {<<TRUE>>, <<FALSE>>}
         OBVIOUS
    <3>1. told'[e] = Append(told[e], verdict[e])
          BY <1>0, <1>6 DEF CloseTell
    <3>2. CASE told[e] = <<>> /\ proc[e] = "gone" /\ ok[e]
      <4>1. Append(<<>>, verdict[e]) \in {<<TRUE>>, <<FALSE>>}
        <5>1. PICK v \in BOOLEAN : v = verdict[e]
              BY <1>0
        <5>2. Append(<<>>, v) = <<v>>
              OBVIOUS
        <5>3. <<v>> \in {<<TRUE>>, <<FALSE>>}
              BY Zenon
        <5>. QED  BY <5>1, <5>2, <5>3
      <4>. QED  BY <3>1, <3>2, <4>1
    <3>3. CASE told[e] = <<FALSE>> /\ ~verdict[e]
      <4>1. verdict[e] = FALSE
            BY <1>0, <3>3
      <4>2. Append(<<FALSE>>, FALSE) = <<FALSE, FALSE>>
            BY Pair, Zenon
      <4>. QED  BY <3>1, <3>3, <4>1, <4>2
    <3>. QED  BY <2>1, <3>2, <3>3 DEF SerialInv, ToldByStage, ToldSoFar
  <2>5. (OneCall /\ OneBusy /\ WokenAlone)'
        BY <2>1, CloseStaysAlone DEF InCall
  <2>6. (MainIsOwn /\ ProcByStage /\ VerdictIsTrue)'
        BY <2>2 DEF SerialInv, MainIsOwn, ProcByStage, VerdictIsTrue
  <2>7. ToldByStage'
        BY <2>2, <2>3, <2>4 DEF SerialInv, ToldByStage, ToldSoFar
  <2>. QED  BY <2>5, <2>6, <2>7 DEF SerialInv
<1>. QED  BY <1>1, <1>2, <1>3, <1>4, <1>5, <1>6 DEF handleClose

LEMMA SerialStep ==
    ASSUME Overlap = FALSE
    PROVE  CountInv /\ SerialInv /\ [Next]_vars => SerialInv'
<1>. SUFFICES ASSUME CountInv, SerialInv, [Next]_vars PROVE SerialInv'
     OBVIOUS
<1>1. CASE UNCHANGED vars
      BY <1>1, SerialAlone DEF vars, fields, os
<1>. QED  BY <1>1, ProceedSerial, CloseSerial, ExitSerial, ClientSerial DEF Next

LEMMA SerialCorrect ==
    ASSUME Overlap = FALSE
    PROVE  Spec => [](CountInv /\ SerialInv)
BY CountInit, CountStep, SerialInit, SerialStep, PTL DEF Spec

(* With serialised starts, a callback is told of a graceful exit only if its *)
(* own process exited with status 0, although handleClose judges by whatever *)
(* mainProcess is after Wait.Done, which may be a later execution's Cmd.     *)
THEOREM GracefulIsTrueCorrect ==
    ASSUME Overlap = FALSE
    PROVE  Spec => []GracefulIsTrue
<1>1. CountInv /\ SerialInv => GracefulIsTrue
  <2>. SUFFICES ASSUME CountInv, SerialInv, NEW e \in Exec, NEW i \in DOMAIN told[e], told[e][i]
                PROVE  proc[e] = "gone" /\ ok[e]
       BY DEF GracefulIsTrue
  <2>1. told[e] # <<>>
        OBVIOUS
  <2>2. told[e] # <<FALSE>>
    <3>1. SUFFICES ASSUME told[e] = <<FALSE>> PROVE FALSE
          OBVIOUS
    <3>2. i = 1
          BY <3>1
    <3>. QED  BY <3>1, <3>2
  <2>3. told[e] # <<FALSE, FALSE>>
    <3>1. SUFFICES ASSUME told[e] = <<FALSE, FALSE>> PROVE FALSE
          OBVIOUS
    <3>2. i = 1 \/ i = 2
          BY <3>1
    <3>3. <<FALSE, FALSE>>[1] = FALSE /\ <<FALSE, FALSE>>[2] = FALSE
          BY Pair, Zenon
    <3>4. told[e][1] = FALSE /\ told[e][2] = FALSE
          BY <3>1, <3>3, Zenon
    <3>. QED  BY <3>2, <3>4
  <2>. QED  BY <2>1, <2>2, <2>3 DEF SerialInv, ToldByStage, ToldSoFar
<1>. QED  BY <1>1, SerialCorrect, PTL

(* With serialised starts, when handleClose ends its callback has been told: *)
(* of a crash twice, with FALSE; of a clean exit once, or twice with FALSE.  *)
THEOREM ToldAtEndCorrect ==
    ASSUME Overlap = FALSE
    PROVE  Spec => []ToldAtEnd
<1>1. SerialInv => ToldAtEnd
      BY ExecAssumption DEF SerialInv, ToldByStage, ToldSoFar, ToldAtEnd
<1>. QED  BY <1>1, SerialCorrect, PTL
=============================================================================
