-------------------------- MODULE DockerEnvProofs --------------------------
(***************************************************************************)
(* Proofs about DockerEnv: its five invariants, for any number of calls    *)
(* and requests.  The WaitGroup counts goroutines, whatever calls overlap; *)
(* a connection is closed early only by the goroutine of another call; and *)
(* as long as no calls have overlapped, a running container that this      *)
(* daemon created has the connection, and a goroutine copies its output    *)
(* unless that connection has been closed early.                           *)
(***************************************************************************)
EXTENDS DockerEnv, FiniteSetTheorems, SequenceTheorems, TLAPS

\* The goroutines between Wait.Add and Wait.Done, which wg counts.
Counted == {e \in Exec : go[e] \in {"begin", "copy", "stop", "done"}}
Count == wg = Cardinality(Counted)

\* Before ContainerAttach and the go statement, between IsRunning and ContainerStart, all of a call.
BeforeAttach == {"new", "wait", "flag", "exists", "image", "pull", "pullFailed", "create", "attach"}
BeforeGo     == BeforeAttach \cup {"add"}
BeforeStart  == {"wait", "flag", "exists", "image", "pull", "create", "attach", "add", "start"}
InCall       == BeforeStart \cup {"return"}

\* A connection has no reader before it is made, and is first read by the call that made it.
Unread(e)   == at[e] \in BeforeAttach => connection # e /\ e \notin cut /\ \A f \in Exec : stream[f] # e
ReadsItsOwn == connection # None /\ go[connection] \notin {"none", "begin"} => stream[connection] = connection
\* Only the goroutine of another call closes it before its container has ended.
CutsAreLate == \A x \in cut : CutLate(x)
\* A goroutine reads the output of the container its call attached to, or of a newer one.
ConnectionIsNewest == connection = None \/ \A e \in Exec : own[e] <= own[connection]
GoIsOf(e) == /\ at[e] \in BeforeGo => go[e] = "none"
             /\ go[e] \in {"none", "begin", "copy", "stop", "done", "tell"} => told[e] = <<>>
             /\ go[e] = "copy" => stream[e] \in Exec /\ own[e] <= own[stream[e]]
             /\ go[e] \in {"stop", "done", "tell", "close"} => Ended(own[e]) \/ stream[e] \in cut
             /\ go[e] = "close" => told[e] # <<>>
             /\ told[e] # <<>> => Len(told[e]) = 1 /\ (Ended(own[e]) \/ stream[e] \in cut)
ToldInv == /\ ReadsItsOwn /\ CutsAreLate /\ ConnectionIsNewest
           /\ \A e \in Exec : Unread(e) /\ GoIsOf(e)

\* The goroutine of e copies, or is to copy, the output of the newest container.
Follows(e) == \/ go[e] = "begin" /\ connection \in Exec /\ own[connection] = n
              \/ go[e] = "copy" /\ stream[e] \in Exec /\ own[stream[e]] = n
\* A connection to it has been closed while it could run.
CutOff     == \E x \in cut : own[x] = n
\* What holds of calls that do not overlap.
OneInCall  == \A e, f \in Exec : at[e] \in InCall /\ at[f] \in InCall => e = f
StartsNew  == \A e \in Exec : at[e] \in BeforeStart => cont # "running"
Attached   == \A e \in Exec : /\ at[e] \in {"add", "start"} => own[e] = n /\ connection = e
                              /\ at[e] = "start" => Follows(e) \/ Ended(n) \/ CutOff
Followed   == cont = "running" /\ n > inherited =>
                  /\ connection \in Exec /\ own[connection] = n
                  /\ (\E e \in Exec : Follows(e)) \/ CutOff
Alone      == overlapped \/ (OneInCall /\ StartsNew /\ Attached /\ Followed)
\* A container that was seen running does not become one that never ran.
SeenRan    == \A c \in Client : saw[c] = n /\ n > 0 => cont # "created"
WaitInv    == Alone /\ SeenRan /\ WaitMeansGone /\ InputHasConnection

-----------------------------------------------------------------------------
(* The type invariant, and what wg counts                                  *)

LEMMA CountInit == Init => TypeOK /\ Count
<1>. SUFFICES ASSUME Init PROVE TypeOK /\ Count
     OBVIOUS
<1>1. Counted = {}
      BY DEF Init, Counted
<1>2. Count
      BY <1>1, FS_EmptySet DEF Init, Count
<1>3. at \in [Exec \cup Client -> {"new"}] /\ go \in [Exec -> {"none"}]
      BY DEF Init
<1>4. n = 0 /\ 0 \in 0 .. n /\ n \in Nat
      BY DEF Init
<1>5. err \in [Exec -> BOOLEAN] /\ told \in [Exec -> Seq(BOOLEAN)]
  <2>1. <<>> \in Seq(BOOLEAN)
        OBVIOUS
  <2>. QED  BY <2>1 DEF Init
<1>6. /\ own \in [Exec -> 0 .. n] /\ stream \in [Exec -> Exec \cup {None}] /\ cut \subseteq Exec
      /\ saw \in [Client -> 0 .. n]
      BY <1>4 DEF Init
<1>7. image \in BOOLEAN /\ downloadingImage \in BOOLEAN /\ overlapped \in BOOLEAN
      BY DEF Init
<1>8. connection \in Exec \cup {None} /\ wg \in Nat /\ inherited \in 0 .. n /\ cont = "absent"
      BY <1>4 DEF Init
<1>. QED  BY <1>2, <1>3, <1>4, <1>5, <1>6, <1>7, <1>8 DEF TypeOK

LEMMA CountedFinite == IsFiniteSet(Counted)
BY DockerAssumption, FS_Subset DEF Counted

\* A step that moves no goroutine in or out of Counted.
LEMMA CountSame ==
    ASSUME Count, wg' = wg, Counted' = Counted
    PROVE  Count'
BY DEF Count

LEMMA CountRestart == ASSUME TypeOK, Restart PROVE TypeOK' /\ Count'
<1>1. Counted' = {}
      BY DEF TypeOK, Restart, Counted
<1>2. Count'
      BY <1>1, FS_EmptySet DEF Count, Restart
<1>3. at' \in [Exec \cup Client -> {"new", "lost"}] /\ go' \in [Exec -> {"none", "end"}]
      BY DEF Restart
<1>4. UNCHANGED <<own, stream, cut, saw, err, told, image, cont, n, overlapped>>
      BY DEF Restart, dockerd
<1>5. inherited' \in 0 .. n' /\ connection' \in Exec \cup {None} /\ wg' \in Nat /\ downloadingImage' \in BOOLEAN
  <2>1. n \in Nat /\ n \in 0 .. n /\ 0 \in 0 .. n
        BY DEF TypeOK
  <2>. QED  BY <1>4, <2>1 DEF Restart
<1>6. TypeOK'
      BY <1>3, <1>4, <1>5 DEF TypeOK
<1>. QED  BY <1>2, <1>6

LEMMA CountCall ==
    ASSUME TypeOK, Count, ToldInv, NEW e \in Exec, dockerExecuteAsync(e)
    PROVE  TypeOK' /\ Count'
<1>1. CASE Check(e)
  <2>1. Counted' = Counted /\ wg' = wg
        BY <1>1 DEF TypeOK, Check, Counted, fields
  <2>2. TypeOK'
        BY <1>1 DEF TypeOK, Check, Goto, fields, dockerd, history
  <2>. QED  BY <2>1, <2>2, CountSame
<1>2. CASE Wait(e)
  <2>1. Counted' = Counted /\ wg' = wg
        BY <1>2 DEF TypeOK, Wait, Counted, fields
  <2>2. TypeOK'
        BY <1>2 DEF TypeOK, Wait, Goto, fields, dockerd, history
  <2>. QED  BY <2>1, <2>2, CountSame
<1>3. CASE Flag(e)
  <2>1. Counted' = Counted /\ wg' = wg
        BY <1>3 DEF TypeOK, Flag, Counted, fields
  <2>2. TypeOK'
        BY <1>3 DEF TypeOK, Flag, Goto, fields, dockerd, history
  <2>. QED  BY <2>1, <2>2, CountSame
<1>4. CASE doesContainerExist(e)
  <2>1. Counted' = Counted /\ wg' = wg
        BY <1>4 DEF TypeOK, doesContainerExist, Counted, fields
  <2>2. TypeOK'
        BY <1>4 DEF TypeOK, doesContainerExist, Goto, fields, dockerd, history
  <2>. QED  BY <2>1, <2>2, CountSame
<1>5. CASE ImageList(e)
  <2>1. Counted' = Counted /\ wg' = wg
        BY <1>5 DEF TypeOK, ImageList, Counted, fields
  <2>2. TypeOK'
        BY <1>5 DEF TypeOK, ImageList, Goto, fields, dockerd, history
  <2>. QED  BY <2>1, <2>2, CountSame
<1>6. CASE ImagePull(e)
  <2>1. Counted' = Counted /\ wg' = wg
        BY <1>6 DEF TypeOK, ImagePull, Counted, fields
  <2>2. TypeOK'
        BY <1>6 DEF TypeOK, ImagePull, Goto, fields, dockerd, history
  <2>. QED  BY <2>1, <2>2, CountSame
<1>7. CASE createContainer(e)
  <2>1. Counted' = Counted /\ wg' = wg
        BY <1>7 DEF TypeOK, createContainer, Counted, fields
  <2>2. TypeOK'
    <3>1. n' \in {n, n + 1} /\ n \in Nat /\ UNCHANGED <<own, saw, inherited>>
          BY <1>7 DEF TypeOK, createContainer, fields, dockerd, history
    <3>2. 0 .. n \subseteq 0 .. n'
          BY <3>1
    <3>3. own' \in [Exec -> 0 .. n'] /\ saw' \in [Client -> 0 .. n'] /\ inherited' \in 0 .. n'
          BY <3>1, <3>2 DEF TypeOK
    <3>4. n' \in Nat
          BY <3>1
    <3>. QED  BY <1>7, <3>3, <3>4 DEF TypeOK, createContainer, Goto, fields, dockerd, history
  <2>. QED  BY <2>1, <2>2, CountSame
<1>8. CASE ContainerAttach(e)
  <2>1. Counted' = Counted /\ wg' = wg
        BY <1>8 DEF TypeOK, ContainerAttach, Counted, fields
  <2>2. TypeOK'
    <3>1. n \in 0 .. n
          BY DEF TypeOK
    <3>2. own' \in [Exec -> 0 .. n] /\ connection' \in Exec \cup {None}
          BY <1>8, <3>1 DEF TypeOK, ContainerAttach
    <3>3. n' = n
          BY <1>8 DEF ContainerAttach, dockerd
    <3>. QED  BY <1>8, <3>2, <3>3 DEF TypeOK, ContainerAttach, Goto, dockerd, history
  <2>. QED  BY <2>1, <2>2, CountSame
<1>9. CASE Add(e)
  <2>1. Counted' = Counted \cup {e}
        BY <1>9 DEF TypeOK, Add, Counted
  <2>2. e \notin Counted
        BY <1>9 DEF Add, Counted, ToldInv, GoIsOf, BeforeGo
  <2>3. Count'
        BY <1>9, <2>1, <2>2, CountedFinite, FS_AddElement DEF Count, Add
  <2>4. TypeOK'
        BY <1>9 DEF TypeOK, Add, Goto, dockerd, history
  <2>. QED  BY <2>3, <2>4
<1>10. CASE ContainerStart(e)
  <2>1. Counted' = Counted /\ wg' = wg
        BY <1>10 DEF TypeOK, ContainerStart, Counted, fields
  <2>2. TypeOK'
        BY <1>10 DEF TypeOK, ContainerStart, Goto, fields, dockerd, history
  <2>. QED  BY <2>1, <2>2, CountSame
<1>11. CASE Return(e)
  <2>1. Counted' = Counted /\ wg' = wg
        BY <1>11 DEF TypeOK, Return, Counted, fields
  <2>2. TypeOK'
        BY <1>11 DEF TypeOK, Return, Goto, fields, dockerd, history
  <2>. QED  BY <2>1, <2>2, CountSame
<1>. QED  BY <1>1, <1>2, <1>3, <1>4, <1>5, <1>6, <1>7, <1>8, <1>9, <1>10, <1>11 DEF dockerExecuteAsync

LEMMA CountGoroutine ==
    ASSUME TypeOK, Count, NEW e \in Exec, Goroutine(e)
    PROVE  TypeOK' /\ Count'
<1>1. CASE Begin(e)
  <2>1. CASE connection = None
        BY <1>1, <2>1, CountRestart DEF Begin
  <2>2. CASE connection # None
    <3>1. Counted' = Counted /\ wg' = wg
          BY <1>1, <2>2 DEF TypeOK, Begin, Counted, fields
    <3>2. TypeOK'
          BY <1>1, <2>2 DEF TypeOK, Begin, fields, dockerd, history
    <3>. QED  BY <3>1, <3>2, CountSame
  <2>. QED  BY <2>1, <2>2
<1>2. CASE CopyEnds(e)
  <2>1. Counted' = Counted /\ wg' = wg
        BY <1>2 DEF TypeOK, CopyEnds, Counted, fields
  <2>2. TypeOK'
        BY <1>2 DEF TypeOK, CopyEnds, Goto, fields, dockerd, history
  <2>. QED  BY <2>1, <2>2, CountSame
<1>3. CASE ContainerStop(e)
  <2>1. Counted' = Counted /\ wg' = wg
        BY <1>3 DEF TypeOK, ContainerStop, Counted, fields
  <2>2. TypeOK'
        BY <1>3 DEF TypeOK, ContainerStop, Goto, fields, dockerd, history
  <2>. QED  BY <2>1, <2>2, CountSame
<1>4. CASE Done(e)
  <2>1. e \in Counted /\ Counted' = Counted \ {e}
        BY <1>4 DEF TypeOK, Done, Counted
  <2>2. Cardinality(Counted') = wg - 1 /\ IsFiniteSet(Counted')
        BY <2>1, CountedFinite, FS_RemoveElement DEF Count
  <2>3. wg' = Cardinality(Counted') /\ wg' \in Nat
        BY <1>4, <2>2, FS_CardinalityType DEF Done
  <2>4. TypeOK'
        BY <1>4, <2>3 DEF TypeOK, Done, dockerd, history
  <2>. QED  BY <2>3, <2>4 DEF Count
<1>5. CASE Tell(e)
  <2>1. Counted' = Counted /\ wg' = wg
        BY <1>5 DEF TypeOK, Tell, Counted, fields
  <2>2. told' \in [Exec -> Seq(BOOLEAN)]
    <3>1. (~err[e]) \in BOOLEAN
          BY Zenon
    <3>2. Append(told[e], ~err[e]) \in Seq(BOOLEAN)
          BY <3>1, AppendProperties DEF TypeOK
    <3>. QED  BY <1>5, <3>2 DEF Tell, TypeOK
  <2>3. TypeOK'
        BY <1>5, <2>2 DEF TypeOK, Tell, fields, dockerd, history
  <2>. QED  BY <2>1, <2>3, CountSame
<1>6. CASE Close(e)
  <2>1. CASE connection = None
        BY <1>6, <2>1, CountRestart DEF Close
  <2>2. CASE connection # None
    <3>1. Counted' = Counted /\ wg' = wg
          BY <1>6, <2>2 DEF TypeOK, Close, Counted, fields
    <3>2. TypeOK'
          BY <1>6, <2>2 DEF TypeOK, Close, fields, dockerd, history
    <3>. QED  BY <3>1, <3>2, CountSame
  <2>. QED  BY <2>1, <2>2
<1>. QED  BY <1>1, <1>2, <1>3, <1>4, <1>5, <1>6 DEF Goroutine

LEMMA CountClient ==
    ASSUME TypeOK, Count, NEW c \in Client, ClientStep(c)
    PROVE  TypeOK' /\ Count'
<1>1. CASE ClientCheck(c)
  <2>1. Counted' = Counted /\ wg' = wg
        BY <1>1 DEF TypeOK, ClientCheck, Counted, fields
  <2>2. TypeOK'
    <3>1. n \in 0 .. n
          BY DEF TypeOK
    <3>2. saw' \in [Client -> 0 .. n]
          BY <1>1, <3>1 DEF TypeOK, ClientCheck
    <3>3. \E place \in {"failed", "kill", "write", "waiting", "back"} : at' = [at EXCEPT ![c] = place]
          BY <1>1 DEF ClientCheck, Goto
    <3>4. UNCHANGED <<go, own, stream, cut, err, told, connection, wg, downloadingImage, image, n, cont,
                      inherited, overlapped>>
          BY <1>1 DEF ClientCheck, fields, dockerd, history
    <3>. QED  BY <3>2, <3>3, <3>4 DEF TypeOK
  <2>. QED  BY <2>1, <2>2, CountSame
<1>2. CASE Kill(c)
  <2>1. Counted' = Counted /\ wg' = wg
        BY <1>2 DEF TypeOK, Kill, Counted, fields
  <2>2. TypeOK'
        BY <1>2 DEF TypeOK, Kill, Goto, fields, dockerd, history
  <2>. QED  BY <2>1, <2>2, CountSame
<1>3. CASE ExecuteInMainProcess(c)
  <2>1. Counted' = Counted /\ wg' = wg
        BY <1>3 DEF TypeOK, ExecuteInMainProcess, Counted, fields
  <2>2. TypeOK'
        BY <1>3 DEF TypeOK, ExecuteInMainProcess, Goto, fields, dockerd, history
  <2>. QED  BY <2>1, <2>2, CountSame
<1>4. CASE WaitForMainProcessFor(c)
  <2>1. Counted' = Counted /\ wg' = wg
        BY <1>4 DEF TypeOK, WaitForMainProcessFor, Counted, fields
  <2>2. TypeOK'
        BY <1>4 DEF TypeOK, WaitForMainProcessFor, Goto, fields, dockerd, history
  <2>. QED  BY <2>1, <2>2, CountSame
<1>. QED  BY <1>1, <1>2, <1>3, <1>4 DEF ClientStep

LEMMA CountStep == TypeOK /\ Count /\ ToldInv /\ [Next]_vars => TypeOK' /\ Count'
<1>. SUFFICES ASSUME TypeOK, Count, ToldInv, [Next]_vars
              PROVE  TypeOK' /\ Count'
     OBVIOUS
<1>1. CASE ContainerExit \/ AutoRemove
  <2>1. Counted' = Counted /\ wg' = wg
        BY <1>1 DEF ContainerExit, AutoRemove, Counted, fields
  <2>2. TypeOK'
        BY <1>1 DEF TypeOK, ContainerExit, AutoRemove, fields, history
  <2>. QED  BY <2>1, <2>2, CountSame
<1>2. CASE UNCHANGED vars
  <2>1. Counted' = Counted /\ wg' = wg
        BY <1>2 DEF vars, Counted, fields
  <2>2. TypeOK'
        BY <1>2 DEF TypeOK, vars, fields, dockerd, history
  <2>. QED  BY <2>1, <2>2, CountSame
<1>. QED  BY <1>1, <1>2, CountCall, CountGoroutine, CountClient, CountRestart DEF Next

-----------------------------------------------------------------------------
(* What callbacks are told                                                 *)

LEMMA ToldInit == Init => ToldInv
BY DockerAssumption DEF Init, ToldInv, ReadsItsOwn, CutsAreLate, ConnectionIsNewest, Unread, GoIsOf

\* What a step does to the container: one that has ended does not run again.
Onwards == \/ n' = n /\ (cont \in {"exited", "absent"} => cont' \in {"exited", "absent"})
           \/ n' = n + 1

USE DEF Onwards

LEMMA EndedStays ==
    ASSUME NEW k \in Int, k <= n, n \in Nat, Ended(k),
           Onwards
    PROVE  Ended(k)'
BY DEF Ended

\* A step that leaves the goroutines and what they have alone.
LEMMA ToldSame ==
    ASSUME TypeOK, ToldInv, UNCHANGED <<go, own, stream, cut, told, connection>>,
           \A e \in Exec : /\ at'[e] \in BeforeGo => at[e] \in BeforeGo
                           /\ at'[e] \in BeforeAttach => at[e] \in BeforeAttach,
           Onwards
    PROVE  ToldInv'
<1>1. \A e \in Exec : Ended(own[e]) => Ended(own[e])'
      BY EndedStays DEF TypeOK
<1>2. (ReadsItsOwn /\ CutsAreLate /\ ConnectionIsNewest)'
      BY DEF ToldInv, ReadsItsOwn, CutsAreLate, CutLate, ConnectionIsNewest
<1>3. \A e \in Exec : Unread(e)'
      BY DEF ToldInv, Unread
<1>4. \A e \in Exec : GoIsOf(e)'
      BY <1>1 DEF ToldInv, GoIsOf
<1>. QED  BY <1>2, <1>3, <1>4 DEF ToldInv

LEMMA ToldRestart == ASSUME TypeOK, ToldInv, Restart PROVE ToldInv'
<1>1. \A e \in Exec : Ended(own[e])' = Ended(own[e])
      BY DEF Restart, dockerd, Ended
<1>2. (ReadsItsOwn /\ CutsAreLate /\ ConnectionIsNewest)'
      BY DEF ToldInv, ReadsItsOwn, CutsAreLate, CutLate, ConnectionIsNewest, Restart
<1>3. \A e \in Exec : at'[e] \in BeforeGo => at[e] = "new" /\ at'[e] = "new"
      BY DEF TypeOK, Restart, BeforeGo, BeforeAttach
<1>4. ASSUME NEW e \in Exec
      PROVE  Unread(e)' /\ GoIsOf(e)'
      BY <1>1, <1>3, DockerAssumption DEF TypeOK, ToldInv, Unread, GoIsOf, Restart, BeforeGo, BeforeAttach
<1>. QED  BY <1>2, <1>4 DEF ToldInv

LEMMA ToldCall ==
    ASSUME TypeOK, ToldInv, NEW e \in Exec, dockerExecuteAsync(e)
    PROVE  ToldInv'
<1>1. CASE Check(e)
      BY <1>1, ToldSame DEF TypeOK, Check, Goto, fields, dockerd, BeforeGo, BeforeAttach
<1>2. CASE Wait(e)
      BY <1>2, ToldSame DEF TypeOK, Wait, Goto, fields, dockerd, BeforeGo, BeforeAttach
<1>3. CASE Flag(e)
      BY <1>3, ToldSame DEF TypeOK, Flag, Goto, fields, dockerd, BeforeGo, BeforeAttach
<1>4. CASE doesContainerExist(e)
      BY <1>4, ToldSame DEF TypeOK, doesContainerExist, Goto, fields, dockerd, BeforeGo, BeforeAttach
<1>5. CASE ImageList(e)
      BY <1>5, ToldSame DEF TypeOK, ImageList, Goto, fields, dockerd, BeforeGo, BeforeAttach
<1>6. CASE ImagePull(e)
      BY <1>6, ToldSame DEF TypeOK, ImagePull, Goto, fields, dockerd, BeforeGo, BeforeAttach
<1>7. CASE createContainer(e)
      BY <1>7, ToldSame DEF TypeOK, createContainer, Goto, fields, dockerd, BeforeGo, BeforeAttach
<1>8. CASE ContainerAttach(e)
  <2>1. /\ at[e] = "attach" /\ go[e] = "none" /\ told[e] = <<>>
        /\ connection # e /\ e \notin cut /\ \A f \in Exec : stream[f] # e
        BY <1>8 DEF ContainerAttach, ToldInv, Unread, GoIsOf, BeforeGo, BeforeAttach
  <2>2. /\ at'[e] \in {"failed", "add"} /\ connection' \in {None, e} /\ own'[e] \in {own[e], n}
        /\ connection' # None => own'[e] = n
        /\ \A f \in Exec \ {e} : at'[f] = at[f] /\ own'[f] = own[f]
        /\ UNCHANGED <<go, stream, cut, told, n, cont>>
        BY <1>8 DEF ContainerAttach, TypeOK, Goto, dockerd
  <2>3. ConnectionIsNewest'
    <3>1. n <= n /\ \A f \in Exec : own[f] <= n
          BY DEF TypeOK
    <3>2. \A f \in Exec : own'[f] <= n
          BY <2>2, <3>1
    <3>. QED  BY <2>2, <3>2 DEF ConnectionIsNewest
  <2>4. ReadsItsOwn' /\ CutsAreLate'
        BY <2>1, <2>2 DEF ToldInv, ReadsItsOwn, CutsAreLate, CutLate
  <2>5. \A f \in Exec : Unread(f)'
        BY <2>2, DockerAssumption DEF ToldInv, Unread, BeforeAttach
  <2>6. \A f \in Exec \ {e} : GoIsOf(f)'
        BY <2>1, <2>2 DEF ToldInv, GoIsOf, Ended
  <2>7. GoIsOf(e)'
        BY <2>1, <2>2 DEF GoIsOf
  <2>. QED  BY <2>3, <2>4, <2>5, <2>6, <2>7 DEF ToldInv
<1>9. CASE Add(e)
  <2>1. at[e] = "add" /\ go[e] = "none" /\ told[e] = <<>>
        BY <1>9 DEF Add, ToldInv, GoIsOf, BeforeGo
  <2>2. /\ at'[e] = "start" /\ go'[e] = "begin"
        /\ \A f \in Exec \ {e} : at'[f] = at[f] /\ go'[f] = go[f]
        /\ UNCHANGED <<own, stream, cut, told, connection, n, cont>>
        BY <1>9 DEF Add, TypeOK, Goto, dockerd
  <2>3. ConnectionIsNewest' /\ ReadsItsOwn' /\ CutsAreLate'
        BY <2>2 DEF TypeOK, ToldInv, ConnectionIsNewest, ReadsItsOwn, CutsAreLate, CutLate
  <2>4. \A f \in Exec : Unread(f)'
        BY <2>2 DEF ToldInv, Unread, BeforeAttach
  <2>5. \A f \in Exec \ {e} : GoIsOf(f)'
        BY <2>2 DEF ToldInv, GoIsOf, Ended
  <2>6. GoIsOf(e)'
        BY <2>1, <2>2 DEF GoIsOf, BeforeGo, BeforeAttach
  <2>. QED  BY <2>3, <2>4, <2>5, <2>6 DEF ToldInv
<1>10. CASE ContainerStart(e)
      BY <1>10, ToldSame DEF TypeOK, ContainerStart, Goto, fields, dockerd, BeforeGo, BeforeAttach
<1>11. CASE Return(e)
      BY <1>11, ToldSame DEF TypeOK, Return, Goto, fields, dockerd, BeforeGo, BeforeAttach
<1>. QED  BY <1>1, <1>2, <1>3, <1>4, <1>5, <1>6, <1>7, <1>8, <1>9, <1>10, <1>11 DEF dockerExecuteAsync

\* A step of the goroutine of e alone: what is left to show of it.
LEMMA ToldOwn ==
    ASSUME TypeOK, ToldInv, NEW e \in Exec, UNCHANGED <<at, own, connection, n>>,
           cont' = cont \/ (cont = "running" /\ cont' = "exited"),
           cut \subseteq cut', CutsAreLate', ReadsItsOwn', GoIsOf(e)',
           \A f \in Exec \ {e} : go'[f] = go[f] /\ stream'[f] = stream[f] /\ told'[f] = told[f],
           at[e] \notin BeforeGo, stream'[e] \in {stream[e], connection},
           cut' \subseteq cut \cup {connection}
    PROVE  ToldInv'
<1>1. \A f \in Exec : Ended(own[f]) => Ended(own[f])'
      BY DEF Ended
<1>2. \A f \in Exec \ {e} : GoIsOf(f)'
      BY <1>1 DEF ToldInv, GoIsOf
<1>3. \A f \in Exec : Unread(f)'
      BY DEF ToldInv, Unread
<1>4. ConnectionIsNewest'
      BY DEF ToldInv, ConnectionIsNewest
<1>. QED  BY <1>2, <1>3, <1>4 DEF ToldInv

LEMMA ToldGoroutine ==
    ASSUME TypeOK, ToldInv, NEW e \in Exec, Goroutine(e)
    PROVE  ToldInv'
<1>1. go[e] \in {"begin", "copy", "stop", "done", "tell", "close"} /\ at[e] \notin BeforeGo
      BY DEF Goroutine, Begin, CopyEnds, ContainerStop, Done, Tell, Close, ToldInv, GoIsOf
<1>2. go[e] # "close" => told[e] = <<>>
      BY <1>1 DEF ToldInv, GoIsOf
<1>3. GoIsOf(e) /\ ReadsItsOwn /\ CutsAreLate
      BY DEF ToldInv
<1>4. CASE Begin(e) /\ connection = None
      BY <1>4, ToldRestart DEF Begin
<1>5. CASE Begin(e) /\ connection # None
  <2>1. /\ go'[e] = "copy" /\ stream'[e] = connection /\ connection \in Exec
        /\ UNCHANGED <<at, own, cut, told, connection, n, cont>>
        /\ \A f \in Exec \ {e} : go'[f] = go[f] /\ stream'[f] = stream[f]
        BY <1>5 DEF Begin, TypeOK, fields, dockerd
  <2>2. own[e] <= own[connection]
        BY <1>5 DEF ToldInv, ConnectionIsNewest
  <2>3. GoIsOf(e)'
        BY <1>1, <1>2, <1>5, <2>1, <2>2 DEF Begin, GoIsOf
  <2>4. ReadsItsOwn' /\ CutsAreLate'
        BY <1>3, <2>1 DEF ReadsItsOwn, CutsAreLate, CutLate
  <2>. QED  BY <1>1, <2>1, <2>3, <2>4, ToldOwn
<1>6. CASE CopyEnds(e)
  <2>1. Ended(own[e]) \/ stream[e] \in cut
        BY <1>3, <1>6 DEF CopyEnds, GoIsOf, Ended, TypeOK
  <2>2. /\ go'[e] = "stop" /\ go[e] = "copy"
        /\ UNCHANGED <<at, own, stream, cut, told, connection, n, cont>>
        /\ \A f \in Exec \ {e} : go'[f] = go[f]
        BY <1>6 DEF CopyEnds, TypeOK, fields, dockerd
  <2>3. GoIsOf(e)'
        BY <1>1, <1>2, <2>1, <2>2 DEF GoIsOf, Ended
  <2>4. ReadsItsOwn' /\ CutsAreLate'
        BY <1>3, <2>2 DEF ReadsItsOwn, CutsAreLate, CutLate, TypeOK
  <2>. QED  BY <1>1, <2>2, <2>3, <2>4, ToldOwn
<1>7. CASE ContainerStop(e) \/ Done(e)
  <2>1. /\ go'[e] \in {"done", "tell"} /\ go[e] \in {"stop", "done"}
        /\ UNCHANGED <<at, own, stream, cut, told, connection, n>>
        /\ \A f \in Exec \ {e} : go'[f] = go[f]
        /\ cont' = cont \/ (cont = "running" /\ cont' = "exited")
        BY <1>7 DEF ContainerStop, Done, TypeOK, fields, dockerd
  <2>2. GoIsOf(e)'
        BY <1>1, <1>2, <1>3, <2>1 DEF GoIsOf, Ended
  <2>3. ReadsItsOwn' /\ CutsAreLate'
        BY <1>3, <2>1 DEF ReadsItsOwn, CutsAreLate, CutLate, TypeOK
  <2>. QED  BY <1>1, <2>1, <2>2, <2>3, ToldOwn
<1>8. CASE Tell(e)
  <2>1. /\ go'[e] = "close" /\ go[e] = "tell" /\ told' = [told EXCEPT ![e] = Append(@, ~err[e])]
        /\ UNCHANGED <<at, own, stream, cut, connection, n, cont>>
        /\ \A f \in Exec \ {e} : go'[f] = go[f]
        BY <1>8 DEF Tell, TypeOK, fields, dockerd
  <2>2. Len(told'[e]) = 1 /\ told'[e] # <<>> /\ \A f \in Exec \ {e} : told'[f] = told[f]
    <3>1. told'[e] = Append(<<>>, ~err[e]) /\ \A f \in Exec \ {e} : told'[f] = told[f]
          BY <1>2, <2>1 DEF TypeOK
    <3>2. ASSUME NEW x PROVE Len(Append(<<>>, x)) = 1 /\ Append(<<>>, x) # <<>>
          OBVIOUS
    <3>3. Len(told'[e]) = 1 /\ told'[e] # <<>>
          BY <3>1, <3>2
    <3>. QED  BY <3>1, <3>3
  <2>3. GoIsOf(e)'
        BY <1>1, <1>3, <2>1, <2>2 DEF GoIsOf, Ended
  <2>4. ReadsItsOwn' /\ CutsAreLate'
    <3>1. \A f \in Exec : told[f] # <<>> => told'[f] # <<>>
          BY <2>2
    <3>. QED  BY <1>3, <2>1, <3>1 DEF ReadsItsOwn, CutsAreLate, CutLate, TypeOK
  <2>. QED  BY <1>1, <2>1, <2>2, <2>3, <2>4, ToldOwn
<1>9. CASE Close(e) /\ connection = None
      BY <1>9, ToldRestart DEF Close
<1>10. CASE Close(e) /\ connection # None
  <2>1. /\ go'[e] = "end" /\ go[e] = "close" /\ told[e] # <<>> /\ connection \in Exec
        /\ cut' = cut \/ (~Ended(own[connection]) /\ cut' = cut \cup {connection})
        /\ UNCHANGED <<at, own, stream, told, connection, n, cont>>
        /\ \A f \in Exec \ {e} : go'[f] = go[f]
        BY <1>3, <1>10 DEF Close, GoIsOf, TypeOK, fields, dockerd
  <2>2. CutsAreLate'
    <3>1. CASE connection # e
          BY <1>3, <2>1, <3>1 DEF CutsAreLate, CutLate
    <3>2. CASE connection = e
      <4>1. stream[e] = e
            BY <1>3, <2>1, <3>2, DockerAssumption DEF ReadsItsOwn
      <4>2. Ended(own[e]) \/ e \in cut
            BY <1>3, <2>1, <4>1 DEF GoIsOf
      <4>3. cut' = cut
            BY <2>1, <3>2, <4>2
      <4>. QED  BY <1>3, <2>1, <4>3 DEF CutsAreLate, CutLate
    <3>. QED  BY <3>1, <3>2
  <2>3. GoIsOf(e)'
        BY <1>1, <1>3, <2>1 DEF GoIsOf, Ended
  <2>4. ReadsItsOwn'
        BY <1>3, <2>1 DEF ReadsItsOwn, TypeOK
  <2>. QED  BY <1>1, <2>1, <2>2, <2>3, <2>4, ToldOwn
<1>. QED  BY <1>4, <1>5, <1>6, <1>7, <1>8, <1>9, <1>10 DEF Goroutine

LEMMA ToldStep == TypeOK /\ ToldInv /\ [Next]_vars => ToldInv'
<1>. SUFFICES ASSUME TypeOK, ToldInv, [Next]_vars PROVE ToldInv'
     OBVIOUS
<1>1. ASSUME NEW c \in Client, ClientStep(c)
      PROVE  ToldInv'
  <2>1. CASE ClientCheck(c)
        BY <2>1, ToldSame DEF TypeOK, ClientCheck, Goto, fields, dockerd, BeforeGo, BeforeAttach
  <2>2. CASE Kill(c)
        BY <2>2, ToldSame DEF TypeOK, Kill, Goto, fields, dockerd, BeforeGo, BeforeAttach
  <2>3. CASE ExecuteInMainProcess(c)
        BY <2>3, ToldSame DEF TypeOK, ExecuteInMainProcess, Goto, fields, dockerd, BeforeGo, BeforeAttach
  <2>4. CASE WaitForMainProcessFor(c)
        BY <2>4, ToldSame DEF TypeOK, WaitForMainProcessFor, Goto, fields, dockerd, BeforeGo, BeforeAttach
  <2>. QED  BY <1>1, <2>1, <2>2, <2>3, <2>4 DEF ClientStep
<1>2. CASE ContainerExit \/ AutoRemove
      BY <1>2, ToldSame DEF ContainerExit, AutoRemove, fields
<1>3. CASE UNCHANGED vars
      BY <1>3, ToldSame DEF vars, fields, dockerd
<1>. QED  BY <1>1, <1>2, <1>3, ToldCall, ToldGoroutine, ToldRestart DEF Next

-----------------------------------------------------------------------------
(* The flag                                                                *)

LEMMA FlagStep == TypeOK /\ FlagMeansPull /\ [Next]_vars => FlagMeansPull'
<1>. SUFFICES ASSUME TypeOK, FlagMeansPull, [Next]_vars PROVE FlagMeansPull'
     OBVIOUS
\* A step of anybody who is not between ImageList and the end of a pull.
<1>1. ASSUME NEW x, at[x] \notin {"pull", "pullFailed"}, \E place : Goto(x, place),
             UNCHANGED downloadingImage
      PROVE  FlagMeansPull'
      BY <1>1 DEF TypeOK, Goto, FlagMeansPull
<1>2. ASSUME NEW e \in Exec, dockerExecuteAsync(e)
      PROVE  FlagMeansPull'
  <2>1. CASE ImageList(e) \/ ImagePull(e)
        BY <2>1 DEF ImageList, ImagePull, TypeOK, Goto, FlagMeansPull
  <2>2. CASE ~(ImageList(e) \/ ImagePull(e))
    <3>1. at[e] \notin {"pull", "pullFailed"} /\ UNCHANGED downloadingImage
          BY <1>2, <2>2 DEF dockerExecuteAsync, Check, Wait, Flag, doesContainerExist, createContainer,
                 ContainerAttach, Add, ContainerStart, Return, fields
    <3>2. \E place : Goto(e, place)
          BY <1>2 DEF dockerExecuteAsync, Check, Wait, Flag, doesContainerExist, createContainer,
                 ContainerAttach, Add, ContainerStart, Return, ImageList, ImagePull
    <3>. QED  BY <1>1, <3>1, <3>2
  <2>. QED  BY <2>1, <2>2
<1>3. ASSUME NEW c \in Client, ClientStep(c)
      PROVE  FlagMeansPull'
  <2>1. UNCHANGED downloadingImage /\ at[c] \notin {"pull", "pullFailed"}
        BY <1>3 DEF ClientStep, ClientCheck, Kill, ExecuteInMainProcess, WaitForMainProcessFor, fields
  <2>2. (\E place : Goto(c, place)) \/ UNCHANGED at
        BY <1>3 DEF ClientStep, ClientCheck, Kill, ExecuteInMainProcess, WaitForMainProcessFor
  <2>. QED  BY <1>1, <2>1, <2>2 DEF FlagMeansPull
<1>4. ASSUME NEW e \in Exec, Goroutine(e)
      PROVE  FlagMeansPull'
      BY <1>4 DEF Goroutine, Begin, CopyEnds, ContainerStop, Done, Tell, Close, Restart, fields, FlagMeansPull
<1>. QED  BY <1>2, <1>3, <1>4 DEF Next, ContainerExit, AutoRemove, Restart, vars, fields, FlagMeansPull

-----------------------------------------------------------------------------
(* What holds of the newest container while no calls have overlapped       *)

LEMMA AloneInit == Init => Alone
BY DEF Init, Alone, OneInCall, StartsNew, Attached, Followed, InCall, BeforeStart

LEMMA AloneCall ==
    ASSUME TypeOK, Alone, NEW e \in Exec, dockerExecuteAsync(e)
    PROVE  Alone'
<1>. SUFFICES ASSUME ~overlapped' PROVE Alone'
     BY DEF Alone
<1>. ~overlapped
     BY DEF dockerExecuteAsync, Check, Wait, Flag, doesContainerExist, ImageList, ImagePull, createContainer,
            ContainerAttach, Add, ContainerStart, Return, history
<1>. OneInCall /\ StartsNew /\ Attached /\ Followed
     BY DEF Alone
<1>. USE DEF TypeOK, Goto, InCall, BeforeStart, fields, dockerd, history
<1>0. OneInCall'
  <2>1. \A f \in Exec \ {e} : at'[f] = at[f]
        BY DEF dockerExecuteAsync, Check, Wait, Flag, doesContainerExist, ImageList, ImagePull, createContainer,
               ContainerAttach, Add, ContainerStart, Return
  <2>2. CASE Check(e)
    <3>1. \A f \in Exec \ {e} : at[f] \notin InCall
          BY <2>2 DEF Check, InProgress
    <3>. QED  BY <2>1, <3>1 DEF OneInCall
  <2>3. CASE ~Check(e)
    <3>1. at[e] \in InCall \/ at'[e] \notin InCall
          BY <2>3 DEF dockerExecuteAsync, Wait, Flag, doesContainerExist, ImageList, ImagePull, createContainer,
                      ContainerAttach, Add, ContainerStart, Return
    <3>. QED  BY <2>1, <3>1 DEF OneInCall
  <2>. QED  BY <2>2, <2>3
<1>1. CASE Check(e)
  <2>1. StartsNew'
        BY <1>1 DEF Check, OneInCall, StartsNew
  <2>2. Attached'
        BY <1>1 DEF Check, OneInCall, Attached, Follows, CutOff, Ended
  <2>3. Followed'
        BY <1>1 DEF Check, StartsNew, Attached, Followed, Follows, CutOff, Ended
  <2>. QED  BY <1>0, <2>1, <2>2, <2>3 DEF Alone
<1>2. CASE Wait(e)
  <2>1. StartsNew'
        BY <1>2 DEF Wait, OneInCall, StartsNew
  <2>2. Attached'
        BY <1>2 DEF Wait, OneInCall, Attached, Follows, CutOff, Ended
  <2>3. Followed'
        BY <1>2 DEF Wait, StartsNew, Attached, Followed, Follows, CutOff, Ended
  <2>. QED  BY <1>0, <2>1, <2>2, <2>3 DEF Alone
<1>3. CASE Flag(e)
  <2>1. StartsNew'
        BY <1>3 DEF Flag, OneInCall, StartsNew
  <2>2. Attached'
        BY <1>3 DEF Flag, OneInCall, Attached, Follows, CutOff, Ended
  <2>3. Followed'
        BY <1>3 DEF Flag, StartsNew, Attached, Followed, Follows, CutOff, Ended
  <2>. QED  BY <1>0, <2>1, <2>2, <2>3 DEF Alone
<1>4. CASE doesContainerExist(e)
  <2>1. StartsNew'
        BY <1>4 DEF doesContainerExist, OneInCall, StartsNew
  <2>2. Attached'
        BY <1>4 DEF doesContainerExist, OneInCall, Attached, Follows, CutOff, Ended
  <2>3. Followed'
        BY <1>4 DEF doesContainerExist, StartsNew, Attached, Followed, Follows, CutOff, Ended
  <2>. QED  BY <1>0, <2>1, <2>2, <2>3 DEF Alone
<1>5. CASE ImageList(e)
  <2>1. StartsNew'
        BY <1>5 DEF ImageList, OneInCall, StartsNew
  <2>2. Attached'
        BY <1>5 DEF ImageList, OneInCall, Attached, Follows, CutOff, Ended
  <2>3. Followed'
        BY <1>5 DEF ImageList, StartsNew, Attached, Followed, Follows, CutOff, Ended
  <2>. QED  BY <1>0, <2>1, <2>2, <2>3 DEF Alone
<1>6. CASE ImagePull(e)
  <2>1. StartsNew'
        BY <1>6 DEF ImagePull, OneInCall, StartsNew
  <2>2. Attached'
        BY <1>6 DEF ImagePull, OneInCall, Attached, Follows, CutOff, Ended
  <2>3. Followed'
        BY <1>6 DEF ImagePull, StartsNew, Attached, Followed, Follows, CutOff, Ended
  <2>. QED  BY <1>0, <2>1, <2>2, <2>3 DEF Alone
<1>7. CASE createContainer(e)
  <2>1. StartsNew'
        BY <1>7 DEF createContainer, OneInCall, StartsNew
  <2>2. Attached'
        BY <1>7 DEF createContainer, OneInCall, Attached, Follows, CutOff, Ended
  <2>3. Followed'
        BY <1>7 DEF createContainer, StartsNew, Attached, Followed, Follows, CutOff, Ended
  <2>. QED  BY <1>0, <2>1, <2>2, <2>3 DEF Alone
<1>8. CASE ContainerAttach(e)
  <2>1. StartsNew'
        BY <1>8 DEF ContainerAttach, OneInCall, StartsNew
  <2>2. Attached'
        BY <1>8 DEF ContainerAttach, OneInCall, Attached, Follows, CutOff, Ended
  <2>3. Followed'
        BY <1>8 DEF ContainerAttach, StartsNew, Attached, Followed, Follows, CutOff, Ended
  <2>. QED  BY <1>0, <2>1, <2>2, <2>3 DEF Alone
<1>9. CASE Add(e)
  <2>1. StartsNew'
        BY <1>9 DEF Add, OneInCall, StartsNew
  <2>2. Attached'
        BY <1>9 DEF Add, OneInCall, Attached, Follows, CutOff, Ended
  <2>3. Followed'
        BY <1>9 DEF Add, StartsNew, Attached, Followed, Follows, CutOff, Ended
  <2>. QED  BY <1>0, <2>1, <2>2, <2>3 DEF Alone
<1>10. CASE ContainerStart(e)
  <2>1. StartsNew'
        BY <1>10 DEF ContainerStart, OneInCall, StartsNew
  <2>2. Attached'
        BY <1>10 DEF ContainerStart, OneInCall, Attached, Follows, CutOff, Ended
  <2>3. Followed'
    <3>1. /\ own[e] = n /\ connection = e /\ (Follows(e) \/ Ended(n) \/ CutOff)
          /\ UNCHANGED <<go, own, stream, cut, connection, n, inherited>>
          /\ cont' = "running" => cont = "created"
          BY <1>10 DEF ContainerStart, StartsNew, Attached
    <3>2. cont = "created" => ~Ended(n)
          BY DEF Ended
    <3>3. Follows(e)' = Follows(e) /\ CutOff' = CutOff
          BY <3>1 DEF Follows, CutOff
    <3>. QED  BY <3>1, <3>2, <3>3 DEF Followed
  <2>. QED  BY <1>0, <2>1, <2>2, <2>3 DEF Alone
<1>11. CASE Return(e)
  <2>1. StartsNew'
        BY <1>11 DEF Return, OneInCall, StartsNew
  <2>2. Attached'
        BY <1>11 DEF Return, OneInCall, Attached, Follows, CutOff, Ended
  <2>3. Followed'
        BY <1>11 DEF Return, StartsNew, Attached, Followed, Follows, CutOff, Ended
  <2>. QED  BY <1>0, <2>1, <2>2, <2>3 DEF Alone
<1>. QED  BY <1>1, <1>2, <1>3, <1>4, <1>5, <1>6, <1>7, <1>8, <1>9, <1>10, <1>11 DEF dockerExecuteAsync

LEMMA AloneRestart == ASSUME TypeOK, Alone, Restart PROVE Alone'
<1>1. \A x \in Exec : at'[x] \notin InCall
      BY DEF Restart, TypeOK, InCall, BeforeStart
<1>2. ~(n' > inherited')
      BY DEF Restart, TypeOK, dockerd
<1>. QED  BY <1>1, <1>2 DEF Alone, OneInCall, StartsNew, Attached, Followed, InCall, BeforeStart

LEMMA AloneGoroutine ==
    ASSUME TypeOK, Alone, NEW e \in Exec, Goroutine(e)
    PROVE  Alone'
<1>1. CASE Restart
      BY <1>1, AloneRestart
<1>2. CASE ~Restart
  <2>1. /\ UNCHANGED <<at, own, connection, n, inherited, overlapped>>
        /\ cut \subseteq cut'
        /\ cont' = cont \/ (cont = "running" /\ cont' = "exited")
    <3>1. CASE Begin(e) \/ CopyEnds(e) \/ Done(e) \/ Tell(e) \/ Close(e)
          BY <1>2, <3>1 DEF Begin, CopyEnds, Done, Tell, Close, fields, dockerd, history
    <3>2. CASE ContainerStop(e)
          BY <3>2 DEF ContainerStop, fields, history
    <3>. QED  BY <3>1, <3>2 DEF Goroutine
  <2>2. ASSUME NEW f \in Exec, Follows(f)
        PROVE  Follows(f)' \/ Ended(n) \/ CutOff
    <3>1. CASE f = e
          BY <1>2, <2>1, <2>2, <3>1 DEF Goroutine, Begin, CopyEnds, ContainerStop, Done, Tell, Close,
                                        TypeOK, Follows, CutOff
    <3>2. CASE f # e
      <4>1. go'[f] = go[f] /\ stream'[f] = stream[f]
            BY <1>2, <3>2 DEF Goroutine, Begin, CopyEnds, ContainerStop, Done, Tell, Close, TypeOK
      <4>. QED  BY <2>1, <2>2, <4>1 DEF Follows
    <3>. QED  BY <3>1, <3>2
  <2>3. Ended(n) => Ended(n)'
        BY <2>1 DEF Ended
  <2>4. CutOff => CutOff'
        BY <2>1 DEF CutOff
  <2>5. ASSUME ~overlapped
        PROVE  OneInCall' /\ StartsNew'
        BY <2>1, <2>5 DEF Alone, OneInCall, StartsNew
  <2>6. ASSUME ~overlapped
        PROVE  Attached'
        BY <2>1, <2>2, <2>3, <2>4, <2>6 DEF Alone, Attached
  <2>7. ASSUME ~overlapped
        PROVE  Followed'
        BY <2>1, <2>2, <2>4, <2>7 DEF Alone, Followed, Ended, TypeOK
  <2>. QED  BY <2>1, <2>5, <2>6, <2>7 DEF Alone
<1>. QED  BY <1>1, <1>2

\* Requests, and dockerd by itself.
LEMMA AloneOther ==
    ASSUME TypeOK, Alone, UNCHANGED <<go, own, stream, cut, connection, n, inherited, overlapped>>,
           cont' = cont \/ cont' \in {"exited", "absent"},
           \A e \in Exec : at'[e] \in InCall => at'[e] = at[e]
    PROVE  Alone'
BY DEF Alone, OneInCall, StartsNew, Attached, Followed, Follows, CutOff, Ended, InCall, BeforeStart

LEMMA AloneStep == TypeOK /\ Alone /\ [Next]_vars => Alone'
<1>. SUFFICES ASSUME TypeOK, Alone, [Next]_vars PROVE Alone'
     OBVIOUS
<1>1. ASSUME NEW c \in Client, ClientStep(c)
      PROVE  Alone'
  <2>1. /\ UNCHANGED <<go, own, stream, cut, connection, n, inherited, overlapped>>
        /\ cont' = cont \/ cont' = "exited"
        BY <1>1 DEF ClientStep, ClientCheck, Kill, ExecuteInMainProcess, WaitForMainProcessFor, fields, dockerd, history
  <2>2. \A e \in Exec : at'[e] \in InCall => at'[e] = at[e]
        BY <1>1 DEF ClientStep, ClientCheck, Kill, ExecuteInMainProcess, WaitForMainProcessFor,
                    TypeOK, Goto, InCall, BeforeStart
  <2>. QED  BY <2>1, <2>2, AloneOther
<1>2. CASE ContainerExit \/ AutoRemove \/ UNCHANGED vars
      BY <1>2, AloneOther DEF ContainerExit, AutoRemove, vars, fields, dockerd, history
<1>. QED  BY <1>1, <1>2, AloneCall, AloneGoroutine, AloneRestart DEF Next

-----------------------------------------------------------------------------
(* What requests rely on                                                   *)

LEMMA SeenRanStep == TypeOK /\ SeenRan /\ [Next]_vars => SeenRan'
<1>. SUFFICES ASSUME TypeOK, SeenRan, [Next]_vars PROVE SeenRan'
     OBVIOUS
<1>1. CASE UNCHANGED saw /\ n' = n /\ (cont' = "created" => cont = "created")
      BY <1>1 DEF SeenRan
<1>2. ASSUME NEW e \in Exec, createContainer(e)
      PROVE  SeenRan'
      BY <1>2 DEF createContainer, SeenRan, TypeOK, dockerd
<1>3. ASSUME NEW c \in Client, ClientCheck(c)
      PROVE  SeenRan'
      BY <1>3 DEF ClientCheck, SeenRan, TypeOK, dockerd
<1>4. ASSUME NEW e \in Exec, dockerExecuteAsync(e)
      PROVE  SeenRan'
      BY <1>1, <1>2, <1>4 DEF dockerExecuteAsync, Check, Wait, Flag, doesContainerExist, ImageList, ImagePull,
                ContainerAttach, Add, ContainerStart, Return, dockerd
<1>5. ASSUME NEW e \in Exec, Goroutine(e)
      PROVE  SeenRan'
      BY <1>1, <1>5 DEF Goroutine, Begin, CopyEnds, ContainerStop, Done, Tell, Close, Restart, dockerd
<1>6. ASSUME NEW c \in Client, ClientStep(c)
      PROVE  SeenRan'
  <2>1. CASE Kill(c)
        BY <1>1, <2>1 DEF Kill
  <2>2. CASE ExecuteInMainProcess(c) \/ WaitForMainProcessFor(c)
        BY <1>1, <2>2 DEF ExecuteInMainProcess, WaitForMainProcessFor, dockerd
  <2>. QED  BY <1>3, <1>6, <2>1, <2>2 DEF ClientStep
<1>. QED  BY <1>1, <1>4, <1>5, <1>6 DEF Next, ContainerExit, AutoRemove, Restart, vars, dockerd

\* What a request saw is older than the daemon, has ended, or calls have overlapped.
Gone(c) == saw[c] <= inherited \/ Ended(saw[c]) \/ overlapped

\* When the counter is zero, or the connection is closed, the container that a
\* request saw no longer runs, or has been cut off; without one, it does not run.
LEMMA GoneOrOlder ==
    ASSUME TypeOK, Count, CutsAreLate, Alone, SeenRan, NEW c \in Client
    PROVE  /\ wg = 0 \/ connection \in cut => Gone(c) \/ Severed(saw[c])
           /\ connection = None => Gone(c)
<1>. SUFFICES ASSUME ~Gone(c)
              PROVE  /\ wg = 0 \/ connection \in cut => Severed(saw[c])
                     /\ connection # None
     OBVIOUS
<1>1. ~overlapped /\ n > inherited /\ saw[c] = n /\ cont \notin {"exited", "absent"}
      BY DEF Gone, TypeOK, Ended
<1>2. cont = "running"
      BY <1>1 DEF SeenRan, TypeOK
<1>3. /\ connection \in Exec /\ own[connection] = n
      /\ (\E e \in Exec : Follows(e)) \/ CutOff
      BY <1>1, <1>2 DEF Alone, Followed
<1>4. CutOff => Severed(n)
      BY DEF CutOff, CutsAreLate, Severed, TypeOK
<1>5. ASSUME wg = 0
      PROVE  ~\E e \in Exec : Follows(e)
      BY <1>5, CountedFinite, FS_EmptySet DEF Count, Counted, Follows
<1>6. connection \in cut => CutOff
      BY <1>3 DEF CutOff
<1>. QED  BY <1>1, <1>3, <1>4, <1>5, <1>6, DockerAssumption

\* What has been cut off stays so: its connection is not made again.
LEMMA SeveredStays ==
    ASSUME TypeOK, ToldInv, [Next]_vars, NEW k, Severed(k)
    PROVE  Severed(k)'
<1>1. PICK x \in Exec : own[x] = k /\ CutLate(x)
      BY DEF Severed
<1>2. cut \subseteq cut' /\ own'[x] = own[x] /\ \A f \in Exec : told[f] # <<>> => told'[f] # <<>>
  <2>1. ASSUME NEW e \in Exec, dockerExecuteAsync(e)
        PROVE  UNCHANGED <<cut, told>> /\ own'[x] = own[x]
    <3>1. at[x] # "attach"
          BY <1>1 DEF ToldInv, Unread, CutLate, BeforeAttach
    <3>. QED  BY <2>1, <3>1 DEF dockerExecuteAsync, Check, Wait, Flag, doesContainerExist, ImageList,
                    ImagePull, createContainer, ContainerAttach, Add, ContainerStart, Return, TypeOK
  <2>2. ASSUME NEW e \in Exec, Goroutine(e)
        PROVE  cut \subseteq cut' /\ UNCHANGED own /\ \A f \in Exec : told[f] # <<>> => told'[f] # <<>>
    <3>1. CASE Tell(e)
      <4>1. told[e] = <<>>
            BY <3>1 DEF Tell, ToldInv, GoIsOf
      <4>. QED  BY <3>1, <4>1 DEF Tell, TypeOK
    <3>2. CASE ~Tell(e)
          BY <2>2, <3>2 DEF Goroutine, Begin, CopyEnds, ContainerStop, Done, Close, Restart
    <3>. QED  BY <3>1, <3>2
  <2>3. ASSUME NEW d \in Client, ClientStep(d)
        PROVE  UNCHANGED <<cut, told, own>>
        BY <2>3 DEF ClientStep, ClientCheck, Kill, ExecuteInMainProcess, WaitForMainProcessFor
  <2>. QED  BY <2>1, <2>2, <2>3 DEF Next, ContainerExit, AutoRemove, Restart, vars
<1>. QED  BY <1>1, <1>2 DEF Severed, CutLate

\* What was gone or older stays so.
LEMMA GoneOrOlderStays ==
    ASSUME TypeOK, [Next]_vars, NEW c \in Client, at[c] # "new", Gone(c)
    PROVE  Gone(c)' \/ at'[c] = "lost"
<1>. DEFINE Onward == Onwards /\ inherited' = inherited /\ (overlapped => overlapped')
<1>1. CASE Restart
      BY <1>1 DEF Restart, TypeOK
<1>2. ASSUME ~Restart PROVE Onward
  <2>1. ASSUME NEW e \in Exec, dockerExecuteAsync(e)
        PROVE  Onward
    <3>1. CASE createContainer(e) \/ ContainerStart(e) \/ ImagePull(e)
          BY <3>1 DEF createContainer, ContainerStart, ImagePull, dockerd, history
    <3>2. CASE Check(e)
      <4>1. UNCHANGED <<n, cont, inherited>>
            BY <3>2 DEF Check, dockerd
      <4>2. overlapped => overlapped'
            BY <3>2 DEF Check
      <4>. QED  BY <4>1, <4>2
    <3>3. CASE ~(createContainer(e) \/ ContainerStart(e) \/ ImagePull(e) \/ Check(e))
      <4>. UNCHANGED <<n, cont, inherited, overlapped>>
           BY <2>1, <3>3 DEF dockerExecuteAsync, Wait, Flag, doesContainerExist, ImageList,
                             ContainerAttach, Add, Return, dockerd, history
      <4>. QED  OBVIOUS
    <3>. QED  BY <3>1, <3>2, <3>3
  <2>2. ASSUME NEW e \in Exec, Goroutine(e)
        PROVE  Onward
        BY <1>2, <2>2 DEF Goroutine, Begin, CopyEnds, ContainerStop, Done, Tell, Close, dockerd, history
  <2>3. ASSUME NEW d \in Client, ClientStep(d)
        PROVE  Onward
        BY <2>3 DEF ClientStep, ClientCheck, Kill, ExecuteInMainProcess, WaitForMainProcessFor, dockerd, history
  <2>. QED  BY <1>2, <2>1, <2>2, <2>3 DEF Next, ContainerExit, AutoRemove, vars, dockerd, history
<1>3. saw'[c] = saw[c]
  <2>1. ASSUME NEW d \in Client, ClientStep(d)
        PROVE  saw'[c] = saw[c]
        BY <2>1 DEF ClientStep, ClientCheck, Kill, ExecuteInMainProcess, WaitForMainProcessFor, TypeOK
  <2>2. ASSUME NEW e \in Exec, dockerExecuteAsync(e) \/ Goroutine(e)
        PROVE  UNCHANGED saw
        BY <2>2 DEF dockerExecuteAsync, Check, Wait, Flag, doesContainerExist, ImageList, ImagePull,
                    createContainer, ContainerAttach, Add, ContainerStart, Return,
                    Goroutine, Begin, CopyEnds, ContainerStop, Done, Tell, Close, Restart
  <2>. QED  BY <2>1, <2>2 DEF Next, ContainerExit, AutoRemove, Restart, vars
<1>4. ASSUME ~Restart, Ended(saw[c])
      PROVE  Ended(saw[c])'
  <2>1. saw[c] \in Int /\ saw[c] <= n /\ n \in Nat
        BY DEF TypeOK
  <2>. QED  BY <1>2, <1>3, <1>4, <2>1 DEF Ended
<1>. QED  BY <1>1, <1>2, <1>3, <1>4 DEF Gone

LEMMA RequestStep ==
    TypeOK /\ Count /\ ToldInv /\ WaitInv /\ [Next]_vars => WaitMeansGone' /\ InputHasConnection'
<1>. SUFFICES ASSUME TypeOK, Count, ToldInv, WaitInv, [Next]_vars, NEW c \in Client,
                     at'[c] \in {"back", "panicked", "dropped"}
              PROVE  Gone(c)' \/ (at'[c] # "panicked" /\ Severed(saw[c])')
     BY DEF WaitMeansGone, InputHasConnection, Gone
<1>. DEFINE Excused == Gone(c) \/ (at'[c] # "panicked" /\ Severed(saw[c]))
<1>1. at[c] # "new" /\ Excused
  <2>1. CASE at[c] = at'[c]
        BY <2>1 DEF WaitInv, WaitMeansGone, InputHasConnection, Gone
  <2>2. CASE at[c] # at'[c]
    <3>1. ASSUME NEW e \in Exec, dockerExecuteAsync(e) \/ Goroutine(e) \/ Restart
          PROVE  at'[c] = at[c] \/ at'[c] \notin {"back", "panicked", "dropped"}
      <4>1. ASSUME dockerExecuteAsync(e)
            PROVE  \E place \in BeforeGo \cup {"failed", "start", "return", "returned"} : Goto(e, place)
            BY <4>1 DEF dockerExecuteAsync, Check, Wait, Flag, doesContainerExist, ImageList,
                        ImagePull, createContainer, ContainerAttach, Add, ContainerStart, Return,
                        BeforeGo, BeforeAttach
      <4>2. dockerExecuteAsync(e) => at'[c] = at[c] \/ at'[c] \notin {"back", "panicked", "dropped"}
            BY <4>1 DEF TypeOK, Goto, BeforeGo, BeforeAttach
      <4>3. Goroutine(e) => at' = at \/ Restart
            BY DEF Goroutine, Begin, CopyEnds, ContainerStop, Done, Tell, Close
      <4>. QED  BY <3>1, <4>2, <4>3 DEF Restart, TypeOK
    <3>2. PICK d \in Client : ClientStep(d)
          BY <2>2, <3>1 DEF Next, ContainerExit, AutoRemove, Restart, TypeOK, vars
    <3>3. /\ at[c] # "new"
          /\ at'[c] = "back" => wg = 0
          /\ at'[c] = "panicked" => connection = None
          /\ at'[c] = "dropped" => connection \in cut
          BY <2>2, <3>2 DEF ClientStep, ClientCheck, Kill, ExecuteInMainProcess, WaitForMainProcessFor,
                            TypeOK, Goto
    <3>. QED  BY <3>3, GoneOrOlder DEF ToldInv, WaitInv
  <2>. QED  BY <2>1, <2>2
<1>2. Severed(saw[c]) => Severed(saw[c])'
  <2>1. saw'[c] = saw[c]
    <3>1. ASSUME NEW d \in Client, ClientStep(d)
          PROVE  saw'[c] = saw[c]
          BY <1>1, <3>1 DEF ClientStep, ClientCheck, Kill, ExecuteInMainProcess, WaitForMainProcessFor, TypeOK
    <3>2. ASSUME NEW e \in Exec, dockerExecuteAsync(e) \/ Goroutine(e)
          PROVE  UNCHANGED saw
          BY <3>2 DEF dockerExecuteAsync, Check, Wait, Flag, doesContainerExist, ImageList, ImagePull,
                      createContainer, ContainerAttach, Add, ContainerStart, Return,
                      Goroutine, Begin, CopyEnds, ContainerStop, Done, Tell, Close, Restart
    <3>. QED  BY <3>1, <3>2 DEF Next, ContainerExit, AutoRemove, Restart, vars
  <2>2. Severed(saw[c]) => \E x \in Exec : own'[x] = saw[c] /\ CutLate(x)'
    <3>1. ASSUME NEW k, Severed(k)
          PROVE  \E x \in Exec : own'[x] = k /\ CutLate(x)'
          BY <3>1, SeveredStays DEF Severed
    <3>. QED  BY <3>1
  <2>. QED  BY <2>1, <2>2 DEF Severed
<1>. QED  BY <1>1, <1>2, GoneOrOlderStays

-----------------------------------------------------------------------------
(* The theorems                                                            *)

IInv == TypeOK /\ Count /\ ToldInv /\ FlagMeansPull /\ WaitInv

LEMMA Inductive == Init /\ [][Next]_vars => []IInv
<1>1. Init => IInv
  <2>1. Init => FlagMeansPull
        BY DEF Init, FlagMeansPull
  <2>2. Init => SeenRan /\ WaitMeansGone /\ InputHasConnection
        BY DEF Init, SeenRan, WaitMeansGone, InputHasConnection
  <2>. QED  BY <2>1, <2>2, CountInit, ToldInit, AloneInit DEF IInv, WaitInv
<1>2. IInv /\ [Next]_vars => IInv'
      BY CountStep, ToldStep, FlagStep, AloneStep, SeenRanStep, RequestStep DEF IInv, WaitInv
<1>. QED  BY <1>1, <1>2, PTL

(* Every variable keeps its type; wg, which Go makes a panic when it goes    *)
(* below zero, counts the goroutines between Wait.Add and Wait.Done.         *)
THEOREM TypeCorrect == Spec => [](TypeOK /\ Count)
<1>1. IInv => TypeOK /\ Count
      BY DEF IInv
<1>. QED  BY <1>1, Inductive, PTL DEF Spec

(* afterExit is called at most once for a call of ExecuteAsync, and while    *)
(* the container of that call runs only after the goroutine of another call  *)
(* has closed the connection it read, however calls overlap.                 *)
THEOREM ToldCorrect == Spec => []ToldAfterEnd
<1>1. IInv => ToldAfterEnd
      BY DEF IInv, ToldInv, GoIsOf, CutsAreLate, ToldAfterEnd
<1>. QED  BY <1>1, Inductive, PTL DEF Spec

(* The image flag is up only during a pull, or after one that failed.        *)
THEOREM FlagCorrect == Spec => []FlagMeansPull
<1>1. IInv => FlagMeansPull
      BY DEF IInv
<1>. QED  BY <1>1, Inductive, PTL DEF Spec

(* While no calls of ExecuteAsync have overlapped, the end of a wait for the *)
(* main process means that the container which ran when it began has ended,  *)
(* unless the late Close of an earlier call has cut it off.                  *)
THEOREM WaitCorrect == Spec => []WaitMeansGone
<1>1. IInv => WaitMeansGone
      BY DEF IInv, WaitInv
<1>. QED  BY <1>1, Inductive, PTL DEF Spec

(* While no calls of ExecuteAsync have overlapped, a command that was sent   *)
(* to a container of this daemon which still runs finds the connection; and  *)
(* finds it open, unless the late Close of an earlier call has cut it off.   *)
THEOREM InputCorrect == Spec => []InputHasConnection
<1>1. IInv => InputHasConnection
      BY DEF IInv, WaitInv
<1>. QED  BY <1>1, Inductive, PTL DEF Spec
=============================================================================
