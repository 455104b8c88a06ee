--------------------------- MODULE RegistryProofs ---------------------------
(***************************************************************************)
(* Proofs about Registry, for any servers, requests and bounds.            *)
(***************************************************************************)
EXTENDS Registry, FiniteSetTheorems, SequenceTheorems, TLAPS

(* What is referred to is alive. *)
Live == /\ \A i \in DOMAIN allPrograms : prog[allPrograms[i]] \in Program
        /\ \A c \in Call : call[c].prg \in Object => prog[call[c].prg] \in Program
        /\ \A e \in Object : proc[e] \in Object => prog[proc[e]] \in Program

(* A request has a program, and something to write if it writes. *)
Data == \A c \in Call : /\ call[c].op \in {"create", "edit"} => call[c].data \in Value
                        /\ call[c].op # "none" => call[c].prg \in Object

TypeInv == TypeOK /\ Live /\ Data
-----------------------------------------------------------------------------
Heaps == [Object -> Program \cup {None}]

(* The collector keeps the type of the heap, and what is referred to. *)
LEMMA HeapKeeps ==
  ASSUME NEW p \in Heaps, Heap(p),
         allPrograms' \in Seq(Object), call' \in [Call -> CallRecord],
         proc' \in [Object -> Object \cup {None}],
         \A i \in DOMAIN allPrograms' : p[allPrograms'[i]] \in Program,
         \A c \in Call : call'[c].prg \in Object => p[call'[c].prg] \in Program,
         \A e \in Object : proc'[e] \in Object => p[proc'[e]] \in Program
  PROVE  prog' \in Heaps /\ Live'
<1>1. prog' \in Heaps
  BY DEF Heap, Heaps
<1>2. \A i \in DOMAIN allPrograms' : allPrograms'[i] \in Object
  OBVIOUS
<1>3. \A c \in Call : call'[c].prg \in Object \cup {None}
  BY DEF CallRecord
<1>4. Live'
  BY <1>2, <1>3 DEF Heap, Live
<1> QED BY <1>1, <1>4

LEMMA InitType == Init => TypeInv
  BY RegistryAssumption DEF Init, TypeInv, TypeOK, Live, Data, Object, Free, CallRecord, Content, NoFile, Writers

(* Beginning and answering a request. *)
LEMMA BeginType ==
  ASSUME TypeInv, NEW c \in Call, NEW op \in Writers \cup {"start"}, NEW id \in Id,
         NEW o \in Object, NEW data \in Value \cup {None},
         op \in {"create", "edit"} => data \in Value,
         Begin(c, op, id, o, data)
  PROVE  /\ call' \in [Call -> CallRecord] /\ told' \in [Id -> Value \cup {"none", "unsure"}]
         /\ Data'
         /\ \A d \in Call : call'[d].prg = IF d = c THEN o ELSE call[d].prg
<1>1. call' \in [Call -> CallRecord] /\ told' \in [Id -> Value \cup {"none", "unsure"}]
  BY DEF Begin, TypeInv, TypeOK, CallRecord, Writers
<1>2. Data'
  BY DEF Begin, TypeInv, TypeOK, Data
<1>3. \A d \in Call : call'[d].prg = IF d = c THEN o ELSE call[d].prg
  BY DEF Begin, TypeInv, TypeOK
<1> QED BY <1>1, <1>2, <1>3

LEMMA AnswerType ==
  ASSUME TypeInv, NEW c \in Call, NEW says \in Value \cup {"none", "unsure"}, Answer(c, says)
  PROVE  /\ call' \in [Call -> CallRecord] /\ told' \in [Id -> Value \cup {"none", "unsure"}]
         /\ Data'
         /\ \A d \in Call : call'[d].prg = IF d = c THEN None ELSE call[d].prg
<1>1. call' \in [Call -> CallRecord] /\ told' \in [Id -> Value \cup {"none", "unsure"}]
  BY DEF Answer, TypeInv, TypeOK, CallRecord, Writers, Free
<1>2. Data'
  BY DEF Answer, TypeInv, TypeOK, Data, Free
<1>3. \A d \in Call : call'[d].prg = IF d = c THEN None ELSE call[d].prg
  BY DEF Answer, TypeInv, TypeOK, Free
<1> QED BY <1>1, <1>2, <1>3

LEMMA GotoType ==
  ASSUME TypeInv, NEW c \in Call,
         NEW place \in {"encode", "environment", "append", "uninstall", "unlink", "save", "write"},
         Goto(c, place)
  PROVE  /\ call' \in [Call -> CallRecord] /\ told' = told
         /\ Data'
         /\ \A d \in Call : call'[d].prg = call[d].prg
<1>1. call' \in [Call -> CallRecord] /\ told' = told
  <2>1. [call[c] EXCEPT !.at = place] \in CallRecord
    <3>1. call[c] \in CallRecord
      BY DEF TypeInv, TypeOK
    <3> QED BY <3>1 DEF CallRecord
  <2> QED BY <2>1 DEF Goto, TypeInv, TypeOK
<1>2. Data'
  BY DEF Goto, TypeInv, TypeOK, Data
<1>3. \A d \in Call : call'[d].prg = call[d].prg
  BY DEF Goto, TypeInv, TypeOK
<1> QED BY <1>1, <1>2, <1>3
-----------------------------------------------------------------------------
(* Every action keeps TypeInv.  Registered programs and those of requests  *)
(* and processes are alive before it; the lemmas above say after it.       *)

LEMMA FirstType ==
  ASSUME TypeInv, NEW id, NEW i, First(id, i)
  PROVE  /\ i \in DOMAIN allPrograms /\ allPrograms[i] \in Object
         /\ prog[allPrograms[i]] \in Program /\ prog[allPrograms[i]].id = id
  BY DEF First, TypeInv, TypeOK, Live

LEMMA LoadType ==
  ASSUME TypeInv, NEW id \in Id, NEW e \in Object, Loads(id)
  PROVE  Load(id, e) \in Program /\ Load(id, e).id = id
  BY DEF Loads, Load, Program, TypeInv, TypeOK, Content

(* A step keeps TypeInv if each variable keeps its type and p, which the      *)
(* collector leaves of, has all that was alive.                                *)
LEMMA StepKeeps ==
  ASSUME TypeInv, NEW p \in Heaps, Heap(p),
         \A x \in Object : prog[x] \in Program => p[x] \in Program,
         allPrograms' \in Seq(Object), proc' \in [Object -> Object \cup {None}],
         file' \in [Id -> Content], dir' \in [Id -> BOOLEAN],
         call' \in [Call -> CallRecord], told' \in [Id -> Value \cup {"none", "unsure"}],
         daemon' \in {"up", "down", "dead"}, apart' \subseteq Id, Data',
         \A i \in DOMAIN allPrograms' : p[allPrograms'[i]] \in Program,
         \A c \in Call : call'[c].prg \in Object => p[call'[c].prg] \in Program,
         \A e \in Object : proc'[e] \in Object => p[proc'[e]] \in Program
  PROVE  TypeInv'
<1>1. prog' \in Heaps /\ Live'
  BY HeapKeeps
<1> QED BY <1>1 DEF TypeInv, TypeOK, Heaps

LEMMA HandleKeeps ==
  ASSUME TypeInv, NEW c \in Call, NEW op \in {"edit", "delete", "reload", "install", "start"},
         NEW id \in Id, NEW data \in Value \cup {None}, op = "edit" => data \in Value,
         Handle(c, op, id, data)
  PROVE  TypeInv'
<1>0. UNCHANGED <<allPrograms, proc, file, dir, daemon, apart>> /\ op \in Writers \cup {"start"}
  BY DEF Handle, disk, Writers
<1>1. ASSUME NEW o \in Object, NEW p \in Heaps, Begin(c, op, id, o, data), Heap(p),
             p[o] \in Program, \A x \in Object : prog[x] \in Program => p[x] \in Program
      PROVE  TypeInv'
  <2>1. /\ call' \in [Call -> CallRecord] /\ told' \in [Id -> Value \cup {"none", "unsure"}]
        /\ Data' /\ \A d \in Call : call'[d].prg = IF d = c THEN o ELSE call[d].prg
    BY <1>0, <1>1, BeginType
  <2>2. \A d \in Call : call'[d].prg \in Object => p[call'[d].prg] \in Program
    BY <1>1, <2>1 DEF TypeInv, Live
  <2>3. /\ \A i \in DOMAIN allPrograms' : p[allPrograms'[i]] \in Program
        /\ \A e \in Object : proc'[e] \in Object => p[proc'[e]] \in Program
    BY <1>0, <1>1 DEF TypeInv, TypeOK, Live
  <2> QED BY <1>0, <1>1, <2>1, <2>2, <2>3, StepKeeps DEF TypeInv, TypeOK
<1>2. CASE \E o \in Object : GetFromCache(id, o) /\ Begin(c, op, id, o, data) /\ Heap(prog)
  <2>1. PICK o \in Object : GetFromCache(id, o) /\ Begin(c, op, id, o, data) /\ Heap(prog)
    BY <1>2
  <2>2. prog[o] \in Program
    BY <2>1, FirstType DEF GetFromCache
  <2> QED BY <1>1, <2>1, <2>2 DEF TypeInv, TypeOK, Heaps
<1>3. CASE /\ Loads(id)
           /\ \E o, e \in Object : /\ Begin(c, op, id, o, data)
                                   /\ Heap([prog EXCEPT ![o] = Load(id, e)])
  <2>1. PICK o \in Object, e \in Object : /\ Begin(c, op, id, o, data)
                                          /\ Heap([prog EXCEPT ![o] = Load(id, e)])
    BY <1>3
  <2> DEFINE p == [prog EXCEPT ![o] = Load(id, e)]
  <2>2. Load(id, e) \in Program
    BY <1>3, LoadType
  <2>3. p \in Heaps /\ p[o] \in Program /\ \A x \in Object : prog[x] \in Program => p[x] \in Program
    BY <2>2 DEF TypeInv, TypeOK, Heaps
  <2>4. Heap(p)
    BY <2>1
  <2> HIDE DEF p
  <2> QED BY <1>1, <2>1, <2>3, <2>4
<1> QED BY <1>2, <1>3 DEF Handle

(* The rest of a step that answers, and of one that goes on.                   *)
Rest(p) == /\ Heap(p) /\ p \in Heaps
           /\ \A x \in Object : prog[x] \in Program => p[x] \in Program
           /\ UNCHANGED <<daemon, apart>>
           /\ file' \in [Id -> Content] /\ dir' \in [Id -> BOOLEAN]
           /\ proc' \in [Object -> Object \cup {None}]
           /\ \A e \in Object : proc'[e] \in Object => prog[proc'[e]] \in Program
           /\ allPrograms' \in Seq(Object)
           /\ \A i \in DOMAIN allPrograms' : prog[allPrograms'[i]] \in Program

LEMMA RestKeeps ==
  ASSUME TypeInv, NEW p, Rest(p),
         call' \in [Call -> CallRecord], told' \in [Id -> Value \cup {"none", "unsure"}], Data',
         \A d \in Call : call'[d].prg \in {call[d].prg, None} \/ prog[call'[d].prg] \in Program
  PROVE  TypeInv'
<1>1. ASSUME NEW d \in Call, call'[d].prg \in Object
      PROVE  p[call'[d].prg] \in Program
  <2>1. None \notin Object
    BY RegistryAssumption DEF Object
  <2>2. prog[call'[d].prg] \in Program
    BY <1>1, <2>1 DEF TypeInv, Live
  <2> QED BY <1>1, <2>2 DEF Rest
<1>2. /\ \A i \in DOMAIN allPrograms' : p[allPrograms'[i]] \in Program
      /\ \A e \in Object : proc'[e] \in Object => p[proc'[e]] \in Program
  BY DEF Rest
<1> QED BY <1>1, <1>2, StepKeeps DEF Rest, TypeInv, TypeOK

LEMMA AnswerKeeps ==
  ASSUME TypeInv, NEW p, Rest(p), NEW c \in Call, NEW says \in Value \cup {"none", "unsure"},
         Answer(c, says)
  PROVE  TypeInv'
  BY AnswerType, RestKeeps

LEMMA GotoKeeps ==
  ASSUME TypeInv, NEW p, Rest(p), NEW c \in Call,
         NEW place \in {"encode", "environment", "append", "uninstall", "unlink", "save", "write"},
         Goto(c, place)
  PROVE  TypeInv'
  BY GotoType, RestKeeps DEF TypeInv, TypeOK

(* What a step that leaves the heap alone needs for Rest.                      *)
LEMMA SameHeap ==
  ASSUME TypeInv, Heap(prog), UNCHANGED <<allPrograms, proc, daemon, apart>>,
         file' \in [Id -> Content], dir' \in [Id -> BOOLEAN]
  PROVE  Rest(prog)
  BY DEF Rest, Heaps, TypeInv, TypeOK, Live

LEMMA SaysType ==
  ASSUME TypeInv, NEW c \in Call
  PROVE  /\ Same(c) \in Value \cup {"none", "unsure"}
         /\ Reverted(c) \in Value \cup {"none", "unsure"}
         /\ call[c].op \in {"create", "edit"} => call[c].data \in Value
         /\ call[c].op # "none" => call[c].prg \in Object
  BY DEF Same, Reverted, TypeInv, TypeOK, CallRecord, Data

LEMMA FileType ==
  ASSUME TypeInv, NEW id
  PROVE  /\ \A new \in {NoFile, Empty, Garbage} : [file EXCEPT ![id] = new] \in [Id -> Content]
         /\ \A r \in Program : \A new \in Written(id, Plain(r)) :
               [file EXCEPT ![id] = new] \in [Id -> Content]
         /\ \A v \in Value : \A new \in Written(id, Saved(v)) :
               [file EXCEPT ![id] = new] \in [Id -> Content]
<1>1. NoFile \in Content /\ Empty \in Content /\ Garbage \in Content
  BY DEF NoFile, Empty, Garbage, Content
<1>2. (\A r \in Program : Plain(r) \in Content) /\ (\A v \in Value : Saved(v) \in Content)
  BY DEF Content, Plain, Saved, Program
<1>3. file \in [Id -> Content]
  BY DEF TypeInv, TypeOK
<1> QED BY <1>1, <1>2, <1>3 DEF Written

LEMMA LeaveType == ASSUME TypeInv, NEW id \in Id PROVE Leave(id) \in Content
<1>1. file[id] \in Content
  BY DEF TypeInv, TypeOK
<1>2. CASE Loads(id)
  BY <1>1, <1>2 DEF Leave, Loads, Content
<1>3. CASE ~Loads(id)
  BY <1>1, <1>3 DEF Leave
<1> QED BY <1>2, <1>3

(* The elements of a sequence without one.                                     *)
LEMMA WithoutIs ==
  ASSUME NEW S, NEW s \in Seq(S), NEW k \in DOMAIN s
  PROVE  /\ Without(s, k) \in Seq(S)
         /\ Len(Without(s, k)) = Len(s) - 1
         /\ \A i \in 1 .. (Len(s) - 1) : Without(s, k)[i] = IF i < k THEN s[i] ELSE s[i + 1]
<1>1. k \in 1 .. Len(s)
  OBVIOUS
<1> DEFINE a == SubSeq(s, 1, k - 1)  b == SubSeq(s, k + 1, Len(s))
<1>2. a \in Seq(S) /\ Len(a) = k - 1 /\ \A i \in 1 .. (k - 1) : a[i] = s[i]
  BY <1>1
<1>3. b \in Seq(S) /\ Len(b) = Len(s) - k /\ \A i \in 1 .. (Len(s) - k) : b[i] = s[k + i]
  BY <1>1
<1> HIDE DEF a, b
<1>3a. a \o b \in Seq(S) /\ Len(a \o b) = Len(s) - 1
  BY <1>1, <1>2, <1>3
<1>3b. ASSUME NEW i \in 1 .. (Len(s) - 1)
       PROVE  (a \o b)[i] = IF i < k THEN s[i] ELSE s[i + 1]
  <2>1. CASE i < k
    <3>1. (a \o b)[i] = a[i]
      BY <1>1, <1>2, <1>3, <2>1
    <3>2. a[i] = s[i]
      BY <1>2, <2>1
    <3> QED BY <2>1, <3>1, <3>2
  <2>2. CASE ~(i < k)
    <3>0. i >= k
      BY <1>1, <2>2
    <3>1. (a \o b)[i] = b[i - (k - 1)]
      <4>1. i \in 1 .. (Len(a) + Len(b)) /\ ~(i <= Len(a)) /\ Len(a) = k - 1
        BY <1>1, <1>2, <1>3, <3>0
      <4>2. \A j \in 1 .. (Len(a) + Len(b)) :
               (a \o b)[j] = IF j <= Len(a) THEN a[j] ELSE b[j - Len(a)]
        <5>1. a \in Seq(S) /\ b \in Seq(S)
          BY <1>2, <1>3
        <5> QED BY <5>1, ConcatProperties, Zenon
      <4>3. (a \o b)[i] = b[i - Len(a)]
        BY <4>1, <4>2, Zenon
      <4> QED BY <4>1, <4>3, Zenon
    <3>2. i - (k - 1) \in 1 .. (Len(s) - k) /\ k + (i - (k - 1)) = i + 1 /\ ~(i < k)
      BY <1>1, <3>0
    <3>3. b[i - (k - 1)] = s[k + (i - (k - 1))]
      BY <1>3, <3>2
    <3> QED BY <2>2, <3>1, <3>2, <3>3
  <2> QED BY <2>1, <2>2
<1>4. /\ a \o b \in Seq(S) /\ Len(a \o b) = Len(s) - 1
      /\ \A i \in 1 .. (Len(s) - 1) : (a \o b)[i] = IF i < k THEN s[i] ELSE s[i + 1]
  BY <1>3a, <1>3b
<1>5. Without(s, k) = a \o b
  BY DEF Without, a, b
<1> QED BY <1>4, <1>5

LEMMA CreateServerKeeps ==
  ASSUME TypeInv, NEW c \in Call, NEW id \in Id, NEW v \in Value, NEW root \in Id,
         CreateServer(c, id, v, root)
  PROVE  TypeInv'
<1>1. PICK o \in Object : /\ Begin(c, "create", id, o, v)
                         /\ Heap([prog EXCEPT ![o] = [id |-> id, env |-> None, vars |-> v, root |-> root]])
  BY DEF CreateServer
<1> DEFINE p == [prog EXCEPT ![o] = [id |-> id, env |-> None, vars |-> v, root |-> root]]
<1>2. p \in Heaps /\ p[o] \in Program /\ \A x \in Object : prog[x] \in Program => p[x] \in Program
  BY DEF TypeInv, TypeOK, Heaps, Program
<1>3. Heap(p)
  BY <1>1
<1> HIDE DEF p
<1>4. UNCHANGED <<allPrograms, proc, file, dir, daemon>>
  BY DEF CreateServer, disk
<1>4a. apart' \subseteq Id
  BY DEF CreateServer, TypeInv, TypeOK
<1>5. /\ call' \in [Call -> CallRecord] /\ told' \in [Id -> Value \cup {"none", "unsure"}]
      /\ Data' /\ \A d \in Call : call'[d].prg = IF d = c THEN o ELSE call[d].prg
  BY <1>1, BeginType DEF Writers
<1>6. \A d \in Call : call'[d].prg \in Object => p[call'[d].prg] \in Program
  BY <1>2, <1>5 DEF TypeInv, Live
<1>7. /\ \A i \in DOMAIN allPrograms' : p[allPrograms'[i]] \in Program
      /\ \A e \in Object : proc'[e] \in Object => p[proc'[e]] \in Program
  BY <1>2, <1>4 DEF TypeInv, TypeOK, Live
<1> QED BY <1>2, <1>3, <1>4, <1>4a, <1>5, <1>6, <1>7, StepKeeps DEF TypeInv, TypeOK

LEMMA CreateKeeps ==
  ASSUME TypeInv, NEW c \in Call, Create(c)
  PROVE  TypeInv'
<1>1. CASE CreateFile(c)
  <2>1. Rest(prog)
    BY <1>1, SameHeap, FileType DEF CreateFile, TypeInv, TypeOK
  <2> QED BY <1>1, <2>1, SaysType, AnswerKeeps, GotoKeeps DEF CreateFile
<1>2. CASE CreateEncode(c)
  <2>0. prog[call[c].prg] \in Program
    BY <1>2, SaysType DEF CreateEncode, At, TypeInv, Live
  <2>1. file' \in [Id -> Content]
    BY <1>2, <2>0, FileType DEF CreateEncode
  <2>2. Rest(prog)
    BY <1>2, <2>1, SameHeap DEF CreateEncode, TypeInv, TypeOK
  <2> QED BY <1>2, <2>2, SaysType, AnswerKeeps, GotoKeeps DEF CreateEncode
<1>3. CASE CreateUnknown(c)
  <2>1. Rest(prog)
    BY <1>3, SameHeap, FileType DEF CreateUnknown, TypeInv, TypeOK
  <2> QED BY <1>3, <2>1, SaysType, AnswerKeeps DEF CreateUnknown
<1>4. CASE CreateEnvironment(c)
  <2>0. UNCHANGED <<allPrograms, proc, daemon, apart>>
    BY <1>4 DEF CreateEnvironment
  <2>a. file' \in [Id -> Content]
    BY <1>4, FileType DEF CreateEnvironment, TypeInv, TypeOK
  <2>b. dir' \in [Id -> BOOLEAN]
    BY <1>4 DEF CreateEnvironment, TypeInv, TypeOK
  <2>1. UNCHANGED <<allPrograms, proc, daemon, apart>> /\ dir' \in [Id -> BOOLEAN] /\ file' \in [Id -> Content]
    BY <2>0, <2>a, <2>b
  <2>2. CASE Answer(c, "none") /\ Heap(prog)
    BY <2>1, <2>2, SameHeap, AnswerKeeps
  <2>3. ASSUME NEW e \in Object, Goto(c, "append"), Heap([prog EXCEPT ![call[c].prg].env = e])
        PROVE  TypeInv'
    <3> DEFINE p == [prog EXCEPT ![call[c].prg].env = e]
    <3>1. /\ prog \in [Object -> Program \cup {None}]
          /\ call[c].prg \in Object => prog[call[c].prg] \in Program
      BY DEF TypeInv, TypeOK, Live
    <3>2. \A r \in Program : [r EXCEPT !.env = e] \in Program
      BY DEF Program
    <3>3. p \in Heaps /\ \A x \in Object : prog[x] \in Program => p[x] \in Program
      BY <3>1, <3>2 DEF Heaps
    <3>4. Heap(p)
      BY <2>3
    <3> HIDE DEF p
    <3>5. Rest(p)
      BY <2>1, <3>3, <3>4 DEF Rest, TypeInv, TypeOK, Live
    <3> QED BY <2>3, <3>5, GotoKeeps
  <2> QED BY <1>4, <2>2, <2>3 DEF CreateEnvironment
<1>5. CASE CreateAppend(c)
  <2>1. At(c, "create", "append") /\ allPrograms' = Append(allPrograms, call[c].prg) /\ Heap(prog)
        /\ UNCHANGED <<proc, file, dir, daemon, apart>> /\ Answer(c, call[c].data)
    BY <1>5 DEF CreateAppend, disk
  <2>2. call[c].data \in Value /\ call[c].prg \in Object
    BY <2>1, SaysType DEF At
  <2>3. allPrograms' \in Seq(Object) /\ \A i \in DOMAIN allPrograms' : prog[allPrograms'[i]] \in Program
    BY <2>1, <2>2 DEF TypeInv, TypeOK, Live
  <2>4. Rest(prog)
    BY <2>1, <2>3 DEF Rest, Heaps, TypeInv, TypeOK, Live
  <2> QED BY <2>1, <2>2, <2>4, AnswerKeeps
<1> QED BY <1>1, <1>2, <1>3, <1>4, <1>5 DEF Create

LEMMA RecordType ==
  ASSUME NEW r \in CallRecord
  PROVE  /\ \A place \in {"uninstall", "write"} : [r EXCEPT !.at = place] \in CallRecord
         /\ \A o \in Object : [r EXCEPT !.prg = o] \in CallRecord
         /\ \A i \in Nat : [r EXCEPT !.index = i] \in CallRecord
         /\ \A v \in Value : [r EXCEPT !.data = v] \in CallRecord
<1>1. \A place \in {"uninstall", "write"} : [r EXCEPT !.at = place] \in CallRecord
  BY DEF CallRecord
<1>2. \A o \in Object : [r EXCEPT !.prg = o] \in CallRecord
  BY DEF CallRecord
<1>3. \A i \in Nat : [r EXCEPT !.index = i] \in CallRecord
  BY DEF CallRecord
<1>4. \A v \in Value : [r EXCEPT !.data = v] \in CallRecord
  BY DEF CallRecord
<1> QED BY <1>1, <1>2, <1>3, <1>4

LEMMA DeleteKeeps ==
  ASSUME TypeInv, NEW c \in Call, Delete(c)
  PROVE  TypeInv'
<1>1. CASE DeleteFind(c)
  <2>1. Rest(prog)
    BY <1>1, SameHeap DEF DeleteFind, disk, TypeInv, TypeOK
  <2>2. ASSUME NEW i \in DOMAIN allPrograms, At(c, "delete", "begun"), UNCHANGED told, Found(c, i)
        PROVE  TypeInv'
    <3>1. allPrograms[i] \in Object /\ prog[allPrograms[i]] \in Program /\ i \in Nat
      BY DEF TypeInv, TypeOK, Live
    <3>2. [call[c] EXCEPT !.at = "uninstall", !.prg = allPrograms[i], !.index = i] \in CallRecord
      BY <3>1, RecordType DEF TypeInv, TypeOK
    <3>3. call' = [call EXCEPT ![c] = [call[c] EXCEPT !.at = "uninstall", !.prg = allPrograms[i], !.index = i]]
      BY <2>2 DEF Found
    <3>4. call' \in [Call -> CallRecord] /\ told' \in [Id -> Value \cup {"none", "unsure"}]
      BY <2>2, <3>2, <3>3 DEF TypeInv, TypeOK
    <3>5. Data'
      BY <2>2, <3>1, <3>3 DEF Data, TypeInv, TypeOK
    <3>6. \A d \in Call : call'[d].prg \in {call[d].prg, None} \/ prog[call'[d].prg] \in Program
      BY <3>1, <3>3 DEF TypeInv, TypeOK
    <3> QED BY <2>1, <3>4, <3>5, <3>6, RestKeeps
  <2> QED BY <1>1, <2>1, <2>2, SaysType, AnswerKeeps DEF DeleteFind
<1>2. CASE Destroy(c)
  <2>1. Rest(prog)
    BY <1>2, SameHeap DEF Destroy, TypeInv, TypeOK
  <2> QED BY <1>2, <2>1, SaysType, AnswerKeeps, GotoKeeps DEF Destroy
<1>3. CASE DeleteUnlink(c)
  <2>1. allPrograms' \in Seq(Object) /\ \A i \in DOMAIN allPrograms' : prog[allPrograms'[i]] \in Program
    <3>1. CASE UNCHANGED allPrograms
      BY <3>1 DEF TypeInv, TypeOK, Live
    <3>2. CASE call[c].index \in DOMAIN allPrograms /\ allPrograms' = Without(allPrograms, call[c].index)
      <4>1. /\ allPrograms' \in Seq(Object) /\ Len(allPrograms') = Len(allPrograms) - 1
            /\ \A i \in 1 .. (Len(allPrograms) - 1) :
                  \E j \in DOMAIN allPrograms : allPrograms'[i] = allPrograms[j]
        <5>1. /\ allPrograms' \in Seq(Object) /\ Len(allPrograms') = Len(allPrograms) - 1
              /\ \A i \in 1 .. (Len(allPrograms) - 1) :
                    allPrograms'[i] = IF i < call[c].index THEN allPrograms[i] ELSE allPrograms[i + 1]
          BY <3>2, WithoutIs DEF TypeInv, TypeOK
        <5>2. ASSUME NEW i \in 1 .. (Len(allPrograms) - 1)
              PROVE  \E j \in DOMAIN allPrograms : allPrograms'[i] = allPrograms[j]
          <6>1. i \in DOMAIN allPrograms /\ i + 1 \in DOMAIN allPrograms
            BY DEF TypeInv, TypeOK
          <6>2. allPrograms'[i] = allPrograms[i] \/ allPrograms'[i] = allPrograms[i + 1]
            BY <5>1
          <6> QED BY <6>1, <6>2
        <5> QED BY <5>1, <5>2
      <4> QED BY <4>1 DEF TypeInv, TypeOK, Live
    <3> QED BY <1>3, <3>1, <3>2 DEF DeleteUnlink
  <2>2. file' \in [Id -> Content]
    <3>1. prog[call[c].prg] \in Program
      BY <1>3, SaysType DEF DeleteUnlink, At, TypeInv, Live
    <3>2. prog[call[c].prg].id \in Id
      BY <3>1 DEF Program
    <3> QED BY <1>3, <3>2, FileType, LeaveType DEF DeleteUnlink, TypeInv, TypeOK
  <2>3. Rest(prog)
    BY <1>3, <2>1, <2>2 DEF DeleteUnlink, Rest, Heaps, TypeInv, TypeOK, Live
  <2> QED BY <1>3, <2>3, AnswerKeeps DEF DeleteUnlink
<1> QED BY <1>1, <1>2, <1>3 DEF Delete

LEMMA EditKeeps ==
  ASSUME TypeInv, NEW c \in Call, Edit(c)
  PROVE  TypeInv'
<1>1. CASE EditSet(c)
  <2> DEFINE p == [prog EXCEPT ![call[c].prg].vars = call[c].data]
  <2>1. /\ prog \in [Object -> Program \cup {None}] /\ prog[call[c].prg] \in Program
        /\ call[c].data \in Value /\ call[c].prg \in Object
    BY <1>1, SaysType DEF EditSet, At, TypeInv, TypeOK, Live
  <2>2. \A r \in Program, v \in Value : [r EXCEPT !.vars = v] \in Program
    BY DEF Program
  <2>3. p \in Heaps /\ \A x \in Object : prog[x] \in Program => p[x] \in Program
    BY <2>1, <2>2 DEF Heaps
  <2>4. Heap(p) /\ UNCHANGED <<allPrograms, proc, file, dir, daemon, apart>>
    BY <1>1 DEF EditSet, disk
  <2> HIDE DEF p
  <2>5. Rest(p)
    BY <2>3, <2>4 DEF Rest, TypeInv, TypeOK, Live
  <2> QED BY <1>1, <2>5, GotoKeeps DEF EditSet
<1>2. CASE SaveTruncate(c)
  <2>1. Rest(prog)
    BY <1>2, SameHeap, FileType DEF SaveTruncate, TypeInv, TypeOK
  <2>2. ASSUME NEW o \in Object, GetFromCache(call[c].id, o), UNCHANGED told,
               call' = [call EXCEPT ![c].at = "write", ![c].data = prog[o].vars]
        PROVE  TypeInv'
    <3>1. prog[o] \in Program
      BY <2>2, FirstType DEF GetFromCache
    <3>2. prog[o].vars \in Value
      BY <3>1 DEF Program
    <3>3. [call[c] EXCEPT !.at = "write", !.data = prog[o].vars] \in CallRecord
      BY <3>2, RecordType DEF TypeInv, TypeOK
    <3>4. call' = [call EXCEPT ![c] = [call[c] EXCEPT !.at = "write", !.data = prog[o].vars]]
      BY <2>2
    <3>5. call' \in [Call -> CallRecord] /\ told' \in [Id -> Value \cup {"none", "unsure"}]
      BY <2>2, <3>3, <3>4 DEF TypeInv, TypeOK
    <3>6. Data'
      BY <3>2, <3>4 DEF Data, TypeInv, TypeOK
    <3>7. \A d \in Call : call'[d].prg \in {call[d].prg, None} \/ prog[call'[d].prg] \in Program
      BY <3>4 DEF TypeInv, TypeOK
    <3> QED BY <2>1, <3>5, <3>6, <3>7, RestKeeps
  <2> QED BY <1>2, <2>1, <2>2, SaysType, AnswerKeeps DEF SaveTruncate
<1>3. CASE SaveWrite(c)
  <2>1. call[c].data \in Value
    BY <1>3, SaysType DEF SaveWrite, At
  <2>2. file' \in [Id -> Content]
    BY <1>3, <2>1, FileType DEF SaveWrite
  <2>3. Rest(prog)
    BY <1>3, <2>2, SameHeap DEF SaveWrite, TypeInv, TypeOK
  <2> QED BY <1>3, <2>1, <2>3, AnswerKeeps DEF SaveWrite
<1> QED BY <1>1, <1>2, <1>3 DEF Edit

LEMMA ReloadKeeps ==
  ASSUME TypeInv, NEW c \in Call, Reload(c)
  PROVE  TypeInv'
<1>0. UNCHANGED <<allPrograms, proc, file, dir, daemon, apart>> /\ Answer(c, Same(c)) /\ At(c, "reload", "begun")
  BY DEF Reload, disk
<1>1. CASE Heap(prog)
  <2>1. Rest(prog)
    BY <1>0, <1>1, SameHeap DEF TypeInv, TypeOK
  <2> QED BY <1>0, <2>1, SaysType, AnswerKeeps
<1>2. ASSUME NEW o \in Object, NEW e \in Object, GetFromCache(call[c].id, o), Loads(call[c].id),
             Heap([prog EXCEPT ![o] = Load(call[c].id, e)])
      PROVE  TypeInv'
  <2> DEFINE p == [prog EXCEPT ![o] = Load(call[c].id, e)]
  <2>1. prog[o] \in Program /\ prog[o].id = call[c].id
    BY <1>2, FirstType DEF GetFromCache
  <2>2. Load(call[c].id, e) \in Program
    <3>1. call[c].id \in Id
      BY <2>1 DEF Program
    <3> QED BY <1>2, <3>1, LoadType
  <2>3. p \in Heaps /\ \A x \in Object : prog[x] \in Program => p[x] \in Program
    BY <2>2 DEF Heaps, TypeInv, TypeOK
  <2>4. Heap(p)
    BY <1>2
  <2> HIDE DEF p
  <2>5. Rest(p)
    BY <1>0, <2>3, <2>4 DEF Rest, TypeInv, TypeOK, Live
  <2> QED BY <1>0, <2>5, SaysType, AnswerKeeps
<1> QED BY <1>1, <1>2 DEF Reload

LEMMA InstallKeeps ==
  ASSUME TypeInv, NEW c \in Call, Install(c)
  PROVE  TypeInv'
<1>1. Rest(prog)
  BY SameHeap DEF Install, TypeInv, TypeOK
<1> QED BY <1>1, SaysType, AnswerKeeps DEF Install

LEMMA StartKeeps ==
  ASSUME TypeInv, NEW c \in Call, Start(c)
  PROVE  TypeInv'
<1>1. call[c].prg \in Object /\ prog[call[c].prg] \in Program
  BY SaysType DEF Start, At, TypeInv, Live
<1>2. /\ proc' \in [Object -> Object \cup {None}]
      /\ \A e \in Object : proc'[e] \in Object => prog[proc'[e]] \in Program
  BY <1>1 DEF Start, TypeInv, TypeOK, Live
<1>3. Rest(prog)
  BY <1>2 DEF Start, disk, Rest, Heaps, TypeInv, TypeOK, Live
<1> QED BY <1>3, SaysType, AnswerKeeps DEF Start

LEMMA ExitKeeps ==
  ASSUME TypeInv, NEW e \in Object, Exit(e)
  PROVE  TypeInv'
<1>0. UNCHANGED <<allPrograms, file, dir, daemon, apart>> /\ Heap(prog)
      /\ proc' = [proc EXCEPT ![e] = None] /\ None \notin Object
  BY RegistryAssumption DEF Exit, disk, Object
<1>1. /\ proc' \in [Object -> Object \cup {None}]
      /\ \A f \in Object : proc'[f] \in Object => prog[proc'[f]] \in Program
  BY <1>0 DEF TypeInv, TypeOK, Live
<1>2. Rest(prog)
  BY <1>0, <1>1 DEF Rest, Heaps, TypeInv, TypeOK, Live
<1>3. CASE UNCHANGED <<call, told>>
  BY <1>2, <1>3, RestKeeps DEF TypeInv, TypeOK, Data
<1>4. ASSUME NEW c \in Call, Begin(c, "start", prog[proc[e]].id, proc[e], None)
      PROVE  TypeInv'
  <2>1. proc[e] \in Object /\ prog[proc[e]] \in Program
    BY DEF Exit, TypeInv, TypeOK, Live
  <2>2. prog[proc[e]].id \in Id
    BY <2>1 DEF Program
  <2>3. /\ call' \in [Call -> CallRecord] /\ told' \in [Id -> Value \cup {"none", "unsure"}]
        /\ Data' /\ \A d \in Call : call'[d].prg = IF d = c THEN proc[e] ELSE call[d].prg
    BY <1>4, <2>1, <2>2, BeginType
  <2> QED BY <1>2, <2>1, <2>3, RestKeeps
<1> QED BY <1>3, <1>4 DEF Exit

LEMMA CrashKeeps == TypeInv /\ Crash => TypeInv'
<1> SUFFICES ASSUME TypeInv, Crash PROVE TypeInv'
  OBVIOUS
<1>1. None \notin Object
  BY RegistryAssumption DEF Object
<1>2. allPrograms' = <<>> /\ proc' = [e \in Object |-> None] /\ call' = [c \in Call |-> Free]
      /\ daemon' = "down" /\ UNCHANGED <<file, dir, told, apart>> /\ Heap(prog)
  BY DEF Crash, disk
<1>3. Free \in CallRecord
  BY DEF Free, CallRecord
<1>4. Data' /\ call' \in [Call -> CallRecord]
  BY <1>2, <1>3 DEF Data, Free
<1>5. \A c \in Call : call'[c].prg = None
  BY <1>2 DEF Free
<1> QED BY <1>1, <1>2, <1>4, <1>5, StepKeeps DEF Heaps, TypeInv, TypeOK

-----------------------------------------------------------------------------
(* A daemon that is not up holds nothing in memory.                            *)
Quiet == daemon # "up" => /\ allPrograms = <<>>
                          /\ \A c \in Call : call[c] = Free
                          /\ \A e \in Object : proc[e] = None

LEMMA UpStays ==
  ASSUME NEW c \in Call, Request(c) \/ Step(c)
  PROVE  daemon = "up" /\ daemon' = "up"
<1>1. CASE Request(c)
  BY <1>1 DEF Request, CreateServer, Handle
<1>2. CASE Create(c)
  BY <1>2 DEF Create, CreateFile, CreateEncode, CreateUnknown, CreateEnvironment, CreateAppend, At
<1>3. CASE Delete(c)
  BY <1>3 DEF Delete, DeleteFind, Destroy, DeleteUnlink, At
<1>4. CASE Edit(c)
  BY <1>4 DEF Edit, EditSet, SaveTruncate, SaveWrite, At
<1>5. CASE Reload(c) \/ Install(c) \/ Start(c)
  BY <1>5 DEF Reload, Install, Start, At
<1> QED BY <1>1, <1>2, <1>3, <1>4, <1>5 DEF Step

LEMMA QuietKeeps == Quiet /\ [Next]_vars => Quiet'
<1> SUFFICES ASSUME Quiet, [Next]_vars PROVE Quiet'
  OBVIOUS
<1>1. CASE \E c \in Call : Request(c) \/ Step(c)
  BY <1>1, UpStays DEF Quiet
<1>2. CASE \E e \in Object : Exit(e)
  BY <1>2 DEF Quiet, Exit
<1>3. CASE Crash
  BY <1>3 DEF Quiet, Crash
<1>4. CASE LoadFromFolder
  BY <1>4 DEF Quiet, LoadFromFolder
<1>5. CASE UNCHANGED vars
  BY <1>5 DEF Quiet, vars
<1> QED BY <1>1, <1>2, <1>3, <1>4, <1>5 DEF Next

LEMMA LoadFromFolderKeeps == TypeInv /\ Quiet /\ LoadFromFolder => TypeInv'
<1> SUFFICES ASSUME TypeInv, Quiet, LoadFromFolder PROVE TypeInv'
  OBVIOUS
<1>0. UNCHANGED <<proc, file, dir, call, told, apart>> /\ None \notin Object /\ daemon = "down"
  BY RegistryAssumption DEF LoadFromFolder, disk, Object
<1>1. CASE daemon' = "dead" /\ UNCHANGED <<allPrograms, prog>>
  BY <1>0, <1>1 DEF TypeInv, TypeOK, Live, Data
<1>2. CASE ~ \E id \in Id : file[id] = Empty
  <2> DEFINE loaded == {id \in Id : Loads(id)}
             n == Cardinality(loaded)
  <2>1. n \in Nat
    BY RegistryAssumption, FS_Subset, FS_CardinalityType
  <2>2. n <= Slots /\ daemon' = "up"
    BY <1>2 DEF LoadFromFolder
  <2>3. PICK order \in [1 .. n -> loaded] :
           /\ allPrograms' = [i \in 1 .. n |-> i]
           /\ prog' = [o \in Object |-> IF o <= n THEN Load(order[o], o) ELSE None]
    BY <1>2 DEF LoadFromFolder
  <2>3a. \A id \in loaded : id \in Id /\ Loads(id)
    OBVIOUS
  <2> HIDE DEF n, loaded
  <2>4. \A o \in 1 .. n : o \in Object /\ order[o] \in loaded
    BY <2>1, <2>2, <2>3, RegistryAssumption DEF Object
  <2>5. \A o \in 1 .. n : Load(order[o], o) \in Program
    BY <2>3a, <2>4, LoadType
  <2>6. allPrograms' \in Seq(Object)
    BY <2>1, <2>3, <2>4
  <2>7. prog' \in Heaps
    <3>1. \A o \in Object : o <= n => o \in 1 .. n
      BY <2>1, RegistryAssumption DEF Object
    <3> QED BY <2>3, <2>5, <3>1 DEF Heaps
  <2>8. \A i \in DOMAIN allPrograms' : prog'[allPrograms'[i]] \in Program
    <3>1. \A i \in 1 .. n : prog'[i] = Load(order[i], i)
      BY <2>1, <2>3, <2>4
    <3> QED BY <2>3, <2>5, <3>1
  <2>9. Live' /\ Data'
    BY <1>0, <2>8 DEF Live, Data, Quiet, Free
  <2> QED BY <1>0, <2>2, <2>6, <2>7, <2>9 DEF TypeInv, TypeOK, Heaps
<1> QED BY <1>1, <1>2 DEF LoadFromFolder

LEMMA NextKeeps == TypeInv /\ Quiet /\ [Next]_vars => TypeInv'
<1> SUFFICES ASSUME TypeInv, Quiet, [Next]_vars PROVE TypeInv'
  OBVIOUS
<1>1. ASSUME NEW c \in Call, Request(c) PROVE TypeInv'
  <2>1. PICK id \in Id : \/ \E v \in Value, root \in Id : CreateServer(c, id, v, root)
                         \/ \E v \in Value : Handle(c, "edit", id, v)
                         \/ \E op \in {"delete", "reload", "install", "start"} : Handle(c, op, id, None)
    BY <1>1 DEF Request, Value
  <2> QED BY <2>1, CreateServerKeeps, HandleKeeps
<1>2. ASSUME NEW c \in Call, Step(c) PROVE TypeInv'
  BY <1>2, CreateKeeps, DeleteKeeps, EditKeeps, ReloadKeeps, InstallKeeps, StartKeeps DEF Step
<1>3. CASE UNCHANGED vars
  BY <1>3 DEF vars, disk, TypeInv, TypeOK, Live, Data
<1> QED BY <1>1, <1>2, <1>3, ExitKeeps, CrashKeeps, LoadFromFolderKeeps DEF Next

(* Every variable has its type, and nothing that the slice, a request or a     *)
(* running process refers to is ever collected or nil.                         *)
THEOREM TypeInvariant == Spec => [](TypeInv /\ Quiet)
<1>1. Init => TypeInv /\ Quiet
  BY InitType DEF Init, Quiet
<1>2. TypeInv /\ Quiet /\ [Next]_vars => (TypeInv /\ Quiet)'
  BY NextKeeps, QuietKeeps
<1> QED BY <1>1, <1>2, PTL DEF Spec

THEOREM TypeCorrect == Spec => []TypeOK
<1>1. TypeInv => TypeOK
  BY DEF TypeInv
<1> QED BY <1>1, TypeInvariant, PTL
-----------------------------------------------------------------------------
(* A request in the middle of Delete still has the right index, if no other    *)
(* Delete has one.                                                             *)
Deleting(c) == call[c].op = "delete" /\ call[c].at \in {"uninstall", "unlink"}

IndexInv == /\ \A c \in Call : Deleting(c) => call[c].index # 0
            /\ \A c \in Call : call[c].index # 0 =>
                  /\ Deleting(c)
                  /\ call[c].index \in DOMAIN allPrograms
                  /\ prog[allPrograms[call[c].index]].id = call[c].id
                  /\ \A d \in Call : call[d].index # 0 => d = c

(* No step of a daemon that is up gives a program another id.                  *)
IdsKept == \A o \in Object : prog[o] \in Program /\ prog'[o] \in Program => prog'[o].id = prog[o].id

LEMMA HeapIds ==
  ASSUME TypeInv, NEW p \in Heaps, Heap(p),
         \A o \in Object : prog[o] \in Program => p[o].id = prog[o].id
  PROVE  IdsKept
  BY RegistryAssumption DEF Heap, IdsKept, Heaps, TypeInv, TypeOK

LEMMA NewIds ==
  ASSUME TypeInv, NEW o \in Object, NEW r \in Program, Heap([prog EXCEPT ![o] = r]),
         prog[o] = None \/ prog[o].id = r.id
  PROVE  IdsKept
<1> DEFINE p == [prog EXCEPT ![o] = r]
<1>1. p \in Heaps /\ \A x \in Object : prog[x] \in Program => p[x].id = prog[x].id
  BY RegistryAssumption DEF Heaps, TypeInv, TypeOK
<1>2. Heap(p)
  OBVIOUS
<1> HIDE DEF p
<1> QED BY <1>1, <1>2, HeapIds

LEMMA OldIds == ASSUME TypeInv, Heap(prog) PROVE IdsKept
  BY HeapIds DEF Heaps, TypeInv, TypeOK

LEMMA StepIds ==
  ASSUME TypeInv, NEW c \in Call, Request(c) \/ Step(c)
  PROVE  IdsKept
<1>1. ASSUME NEW id \in Id, NEW v \in Value, NEW root \in Id, CreateServer(c, id, v, root)
      PROVE  IdsKept
  <2>1. PICK o \in Object : /\ FreshProgram(o)
                            /\ Heap([prog EXCEPT ![o] = [id |-> id, env |-> None, vars |-> v, root |-> root]])
    BY <1>1 DEF CreateServer
  <2>2. [id |-> id, env |-> None, vars |-> v, root |-> root] \in Program
    BY DEF Program
  <2> QED BY <2>1, <2>2, NewIds DEF FreshProgram
<1>2. ASSUME NEW id \in Id, NEW op, NEW data, Handle(c, op, id, data) PROVE IdsKept
  <2>1. CASE Heap(prog)
    BY <2>1, OldIds
  <2>2. ASSUME NEW o \in Object, NEW e \in Object, Loads(id), FreshProgram(o),
               Heap([prog EXCEPT ![o] = Load(id, e)])
        PROVE  IdsKept
    BY <2>2, LoadType, NewIds DEF FreshProgram
  <2> QED BY <1>2, <2>1, <2>2 DEF Handle
<1>3. CASE Request(c)
  BY <1>1, <1>2, <1>3 DEF Request, Value
<1>4. CASE CreateEnvironment(c)
  <2>1. ASSUME NEW e \in Object, Heap([prog EXCEPT ![call[c].prg].env = e]) PROVE IdsKept
    <3>1. call[c].prg \in Object /\ prog[call[c].prg] \in Program
      BY <1>4, SaysType DEF CreateEnvironment, At, TypeInv, Live
    <3> DEFINE r == [prog[call[c].prg] EXCEPT !.env = e]
    <3>2. r \in Program /\ r.id = prog[call[c].prg].id
      BY <3>1 DEF Program
    <3>3. Heap([prog EXCEPT ![call[c].prg] = r])
      BY <2>1
    <3> HIDE DEF r
    <3> QED BY <3>1, <3>2, <3>3, NewIds
  <2> QED BY <1>4, <2>1, OldIds DEF CreateEnvironment
<1>5. CASE Create(c) /\ ~CreateEnvironment(c)
  BY <1>5, OldIds DEF Create, CreateFile, CreateEncode, CreateUnknown, CreateAppend
<1>6. CASE Delete(c)
  BY <1>6, OldIds DEF Delete, DeleteFind, Destroy, DeleteUnlink
<1>7. CASE EditSet(c)
  <2>1. call[c].prg \in Object /\ prog[call[c].prg] \in Program /\ call[c].data \in Value
    BY <1>7, SaysType DEF EditSet, At, TypeInv, Live
  <2> DEFINE r == [prog[call[c].prg] EXCEPT !.vars = call[c].data]
  <2>2. r \in Program /\ r.id = prog[call[c].prg].id
    BY <2>1 DEF Program
  <2>3. Heap([prog EXCEPT ![call[c].prg] = r])
    BY <1>7 DEF EditSet
  <2> HIDE DEF r
  <2> QED BY <2>1, <2>2, <2>3, NewIds
<1>8. CASE SaveTruncate(c) \/ SaveWrite(c)
  BY <1>8, OldIds DEF SaveTruncate, SaveWrite
<1>9. CASE Reload(c)
  <2>1. ASSUME NEW o \in Object, NEW e \in Object, GetFromCache(call[c].id, o), Loads(call[c].id),
               Heap([prog EXCEPT ![o] = Load(call[c].id, e)])
        PROVE  IdsKept
    <3>1. prog[o] \in Program /\ prog[o].id = call[c].id
      BY <2>1, FirstType DEF GetFromCache
    <3>2. call[c].id \in Id
      BY <3>1 DEF Program
    <3> QED BY <2>1, <3>1, <3>2, LoadType, NewIds
  <2> QED BY <1>9, <2>1, OldIds DEF Reload
<1>10. CASE Install(c) \/ Start(c)
  BY <1>10, OldIds DEF Install, Start
<1> QED BY <1>3, <1>4, <1>5, <1>6, <1>7, <1>8, <1>9, <1>10 DEF Step, Edit

(* A step that keeps the entries up to the index, and the index, of every      *)
(* request but c, keeps IndexInv.                                              *)
LEMMA IndexFrame ==
  ASSUME TypeInv, TypeInv', IndexInv, IdsKept,
         \A i \in DOMAIN allPrograms : i \in DOMAIN allPrograms' /\ allPrograms'[i] = allPrograms[i],
         \A d \in Call : \/ call'[d].index = 0 /\ ~Deleting(d)'
                        \/ /\ call'[d].index = call[d].index /\ call'[d].id = call[d].id
                           /\ Deleting(d)' <=> Deleting(d)
  PROVE  IndexInv'
<1>1. \A d \in Call : Deleting(d)' => call'[d].index # 0
  BY DEF IndexInv
<1>2. ASSUME NEW d \in Call, call'[d].index # 0
      PROVE  /\ Deleting(d)' /\ call'[d].index \in DOMAIN allPrograms'
             /\ prog'[allPrograms'[call'[d].index]].id = call'[d].id
             /\ \A f \in Call : call'[f].index # 0 => f = d
  <2>1. /\ call'[d].index = call[d].index /\ call[d].index # 0 /\ Deleting(d)'
        /\ \A f \in Call : call'[f].index # 0 => call[f].index # 0
    BY <1>2 DEF IndexInv
  <2> DEFINE k == call[d].index
             o == allPrograms[k]
  <2>2. k \in DOMAIN allPrograms' /\ allPrograms'[k] = o /\ prog[o].id = call[d].id
        /\ call'[d].id = call[d].id
    BY <1>2, <2>1 DEF IndexInv
  <2>3. o \in Object /\ prog[o] \in Program
    BY <2>1 DEF IndexInv, TypeInv, TypeOK, Live
  <2>4. prog'[o] \in Program
    BY <2>2 DEF TypeInv, Live
  <2>5. prog'[o].id = prog[o].id
    BY <2>3, <2>4 DEF IdsKept
  <2> HIDE DEF o, k
  <2>6. \A f \in Call : call'[f].index # 0 => f = d
    BY <2>1 DEF IndexInv
  <2> QED BY <2>1, <2>2, <2>5, <2>6 DEF k
<1> QED BY <1>1, <1>2 DEF IndexInv

(* What Begin, Answer and Goto do to the index of a request.                   *)
LEMMA BeginIndex ==
  ASSUME TypeInv, IndexInv, NEW c \in Call, NEW op, NEW id, NEW o, NEW data, Begin(c, op, id, o, data)
  PROVE  \A d \in Call : \/ call'[d].index = 0 /\ ~Deleting(d)'
                        \/ /\ call'[d].index = call[d].index /\ call'[d].id = call[d].id
                           /\ Deleting(d)' <=> Deleting(d)
  BY DEF Begin, Deleting, TypeInv, TypeOK

LEMMA AnswerIndex ==
  ASSUME TypeInv, NEW c \in Call, NEW says, Answer(c, says)
  PROVE  \A d \in Call : \/ call'[d].index = 0 /\ ~Deleting(d)'
                        \/ /\ call'[d].index = call[d].index /\ call'[d].id = call[d].id
                           /\ Deleting(d)' <=> Deleting(d)
  BY DEF Answer, Deleting, Free, TypeInv, TypeOK

LEMMA GotoIndex ==
  ASSUME TypeInv, NEW c \in Call, NEW place, Goto(c, place),
         \/ call[c].op # "delete"
         \/ call[c].at \in {"uninstall", "unlink"} /\ place \in {"uninstall", "unlink"}
  PROVE  \A d \in Call : \/ call'[d].index = 0 /\ ~Deleting(d)'
                        \/ /\ call'[d].index = call[d].index /\ call'[d].id = call[d].id
                           /\ Deleting(d)' <=> Deleting(d)
  BY DEF Goto, Deleting, TypeInv, TypeOK

LEMMA IndexRequest ==
  ASSUME TypeInv, TypeInv', IndexInv, IdsKept, NEW c \in Call, Request(c)
  PROVE  IndexInv'
<1>1. UNCHANGED allPrograms
  BY DEF Request, CreateServer, Handle
<1>2. \E op, id, o, data : Begin(c, op, id, o, data)
  BY DEF Request, CreateServer, Handle
<1> QED BY <1>1, <1>2, BeginIndex, IndexFrame

LEMMA IndexCreate ==
  ASSUME TypeInv, TypeInv', IndexInv, IdsKept, NEW c \in Call, Create(c)
  PROVE  IndexInv'
<1>1. call[c].op = "create"
  BY DEF Create, CreateFile, CreateEncode, CreateUnknown, CreateEnvironment, CreateAppend, At
<1>2. (\E says : Answer(c, says)) \/ (\E place : Goto(c, place))
  BY DEF Create, CreateFile, CreateEncode, CreateUnknown, CreateEnvironment, CreateAppend
<1>3. \A i \in DOMAIN allPrograms : i \in DOMAIN allPrograms' /\ allPrograms'[i] = allPrograms[i]
  <2>1. CASE UNCHANGED allPrograms
    BY <2>1
  <2>2. CASE CreateAppend(c)
    BY <2>2, SaysType DEF CreateAppend, TypeInv, TypeOK
  <2> QED BY <2>1, <2>2 DEF Create, CreateFile, CreateEncode, CreateUnknown, CreateEnvironment
<1> QED BY <1>1, <1>2, <1>3, AnswerIndex, GotoIndex, IndexFrame

LEMMA IndexOther ==
  ASSUME TypeInv, TypeInv', IndexInv, IdsKept, NEW c \in Call,
         Edit(c) \/ Reload(c) \/ Install(c) \/ Start(c)
  PROVE  IndexInv'
<1>1. UNCHANGED allPrograms /\ call[c].op # "delete"
  BY DEF Edit, EditSet, SaveTruncate, SaveWrite, Reload, Install, Start, At
<1>2. CASE (\E says : Answer(c, says)) \/ (\E place : Goto(c, place))
  BY <1>1, <1>2, AnswerIndex, GotoIndex, IndexFrame
<1>3. ASSUME NEW v, call' = [call EXCEPT ![c].at = "write", ![c].data = v]
      PROVE  IndexInv'
  <2>1. \A d \in Call : /\ call'[d].index = call[d].index /\ call'[d].id = call[d].id
                        /\ Deleting(d)' <=> Deleting(d)
    BY <1>1, <1>3 DEF Deleting, TypeInv, TypeOK
  <2> QED BY <1>1, <2>1, IndexFrame
<1> QED BY <1>2, <1>3 DEF Edit, EditSet, SaveTruncate, SaveWrite, Reload, Install, Start

LEMMA IndexDelete ==
  ASSUME Overlap = FALSE, TypeInv, TypeInv', IndexInv, IdsKept, NEW c \in Call, Delete(c)
  PROVE  IndexInv'
<1>1. CASE DeleteFind(c)
  <2>0. UNCHANGED allPrograms /\ \A d \in Call : call[d].index = 0 /\ ~Deleting(d)
    BY <1>1 DEF DeleteFind, IndexInv
  <2>1. ASSUME NEW says, Answer(c, says) PROVE IndexInv'
    BY <2>0, <2>1, AnswerIndex, IndexFrame
  <2>2. ASSUME NEW i \in DOMAIN allPrograms, First(call[c].id, i), Found(c, i)
        PROVE  IndexInv'
    <3>1. \A d \in Call : IF d = c THEN /\ call'[d].index = i /\ call'[d].id = call[c].id
                                         /\ call'[d].at = "uninstall" /\ call'[d].op = "delete"
                           ELSE call'[d] = call[d]
      <4>0. call \in [Call -> CallRecord]
        BY DEF TypeInv, TypeOK
      <4>1. call[c].op = "delete" /\ call \in [Call -> CallRecord]
        BY <1>1, <4>0 DEF DeleteFind, At
      <4>2. call[c] \in CallRecord
        BY <4>1
      <4>3. call'[c] = [call[c] EXCEPT !.at = "uninstall", !.prg = allPrograms[i], !.index = i]
        BY <2>2, <4>1 DEF Found
      <4>4. \A d \in Call : d # c => call'[d] = call[d]
        BY <2>2, <4>1 DEF Found
      <4>5. DOMAIN call[c] = {"op", "at", "id", "prg", "index", "data", "was"}
        BY <4>2 DEF CallRecord
      <4>6. /\ call'[c].index = i /\ call'[c].id = call[c].id
            /\ call'[c].at = "uninstall" /\ call'[c].op = "delete"
        BY <4>1, <4>3, <4>5
      <4> QED BY <4>4, <4>6
    <3>2. /\ allPrograms[i] \in Object /\ prog[allPrograms[i]] \in Program
          /\ prog[allPrograms[i]].id = call[c].id /\ i # 0
      BY <2>2, FirstType DEF TypeInv, TypeOK
    <3>3. prog'[allPrograms[i]] \in Program
      BY <2>0 DEF TypeInv, Live
    <3>4. prog'[allPrograms[i]].id = call[c].id
      BY <3>2, <3>3 DEF IdsKept
    <3>5. \A d \in Call : d # c => call'[d].index = 0 /\ ~Deleting(d)'
      BY <2>0, <3>1 DEF Deleting
    <3>6. Deleting(c)' /\ call'[c].index = i /\ i # 0 /\ allPrograms' = allPrograms
      BY <2>0, <3>1, <3>2 DEF Deleting
    <3>7. prog'[allPrograms'[call'[c].index]].id = call'[c].id /\ call'[c].index \in DOMAIN allPrograms'
      BY <3>1, <3>4, <3>6
    <3>8. \A d \in Call : (call'[d].index # 0 => d = c) /\ (Deleting(d)' => d = c)
      BY <3>5
    <3> QED BY <3>6, <3>7, <3>8 DEF IndexInv
  <2> QED BY <1>1, <2>1, <2>2 DEF DeleteFind
<1>2. CASE Destroy(c)
  BY <1>2, AnswerIndex, GotoIndex, IndexFrame DEF Destroy, At
<1>3. CASE DeleteUnlink(c)
  <2>1. call[c].index # 0 /\ \E says : Answer(c, says)
    BY <1>3 DEF DeleteUnlink, At, IndexInv, Deleting
  <2>2. \A d \in Call : d # c => call[d].index = 0 /\ ~Deleting(d)
    BY <2>1 DEF IndexInv
  <2>3. \A d \in Call : call'[d].index = 0 /\ ~Deleting(d)'
    BY <2>1, <2>2 DEF Answer, Free, Deleting, TypeInv, TypeOK
  <2> QED BY <2>3 DEF IndexInv
<1> QED BY <1>1, <1>2, <1>3 DEF Delete

LEMMA IndexStep ==
  ASSUME Overlap = FALSE
  PROVE  TypeInv /\ Quiet /\ IndexInv /\ [Next]_vars => IndexInv'
<1> SUFFICES ASSUME TypeInv, Quiet, IndexInv, [Next]_vars PROVE IndexInv'
  OBVIOUS
<1>0. TypeInv'
  BY NextKeeps
<1>1. ASSUME NEW c \in Call, Request(c) \/ Step(c) PROVE IndexInv'
  BY <1>0, <1>1, StepIds, IndexRequest, IndexCreate, IndexDelete, IndexOther DEF Step
<1>2. ASSUME NEW e \in Object, Exit(e) PROVE IndexInv'
  <2>1. UNCHANGED allPrograms /\ IdsKept
    BY <1>2, OldIds DEF Exit
  <2>2. CASE UNCHANGED <<call, told>>
    BY <1>0, <2>1, <2>2, IndexFrame DEF Deleting
  <2>3. CASE \E c \in Call : Begin(c, "start", prog[proc[e]].id, proc[e], None)
    BY <1>0, <2>1, <2>3, BeginIndex, IndexFrame
  <2> QED BY <1>2, <2>2, <2>3 DEF Exit
<1>3. CASE Crash
  BY <1>3 DEF Crash, IndexInv, Deleting, Free
<1>4. CASE LoadFromFolder
  <2>1. \A c \in Call : call'[c].index = 0 /\ ~Deleting(c)'
    BY <1>4 DEF LoadFromFolder, Quiet, Free, Deleting
  <2> QED BY <2>1 DEF IndexInv
<1>5. CASE UNCHANGED vars
  BY <1>5 DEF vars, IndexInv, Deleting
<1> QED BY <1>1, <1>2, <1>3, <1>4, <1>5 DEF Next

(* One step loses no entry but the one a Delete removes.                       *)
LEMMA KeptStep ==
  ASSUME TypeInv, Quiet, IndexInv, [Next]_vars, NEW o \in Registered, daemon' = "up"
  PROVE  \/ \E i \in DOMAIN allPrograms' : allPrograms'[i] = o
         \/ \E c \in Call : At(c, "delete", "unlink") /\ call[c].id = prog[o].id
<1>0. PICK k \in DOMAIN allPrograms : allPrograms[k] = o
  BY DEF Registered
<1>1. CASE UNCHANGED allPrograms
  BY <1>0, <1>1
<1>2. ASSUME NEW c \in Call, CreateAppend(c)
      PROVE  \E i \in DOMAIN allPrograms' : allPrograms'[i] = o
  BY <1>0, <1>2, SaysType DEF CreateAppend, TypeInv, TypeOK
<1>3. ASSUME NEW c \in Call, DeleteUnlink(c), ~UNCHANGED allPrograms, prog[o].id # call[c].id
      PROVE  \E i \in DOMAIN allPrograms' : allPrograms'[i] = o
  <2>1. /\ call[c].index \in DOMAIN allPrograms /\ allPrograms' = Without(allPrograms, call[c].index)
        /\ At(c, "delete", "unlink")
    BY <1>3 DEF DeleteUnlink
  <2>2. call[c].index # 0 /\ prog[allPrograms[call[c].index]].id = call[c].id
    BY <2>1 DEF At, IndexInv, Deleting
  <2>3. k # call[c].index
    BY <1>0, <1>3, <2>2
  <2>4. /\ allPrograms' \in Seq(Object) /\ Len(allPrograms') = Len(allPrograms) - 1
        /\ \A i \in 1 .. (Len(allPrograms) - 1) :
              allPrograms'[i] = IF i < call[c].index THEN allPrograms[i] ELSE allPrograms[i + 1]
    BY <2>1, WithoutIs DEF TypeInv, TypeOK
  <2>5. call[c].index \in 1 .. Len(allPrograms) /\ k \in 1 .. Len(allPrograms) /\ Len(allPrograms) \in Nat
    BY <1>0, <2>1 DEF TypeInv, TypeOK
  <2>6. CASE k < call[c].index
    <3>1. k \in 1 .. (Len(allPrograms) - 1)
      BY <2>5, <2>6
    <3> QED BY <1>0, <2>4, <2>6, <3>1
  <2>7. CASE ~(k < call[c].index)
    <3>1. /\ k - 1 \in 1 .. (Len(allPrograms) - 1) /\ ~(k - 1 < call[c].index) /\ (k - 1) + 1 = k
      BY <2>3, <2>5, <2>7
    <3>2. allPrograms'[k - 1] = o
      BY <1>0, <2>4, <3>1
    <3> QED BY <2>4, <3>1, <3>2
  <2> QED BY <2>6, <2>7
<1>4. CASE \E c \in Call : Request(c)
  <2>1. UNCHANGED allPrograms
    BY <1>4 DEF Request, CreateServer, Handle
  <2> QED BY <1>1, <2>1
<1>5. ASSUME NEW c \in Call, Step(c)
      PROVE  UNCHANGED allPrograms \/ CreateAppend(c) \/ DeleteUnlink(c)
  BY <1>5 DEF Step, Create, CreateFile, CreateEncode, CreateUnknown, CreateEnvironment, Delete,
              DeleteFind, Destroy, Edit, EditSet, SaveTruncate, SaveWrite, Reload, Install, Start
<1>6. CASE \E c \in Call : Step(c)
  BY <1>1, <1>2, <1>3, <1>5, <1>6 DEF DeleteUnlink
<1>7. CASE Crash
  BY <1>7 DEF Crash
<1>8. CASE LoadFromFolder
  BY <1>0, <1>8 DEF LoadFromFolder, Quiet
<1>9. CASE (\E e \in Object : Exit(e)) \/ UNCHANGED vars
  <2>1. UNCHANGED allPrograms
    BY <1>9 DEF Exit, vars
  <2> QED BY <1>1, <2>1
<1> QED BY <1>4, <1>6, <1>7, <1>8, <1>9 DEF Next

(* If Deletes do not overlap, a program leaves allPrograms only by a Delete of *)
(* its own server, whatever other requests run and however often the daemon is *)
(* killed.                                                                     *)
THEOREM KeptCorrect ==
  ASSUME Overlap = FALSE
  PROVE  Spec => Kept
<1>1. Init => IndexInv
  BY DEF Init, IndexInv, Deleting, Free
<1>2. TypeInv /\ Quiet /\ IndexInv /\ [Next]_vars => IndexInv'
  BY IndexStep
<1>3. TypeInv /\ Quiet /\ IndexInv /\ [Next]_vars =>
        [\A o \in Registered : daemon' = "up" =>
              \/ \E i \in DOMAIN allPrograms' : allPrograms'[i] = o
              \/ \E c \in Call : At(c, "delete", "unlink") /\ call[c].id = prog[o].id]_vars
  BY KeptStep
<1> QED BY <1>1, <1>2, <1>3, TypeInvariant, PTL DEF Spec, Kept
-----------------------------------------------------------------------------
(* The directories of others: a program that works in one, or whose file says  *)
(* so, has been created with that root.                                        *)
Own(id, root) == root = id \/ {id, root} \subseteq apart

RootsInv == /\ \A o \in Object : prog[o] \in Program => Own(prog[o].id, prog[o].root)
            /\ \A id \in Id : Loads(id) => Own(id, file[id].root)

(* What is true of a server, while no request for it changes anything.         *)
Contents(id) == {prog[allPrograms[i]].vars : i \in Entries(id)}

Clear(id) == dir[id] => id \in apart

Fact(id, says) ==
    /\ says = "none" => \/ file[id].kind = "left"
                        \/ file[id] = NoFile /\ Clear(id) /\ Contents(id) = {}
    /\ says \in Value => /\ file[id].vars = says
                         /\ daemon = "up" => /\ Contents(id) \subseteq {says}
                                             /\ Loads(id) => Contents(id) # {}

Unique == \A i, j \in DOMAIN allPrograms : prog[allPrograms[i]].id = prog[allPrograms[j]].id => i = j

Writing(c) == call[c].op \in Writers

(* What is true of it while a request changes it: what the answer has said     *)
(* before, until the request has an effect; then the effect.                   *)
Stage(c) ==
    LET id == call[c].id  at == call[c].at  was == call[c].was  data == call[c].data IN
    /\ call[c].op # "create" /\ was = "none" => at = "write" \/ file[id].kind = "left"
    /\ call[c].op = "create" => prog[call[c].prg].vars = data
    /\ call[c].op = "create" /\ at \in {"begun", "encode", "environment"} => (was = "none" => Clear(id))
    /\ call[c].op = "delete" /\ at = "begun" => Contents(id) # {} \/ file[id].kind = "left"
    /\ at \in {"begun", "uninstall"} => Fact(id, was)
    /\ at \in {"encode", "environment", "append"} => Contents(id) = {}
    /\ at = "encode" => file[id] = Empty
    /\ at \in {"environment", "append"} => file[id].kind = "plain" /\ file[id].vars = data
    /\ at = "unlink" => Clear(id)
    /\ at = "save" => (Contents(id) = {} => Fact(id, was))
    /\ at = "write" => file[id] = Empty /\ Contents(id) \subseteq {data}

Owner(c) == /\ call[c].id \in Id /\ told[call[c].id] = "unsure"
            /\ prog[call[c].prg].id = call[c].id
            /\ \A d \in Call : Writing(d) /\ call[d].id = call[c].id => d = c

(* A file that loads is that of an entry, unless a Delete has left it or a     *)
(* Create is about to append the entry.                                        *)
Whole(id) == daemon = "up" /\ file[id].kind = "plain" => Contents(id) # {}

Appending(c) == Writing(c) /\ call[c].at \in {"environment", "append"}

AnswersInv == /\ Unique
              /\ \A id \in Id : Fact(id, told[id])
              /\ \A c \in Call : Writing(c) => Owner(c) /\ Stage(c)
              /\ \A id \in Id : Whole(id) \/ \E c \in Call : Appending(c) /\ call[c].id = id
              /\ daemon = "dead" => \E id \in Id : file[id] = Empty

(* A server nothing is done to.                                                *)
LEMMA FactFrame ==
  ASSUME NEW id, NEW says, Fact(id, says), UNCHANGED daemon,
         file'[id] = file[id], Clear(id) => Clear(id)', Contents(id)' = Contents(id)
  PROVE  Fact(id, says)'
  BY DEF Fact, Loads

LEMMA StageFrame ==
  ASSUME NEW d \in Call, Stage(d), NEW id, id = call[d].id, UNCHANGED daemon, call'[d] = call[d],
         file'[id] = file[id], Clear(id) => Clear(id)', Contents(id)' = Contents(id),
         call[d].op = "create" => prog'[call[d].prg].vars = prog[call[d].prg].vars
  PROVE  Stage(d)'
<1>1. PICK r : r = call[d]
  OBVIOUS
<1>2. /\ r.op # "create" /\ r.was = "none" => r.at = "write" \/ file[id].kind = "left"
      /\ r.op = "create" => prog[r.prg].vars = r.data
      /\ r.op = "create" /\ r.at \in {"begun", "encode", "environment"} => (r.was = "none" => Clear(id))
      /\ r.op = "delete" /\ r.at = "begun" => Contents(id) # {} \/ file[id].kind = "left"
      /\ r.at \in {"begun", "uninstall"} => Fact(id, r.was)
      /\ r.at \in {"encode", "environment", "append"} => Contents(id) = {}
      /\ r.at = "encode" => file[id] = Empty
      /\ r.at \in {"environment", "append"} => file[id].kind = "plain" /\ file[id].vars = r.data
      /\ r.at = "unlink" => Clear(id)
      /\ r.at = "save" => (Contents(id) = {} => Fact(id, r.was))
      /\ r.at = "write" => file[id] = Empty /\ Contents(id) \subseteq {r.data}
  BY <1>1 DEF Stage
<1>3. /\ r.at \in {"begun", "uninstall"} => Fact(id, r.was)'
      /\ r.at = "save" => (Contents(id) = {} => Fact(id, r.was)')
  BY <1>2, FactFrame
<1>4. call'[d] = r /\ id = r.id
  BY <1>1
<1> QED BY <1>2, <1>3, <1>4 DEF Stage

(* The collector leaves what is referred to as the step has made it.           *)
LEMMA HeapAlive ==
  ASSUME TypeInv', NEW p, Heap(p)
  PROVE  /\ \A i \in DOMAIN allPrograms' : prog'[allPrograms'[i]] = p[allPrograms'[i]]
         /\ \A c \in Call : call'[c].prg \in Object => prog'[call'[c].prg] = p[call'[c].prg]
  BY DEF Heap, TypeInv, TypeOK

(* A step that changes programs of the servers of X only: one, or none.        *)
Only(p, X) == \A o \in Object : prog[o] \in Program =>
                 p[o].id = prog[o].id /\ (prog[o].id \notin X => p[o].vars = prog[o].vars)

Untouched(id) == file'[id] = file[id] /\ (Clear(id) => Clear(id)') /\ Contents(id)' = Contents(id)

Touch(X, p) == /\ Heap(p) /\ Only(p, X) /\ daemon = "up" /\ daemon' = "up" /\ Unique'
               /\ \A y \in Id \ X : Untouched(y)

(* A request c for the server of X has gone on, and the others have not.       *)
LEMMA TouchKeeps ==
  ASSUME TypeInv, TypeInv', AnswersInv, NEW c, NEW X \in SUBSET Id, NEW p, Touch(X, p),
         \A d \in Call \ {c} : call'[d] = call[d] /\ (Writing(d) => call[d].id \notin X),
         \A y \in Id \ X : told'[y] = told[y],
         \A x \in X : Fact(x, told[x])',
         \A x \in X : Whole(x)' \/ (c \in Call /\ Appending(c)' /\ call'[c].id = x),
         c \in Call /\ Appending(c) => call[c].id \in X,
         c \in Call /\ Writing(c)' => /\ call'[c].id \in X /\ told'[call'[c].id] = "unsure"
                                      /\ prog'[call'[c].prg].id = call'[c].id /\ Stage(c)'
  PROVE  AnswersInv'
<1>1. ASSUME NEW y \in Id PROVE Fact(y, told[y])'
  <2>1. CASE y \in X
    BY <2>1
  <2>2. CASE y \notin X
    <3>1. PICK says : says = told[y] /\ says = told'[y]
      BY <2>2
    <3>2. Fact(y, says)'
      BY <2>2, <3>1, FactFrame DEF AnswersInv, Touch, Untouched
    <3> QED BY <3>1, <3>2
  <2> QED BY <2>1, <2>2
<1>2. ASSUME NEW d \in Call \ {c}, Writing(d)
      PROVE  /\ Stage(d)' /\ call'[d].id = call[d].id /\ call[d].id \in Id \ X
             /\ told'[call[d].id] = "unsure" /\ prog'[call'[d].prg].id = call[d].id
  <2>1. call[d].prg \in Object /\ prog[call[d].prg] \in Program /\ call'[d] = call[d]
    BY <1>2 DEF TypeInv, Data, Live, Writing, Writers
  <2>2. PICK y \in Id \ X : y = call[d].id
    BY <1>2 DEF AnswersInv, Owner
  <2>3. told[y] = "unsure" /\ prog[call[d].prg].id = y /\ Stage(d)
    BY <1>2, <2>2 DEF AnswersInv, Owner
  <2>4. prog'[call'[d].prg] = p[call[d].prg]
    BY <2>1, HeapAlive DEF Touch
  <2>5. prog'[call[d].prg].id = y /\ prog'[call[d].prg].vars = prog[call[d].prg].vars
    BY <2>1, <2>2, <2>3, <2>4 DEF Touch, Only
  <2>6. Stage(d)'
    BY <2>1, <2>2, <2>3, <2>5, StageFrame DEF Touch, Untouched
  <2> QED BY <2>1, <2>2, <2>3, <2>5, <2>6
<1>3. \A d \in Call \ {c} : Writing(d)' <=> Writing(d)
  BY DEF Writing
<1>4. ASSUME NEW d \in Call, Writing(d)' PROVE Owner(d)' /\ Stage(d)'
  <2>1. \A f \in Call \ {c} : \A g \in Call \ {c} :
           Writing(f)' /\ Writing(g)' /\ call'[f].id = call'[g].id => f = g
    BY <1>2, <1>3 DEF AnswersInv, Owner
  <2>2. \A f \in Call \ {c} : Writing(f)' => call'[f].id \notin X
    BY <1>2, <1>3
  <2>3. CASE d = c
    BY <1>4, <2>2, <2>3 DEF Owner
  <2>4. CASE d # c
    <3>1. Stage(d)' /\ call'[d].id \in Id /\ told'[call'[d].id] = "unsure" /\ prog'[call'[d].prg].id = call'[d].id
      BY <1>2, <1>3, <1>4, <2>4
    <3>2. \A f \in Call : Writing(f)' /\ call'[f].id = call'[d].id => f = d
      BY <1>4, <2>1, <2>2, <2>4
    <3> QED BY <3>1, <3>2 DEF Owner
  <2> QED BY <2>3, <2>4
<1>5. Unique' /\ daemon' = "up"
  BY DEF Touch
<1>6. ASSUME NEW y \in Id PROVE Whole(y)' \/ \E d \in Call : Appending(d)' /\ call'[d].id = y
  <2>1. CASE y \in X
    BY <2>1
  <2>2. CASE y \notin X /\ Whole(y)
    BY <2>2 DEF Touch, Untouched, Whole
  <2>3. ASSUME NEW d \in Call, Appending(d), call[d].id = y, y \notin X
        PROVE  \E f \in Call : Appending(f)' /\ call'[f].id = y
    <3>1. d # c
      BY <2>3
    <3>2. call'[d] = call[d]
      BY <3>1
    <3> QED BY <2>3, <3>2 DEF Appending, Writing
  <2> QED BY <2>1, <2>2, <2>3 DEF AnswersInv
<1> QED BY <1>1, <1>4, <1>5, <1>6 DEF AnswersInv

(* What a request leaves of the file and the entry of its server.              *)
LEMMA WholeKeeps ==
  ASSUME AnswersInv, NEW c \in Call, Writing(c), ~Appending(c), NEW x, x = call[c].id,
         daemon = "up", file'[x] = file[x], Contents(x)' = {} => Contents(x) = {}
  PROVE  Whole(x)'
<1>1. x \in Id /\ \A d \in Call : Writing(d) /\ call[d].id = x => d = c
  BY DEF AnswersInv, Owner
<1>2. Whole(x)
  BY <1>1 DEF AnswersInv, Appending
<1> QED BY <1>2 DEF Whole

(* A step that leaves the slice alone.                                         *)
LEMMA SameSlice ==
  ASSUME TypeInv, TypeInv', Unique, UNCHANGED allPrograms, NEW X, NEW p, Heap(p), Only(p, X)
  PROVE  /\ Unique'
         /\ \A y \in Id : y \notin X \/ (\A i \in DOMAIN allPrograms : p[allPrograms[i]].vars = prog[allPrograms[i]].vars)
               => Contents(y)' = Contents(y)
<1>1. \A i \in DOMAIN allPrograms : allPrograms[i] \in Object /\ prog[allPrograms[i]] \in Program
  BY DEF TypeInv, TypeOK, Live
<1>2. \A i \in DOMAIN allPrograms : /\ prog'[allPrograms'[i]].id = prog[allPrograms[i]].id
                                     /\ prog'[allPrograms'[i]].vars = p[allPrograms[i]].vars
  BY <1>1, HeapAlive DEF Only
<1>3. Unique'
  BY <1>2 DEF Unique
<1>4. ASSUME NEW y \in Id,
             y \notin X \/ (\A i \in DOMAIN allPrograms : p[allPrograms[i]].vars = prog[allPrograms[i]].vars)
      PROVE  Contents(y)' = Contents(y)
  <2>1. Entries(y)' = Entries(y)
    BY <1>2 DEF Entries
  <2>2. \A i \in Entries(y) : prog'[allPrograms'[i]].vars = prog[allPrograms[i]].vars
    BY <1>1, <1>2, <1>4 DEF Entries, Only
  <2> QED BY <2>1, <2>2 DEF Contents
<1> QED BY <1>3, <1>4

(* One call changes, on a server that no other request is changing.            *)
LEMMA AnswerFact ==
  ASSUME TypeInv, TypeInv', AnswersInv, NEW c \in Call, Writing(c), NEW x, x = call[c].id,
         NEW p, Touch({x}, p), NEW says, Answer(c, says), Fact(x, says)', Whole(x)'
  PROVE  AnswersInv'
<1>1. x \in Id /\ \A d \in Call \ {c} : Writing(d) => call[d].id # x
  BY DEF AnswersInv, Owner
<1>2. /\ \A d \in Call \ {c} : call'[d] = call[d]
      /\ call'[c].op = "none"
  BY DEF Answer, Free, TypeInv, TypeOK
<1>3. told'[x] = says /\ \A y \in Id \ {x} : told'[y] = told[y]
  BY <1>1 DEF Answer, Writing, TypeInv, TypeOK
<1>4. ~Writing(c)' /\ Fact(x, told[x])'
  BY <1>2, <1>3 DEF Writing, Writers
<1>5. /\ {x} \in SUBSET Id /\ \A d \in Call \ {c} : call'[d] = call[d] /\ (Writing(d) => call[d].id \notin {x})
      /\ \A y \in Id \ {x} : told'[y] = told[y]
      /\ \A y \in {x} : Fact(y, told[y])'
  BY <1>1, <1>2, <1>3, <1>4
<1>6. call[c].id \in {x} /\ \A y \in {x} : Whole(y)'
  OBVIOUS
<1> QED BY <1>4, <1>5, <1>6, TouchKeeps

LEMMA UnsureFact == ASSUME NEW id PROVE Fact(id, "unsure") /\ Fact(id, "unsure")'
  BY RegistryAssumption DEF Fact

LEMMA GoOn ==
  ASSUME TypeInv, TypeInv', AnswersInv, NEW c \in Call, Writing(c), NEW x, x = call[c].id,
         NEW p, Touch({x}, p), UNCHANGED told, \A d \in Call \ {c} : call'[d] = call[d],
         call'[c].id = x, prog'[call'[c].prg].id = x, Stage(c)', Whole(x)' \/ Appending(c)'
  PROVE  AnswersInv'
<1>1. x \in Id /\ told[x] = "unsure" /\ \A d \in Call \ {c} : Writing(d) => call[d].id # x
  BY DEF AnswersInv, Owner
<1>2. Fact(x, told[x])'
  BY <1>1, UnsureFact
<1>3. call[c].id \in {x} /\ \A y \in {x} : Whole(y)' \/ (Appending(c)' /\ call'[c].id = y)
  OBVIOUS
<1> QED BY <1>1, <1>2, <1>3, TouchKeeps

LEMMA BeginFact ==
  ASSUME Overlap = FALSE, TypeInv, TypeInv', AnswersInv,
         NEW c \in Call, NEW op \in Writers, NEW x \in Id, NEW o \in Object, NEW data, NEW p,
         Begin(c, op, x, o, data), Touch({x}, p), Untouched(x), p[o].id = x, call[c].at = "idle",
         IF op = "create" THEN p[o].vars = data /\ (told[x] = "none" => Clear(x))
                          ELSE (Contents(x) # {} \/ Loads(x)) /\ (told[x] = "none" => file[x].kind = "left")
  PROVE  AnswersInv'
<1>1. PICK w : w = told[x]
  OBVIOUS
<1>2. PICK r : r = [op |-> op, at |-> "begun", id |-> x, prg |-> o, index |-> 0, data |-> data, was |-> w]
  OBVIOUS
<1>3. /\ call'[c] = r /\ told'[x] = "unsure"
      /\ \A d \in Call \ {c} : call'[d] = call[d]
      /\ \A y \in Id \ {x} : told'[y] = told[y]
  BY <1>1, <1>2 DEF Begin, TypeInv, TypeOK
<1>4. \A d \in Call : Writing(d) => call[d].id # x
  BY DEF Begin, Busy, Writing
<1>5. prog'[o] = p[o]
  BY <1>2, <1>3, HeapAlive DEF Touch
<1>6. Fact(x, w)'
  BY <1>1, FactFrame DEF AnswersInv, Touch, Untouched
<1>6a. Whole(x) /\ Whole(x)'
  <2>1. Whole(x)
    BY <1>4 DEF AnswersInv, Appending
  <2> QED BY <2>1 DEF Touch, Untouched, Whole
<1>6b. op = "delete" => Contents(x)' # {} \/ file'[x].kind = "left"
  BY <1>6a DEF Whole, Loads, Touch, Untouched
<1>6c. IF op = "create" THEN p[o].vars = data /\ (w = "none" => Clear(x)')
                        ELSE w = "none" => file'[x].kind = "left"
  BY <1>1 DEF Untouched
<1>7. Stage(c)'
  BY <1>2, <1>3, <1>5, <1>6, <1>6b, <1>6c DEF Stage
<1>8. /\ {x} \in SUBSET Id /\ \A d \in Call \ {c} : call'[d] = call[d] /\ (Writing(d) => call[d].id \notin {x})
      /\ \A y \in Id \ {x} : told'[y] = told[y]
      /\ \A y \in {x} : Fact(y, told[y])'
  BY <1>3, <1>4, UnsureFact
<1>9. call'[c].id = x /\ prog'[call'[c].prg].id = x
  BY <1>2, <1>3, <1>5
<1>10. ~Appending(c) /\ \A y \in {x} : Whole(y)'
  BY <1>6a DEF Appending
<1> QED BY <1>3, <1>7, <1>8, <1>9, <1>10, TouchKeeps

(* A step that changes no server.                                              *)
LEMMA ReadKeeps ==
  ASSUME TypeInv, TypeInv', AnswersInv, NEW c, NEW p, Heap(p), Only(p, {}),
         UNCHANGED <<allPrograms, file, dir, told, apart>>, daemon = "up", daemon' = "up",
         \A d \in Call \ {c} : call'[d] = call[d], c \in Call => ~Writing(c)' /\ ~Appending(c)
  PROVE  AnswersInv'
<1>1. Unique' /\ \A y \in Id : Contents(y)' = Contents(y)
  BY SameSlice DEF AnswersInv
<1>2. Touch({}, p)
  BY <1>1 DEF Touch, Untouched, Clear
<1>3. {} \in SUBSET Id /\ \A y \in Id \ {} : told'[y] = told[y]
  OBVIOUS
<1> QED BY <1>2, <1>3, TouchKeeps

(* The slice and the heap as they were, and a file or a directory of x changed. *)
LEMMA TouchSame ==
  ASSUME TypeInv, TypeInv', AnswersInv, NEW x, NEW p, Heap(p), Only(p, {x}),
         UNCHANGED allPrograms, daemon = "up", daemon' = "up",
         \A y \in Id \ {x} : file'[y] = file[y] /\ (Clear(y) => Clear(y)')
  PROVE  Touch({x}, p)
<1>1. Unique' /\ \A y \in Id \ {x} : Contents(y)' = Contents(y)
  BY SameSlice DEF AnswersInv
<1> QED BY <1>1 DEF Touch, Untouched

(* A request makes or removes the directory its program works in: the server's *)
(* own, or one of servers that are not told apart.                             *)
LEMMA SameDir ==
  ASSUME UNCHANGED <<dir, apart>>, NEW y
  PROVE  Clear(y)' <=> Clear(y)
  BY DEF Clear

LEMMA RootDir ==
  ASSUME TypeInv, RootsInv, NEW o \in Object, prog[o] \in Program, NEW x, prog[o].id = x,
         NEW b \in BOOLEAN, dir' = [dir EXCEPT ![prog[o].root] = b], UNCHANGED apart
  PROVE  /\ \A y \in Id \ {x} : Clear(y) => Clear(y)'
         /\ b = FALSE => Clear(x)'
<1>1. PICK z \in Id : z = prog[o].root
  BY DEF Program
<1>2. dir \in [Id -> BOOLEAN] /\ x \in Id
  BY DEF TypeInv, TypeOK, Program
<1>3. z = x \/ {x, z} \subseteq apart
  BY <1>1 DEF RootsInv, Own
<1>4. dir'[z] = b /\ \A y \in Id \ {z} : dir'[y] = dir[y]
  BY <1>1, <1>2
<1>5. ASSUME NEW y \in Id \ {x} PROVE Clear(y) => Clear(y)'
  BY <1>3, <1>4, <1>5 DEF Clear
<1>6. b = FALSE => Clear(x)'
  BY <1>3, <1>4 DEF Clear
<1> QED BY <1>5, <1>6

LEMMA OnlySame == ASSUME NEW X PROVE Only(prog, X)
  BY DEF Only

LEMMA SameContents ==
  ASSUME TypeInv, TypeInv', AnswersInv, Heap(prog), UNCHANGED allPrograms, NEW x \in Id
  PROVE  Contents(x)' = Contents(x)
  BY OnlySame, SameSlice DEF AnswersInv

(* The search finds an entry if there is one: there is never more than one.    *)
LEMMA CachedIs ==
  ASSUME TypeInv, Unique, NEW id
  PROVE  Cached(id) <=> Contents(id) # {}
<1>1. ASSUME NEW i \in Entries(id) PROVE First(id, i)
  <2>1. i \in DOMAIN allPrograms /\ prog[allPrograms[i]].id = id
    BY <1>1 DEF Entries
  <2>2. \A j \in 1 .. (i - 1) : j \in DOMAIN allPrograms /\ j # i
    BY <2>1 DEF TypeInv, TypeOK
  <2> QED BY <2>1, <2>2 DEF First, Unique
<1>2. ASSUME NEW i \in DOMAIN allPrograms, First(id, i) PROVE i \in Entries(id)
  BY <1>2 DEF First, Entries
<1> QED BY <1>1, <1>2 DEF Cached, Contents, Entries

LEMMA CreateServerTrue ==
  ASSUME Overlap = FALSE, TypeInv, TypeInv', AnswersInv,
         NEW c \in Call, NEW id \in Id, NEW v \in Value, NEW root \in Id,
         CreateServer(c, id, v, root)
  PROVE  AnswersInv'
<1>1. PICK o \in Object : /\ FreshProgram(o) /\ Begin(c, "create", id, o, v)
                         /\ Heap([prog EXCEPT ![o] = [id |-> id, env |-> None, vars |-> v, root |-> root]])
  BY DEF CreateServer
<1>2. PICK p : p = [prog EXCEPT ![o] = [id |-> id, env |-> None, vars |-> v, root |-> root]]
  OBVIOUS
<1>3. prog[o] = None /\ None \notin Program /\ prog \in [Object -> Program \cup {None}]
  BY <1>1, RegistryAssumption DEF FreshProgram, TypeInv, TypeOK
<1>4. /\ p[o].id = id /\ p[o].vars = v /\ Heap(p)
      /\ \A x \in Object : prog[x] \in Program => p[x] = prog[x]
  BY <1>1, <1>2, <1>3
<1>5. Only(p, {}) /\ Only(p, {id})
  BY <1>4 DEF Only
<1>6. UNCHANGED <<allPrograms, file, dir>> /\ daemon = "up" /\ daemon' = "up" /\ call[c].at = "idle"
  BY DEF CreateServer, disk
<1>6a. \A y \in Id : Clear(y) => Clear(y)'
  BY <1>6 DEF CreateServer, Clear
<1>6b. told[id] = "none" => Clear(id)
  <2>1. ~Loads(id)
    BY DEF CreateServer
  <2> QED BY <2>1 DEF AnswersInv, Fact, Loads
<1>7. Touch({id}, p) /\ Untouched(id)
  <2>1. Contents(id)' = Contents(id)
    BY <1>4, <1>5, <1>6, SameSlice DEF AnswersInv
  <2> QED BY <1>4, <1>5, <1>6, <1>6a, <2>1, TouchSame DEF Untouched
<1> QED BY <1>1, <1>4, <1>6, <1>6b, <1>7, BeginFact DEF Writers

LEMMA HandleTrue ==
  ASSUME Overlap = FALSE, TypeInv, TypeInv', AnswersInv,
         NEW c \in Call, NEW op \in {"edit", "delete", "reload", "install", "start"},
         NEW id \in Id, NEW data, Handle(c, op, id, data)
  PROVE  AnswersInv'
<1>0. UNCHANGED <<allPrograms, file, dir, apart>> /\ daemon = "up" /\ daemon' = "up" /\ call[c].at = "idle"
  BY DEF Handle, disk
<1>1. /\ Contents(id) # {} \/ Loads(id)
      /\ told[id] = "none" => file[id].kind = "left"
  <2>1. Cached(id) \/ Loads(id)
    BY DEF Handle, Cached, GetFromCache
  <2>2. Contents(id) # {} \/ Loads(id)
    BY <2>1, CachedIs DEF AnswersInv
  <2> QED BY <2>2 DEF AnswersInv, Fact, Loads, NoFile
<1>2. \E o \in Object : \E p : /\ Begin(c, op, id, o, data) /\ Heap(p) /\ p[o].id = id
                               /\ Only(p, {}) /\ Only(p, {id})
  <2>1. CASE \E o \in Object : GetFromCache(id, o) /\ Begin(c, op, id, o, data) /\ Heap(prog)
    BY <2>1, OnlySame, FirstType DEF GetFromCache
  <2>2. ASSUME Loads(id), NEW o \in Object, NEW e \in Object, FreshProgram(o),
               Begin(c, op, id, o, data), Heap([prog EXCEPT ![o] = Load(id, e)])
        PROVE  \E q \in Object : \E p : /\ Begin(c, op, id, q, data) /\ Heap(p) /\ p[q].id = id
                                       /\ Only(p, {}) /\ Only(p, {id})
    <3>1. PICK p : p = [prog EXCEPT ![o] = Load(id, e)]
      OBVIOUS
    <3>2. prog[o] = None /\ None \notin Program /\ prog \in [Object -> Program \cup {None}]
      BY <2>2, RegistryAssumption DEF FreshProgram, TypeInv, TypeOK
    <3>3. p[o].id = id /\ \A x \in Object : prog[x] \in Program => p[x] = prog[x]
      BY <2>2, <3>1, <3>2, LoadType
    <3>4. Only(p, {}) /\ Only(p, {id})
      BY <3>3 DEF Only
    <3> QED BY <2>2, <3>1, <3>3, <3>4
  <2> QED BY <2>1, <2>2 DEF Handle
<1>2a. PICK o \in Object : \E p : /\ Begin(c, op, id, o, data) /\ Heap(p) /\ p[o].id = id
                                  /\ Only(p, {}) /\ Only(p, {id})
  BY <1>2
<1>2b. PICK p : /\ Begin(c, op, id, o, data) /\ Heap(p) /\ p[o].id = id
                /\ Only(p, {}) /\ Only(p, {id})
  BY <1>2a
<1>3. CASE op = "start"
  <2>1. told' = told /\ call'[c].op = "start" /\ \A d \in Call \ {c} : call'[d] = call[d]
    BY <1>2b, <1>3 DEF Begin, Writers, TypeInv, TypeOK
  <2> QED BY <1>0, <1>2b, <2>1, ReadKeeps DEF Writing, Appending, Writers
<1>4. CASE op # "start"
  <2>1. Touch({id}, p) /\ Untouched(id)
    <3>1. Contents(id)' = Contents(id)
      BY <1>0, <1>2b, SameSlice DEF AnswersInv
    <3> QED BY <1>0, <1>2b, <3>1, TouchSame, SameDir DEF Untouched
  <2> QED BY <1>0, <1>1, <1>2b, <1>4, <2>1, BeginFact DEF Writers
<1> QED BY <1>3, <1>4

LEMMA WriterIs ==
  ASSUME TypeInv, AnswersInv, NEW c \in Call, Writing(c)
  PROVE  /\ call[c].id \in Id /\ told[call[c].id] = "unsure"
         /\ call[c].prg \in Object /\ prog[call[c].prg] \in Program /\ prog[call[c].prg].id = call[c].id
         /\ Stage(c)
  BY DEF AnswersInv, Owner, Writing, Writers, TypeInv, Data, Live

LEMMA GotoIs ==
  ASSUME TypeInv, NEW c \in Call, NEW place, Goto(c, place), NEW r, r = call[c]
  PROVE  /\ told' = told /\ \A d \in Call \ {c} : call'[d] = call[d]
         /\ call'[c].op = r.op /\ call'[c].at = place /\ call'[c].id = r.id /\ call'[c].prg = r.prg
         /\ call'[c].data = r.data /\ call'[c].was = r.was
<1>1. call'[c] = [r EXCEPT !.at = place] /\ \A d \in Call \ {c} : call'[d] = call[d]
  BY DEF Goto, TypeInv, TypeOK
<1>2. r \in CallRecord
  BY DEF TypeInv, TypeOK
<1> QED BY <1>1, <1>2 DEF Goto, CallRecord

(* A request that answers what the last answer has said: nothing has changed.  *)
LEMMA SameTrue ==
  ASSUME TypeInv, TypeInv', AnswersInv, NEW c \in Call, Writing(c), NEW x, x = call[c].id, NEW p,
         ~Appending(c), Touch({x}, p), Untouched(x), Fact(x, call[c].was), Answer(c, Same(c))
  PROVE  AnswersInv'
<1>1. PICK says : says = call[c].was
  OBVIOUS
<1>2. Answer(c, says) /\ Fact(x, says)
  BY <1>1 DEF Same
<1>3. Fact(x, says)'
  BY <1>2, FactFrame DEF Touch, Untouched
<1>4. Whole(x)'
  BY WholeKeeps DEF Touch, Untouched
<1> QED BY <1>2, <1>3, <1>4, AnswerFact

(* ... and one that has taken back what it did to the file.                    *)
LEMMA RevertTrue ==
  ASSUME TypeInv, TypeInv', AnswersInv, NEW c \in Call, Writing(c), NEW x, x = call[c].id, NEW p,
         Touch({x}, p), Answer(c, Reverted(c)), call[c].was = "none" => Clear(x)',
         file'[x] = NoFile, Contents(x)' = {}
  PROVE  AnswersInv'
<1>1. PICK says \in {"none", "unsure"} : says = Reverted(c) /\ (says = "none" => call[c].was = "none")
  BY DEF Reverted
<1>2. Fact(x, says)' /\ Whole(x)'
  BY <1>1, RegistryAssumption DEF Fact, Whole, NoFile
<1> QED BY <1>1, <1>2, AnswerFact

LEMMA CreateFileTrue ==
  ASSUME TypeInv, TypeInv', AnswersInv, NEW c \in Call, CreateFile(c)
  PROVE  AnswersInv'
<1>1. PICK r : r = call[c]
  OBVIOUS
<1>2. PICK x : x = r.id
  OBVIOUS
<1>3. /\ r.op = "create" /\ r.at = "begun" /\ Writing(c) /\ UNCHANGED <<allPrograms, dir, apart>> /\ Heap(prog)
      /\ daemon = "up" /\ daemon' = "up"
  BY <1>1 DEF CreateFile, At, Writing, Writers
<1>4. x \in Id /\ prog[r.prg].id = x /\ r.prg \in Object /\ Stage(c) /\ prog[r.prg] \in Program
  BY <1>1, <1>2, <1>3, WriterIs
<1>5. Fact(x, r.was) /\ prog[r.prg].vars = r.data /\ (r.was = "none" => Clear(x))
  BY <1>1, <1>2, <1>3, <1>4 DEF Stage
<1>6. Contents(x)' = Contents(x) /\ file \in [Id -> Content]
  BY <1>3, <1>4, SameContents DEF TypeInv, TypeOK
<1>7. Touch({x}, prog)
  BY <1>1, <1>2, <1>3, <1>6, OnlySame, TouchSame, SameDir DEF CreateFile
<1>8. CASE Cached(x)
  <2>1. Answer(c, Same(c)) /\ UNCHANGED file
    BY <1>1, <1>2, <1>8 DEF CreateFile
  <2> QED BY <1>1, <1>2, <1>3, <1>5, <1>6, <1>7, <2>1, SameDir, SameTrue DEF Untouched, Appending
<1>9. CASE ~Cached(x)
  <2>1. Contents(x)' = {} /\ (r.was = "none" => Clear(x)')
    BY <1>3, <1>5, <1>6, <1>9, CachedIs, SameDir DEF AnswersInv
  <2>2. CASE Goto(c, "encode") /\ file' = [file EXCEPT ![x] = Empty]
    <3>1. file'[x] = Empty
      BY <1>4, <1>6, <2>2
    <3>2. /\ told' = told /\ \A d \in Call \ {c} : call'[d] = call[d]
          /\ call'[c].op = "create" /\ call'[c].at = "encode" /\ call'[c].id = x /\ call'[c].prg = r.prg
          /\ call'[c].data = r.data /\ call'[c].was = r.was
      BY <1>1, <1>2, <1>3, <2>2, GotoIs
    <3>3. prog'[call'[c].prg].id = x /\ prog'[call'[c].prg].vars = r.data
      BY <1>3, <1>4, <1>5, <3>2, HeapAlive
    <3>4. Stage(c)'
      BY <2>1, <3>1, <3>2, <3>3 DEF Stage
    <3>5. Whole(x)'
      BY <3>1 DEF Whole, Empty
    <3> QED BY <1>1, <1>2, <1>3, <1>7, <3>2, <3>3, <3>4, <3>5, GoOn
  <2>3. CASE Answer(c, Reverted(c)) /\ file' = [file EXCEPT ![x] = NoFile]
    <3>1. file'[x] = NoFile
      BY <1>4, <1>6, <2>3
    <3> QED BY <1>1, <1>2, <1>3, <1>7, <2>1, <2>3, <3>1, RevertTrue
  <2> QED BY <1>1, <1>2, <1>9, <2>2, <2>3 DEF CreateFile
<1> QED BY <1>8, <1>9

LEMMA CreateEncodeTrue ==
  ASSUME TypeInv, TypeInv', AnswersInv, NEW c \in Call, CreateEncode(c)
  PROVE  AnswersInv'
<1>1. PICK r : r = call[c]
  OBVIOUS
<1>2. PICK x : x = r.id
  OBVIOUS
<1>3. /\ r.op = "create" /\ r.at = "encode" /\ Writing(c) /\ UNCHANGED <<allPrograms, dir, apart>> /\ Heap(prog)
      /\ daemon = "up" /\ daemon' = "up"
  BY <1>1 DEF CreateEncode, At, Writing, Writers
<1>4. x \in Id /\ prog[r.prg].id = x /\ r.prg \in Object /\ Stage(c) /\ prog[r.prg] \in Program
  BY <1>1, <1>2, <1>3, WriterIs
<1>5. file[x] = Empty /\ prog[r.prg].vars = r.data /\ Contents(x) = {} /\ (r.was = "none" => Clear(x)')
  BY <1>1, <1>2, <1>3, <1>4, SameDir DEF Stage
<1>6. Contents(x)' = {} /\ file \in [Id -> Content]
  BY <1>3, <1>4, <1>5, SameContents DEF TypeInv, TypeOK
<1>7. Touch({x}, prog)
  BY <1>1, <1>2, <1>3, <1>6, OnlySame, TouchSame, SameDir DEF CreateEncode
<1>8. CASE /\ Goto(c, "environment")
           /\ \E new \in Written(x, Plain(prog[r.prg])) : file' = [file EXCEPT ![x] = new]
  <2>1. file'[x].kind = "plain" /\ file'[x].vars = r.data
    <3>1. Written(x, Plain(prog[r.prg])) = {Plain(prog[r.prg])}
      BY <1>5 DEF Written, NoFile, Empty
    <3>2. file'[x] = Plain(prog[r.prg])
      BY <1>4, <1>6, <1>8, <3>1
    <3> QED BY <1>5, <3>2 DEF Plain
  <2>2. /\ told' = told /\ \A d \in Call \ {c} : call'[d] = call[d]
        /\ call'[c].op = "create" /\ call'[c].at = "environment" /\ call'[c].id = x /\ call'[c].prg = r.prg
        /\ call'[c].data = r.data /\ call'[c].was = r.was
    BY <1>1, <1>2, <1>3, <1>8, GotoIs
  <2>3. prog'[call'[c].prg].id = x /\ prog'[call'[c].prg].vars = r.data
    BY <1>3, <1>4, <1>5, <2>2, HeapAlive
  <2>4. Stage(c)'
    BY <1>3, <1>5, <1>6, <2>1, <2>2, <2>3 DEF Stage
  <2>5. Appending(c)'
    BY <2>2 DEF Appending, Writing, Writers
  <2> QED BY <1>1, <1>2, <1>3, <1>7, <2>2, <2>3, <2>4, <2>5, GoOn
<1>9. CASE Answer(c, Reverted(c)) /\ file' = [file EXCEPT ![x] = NoFile]
  <2>1. file'[x] = NoFile /\ (r.was = "none" => Clear(x)')
    BY <1>4, <1>5, <1>6, <1>9
  <2> QED BY <1>1, <1>2, <1>3, <1>6, <1>7, <1>9, <2>1, RevertTrue
<1> QED BY <1>1, <1>2, <1>8, <1>9 DEF CreateEncode

LEMMA CreateUnknownTrue ==
  ASSUME TypeInv, TypeInv', AnswersInv, NEW c \in Call, CreateUnknown(c)
  PROVE  AnswersInv'
<1>1. PICK r : r = call[c]
  OBVIOUS
<1>2. PICK x : x = r.id
  OBVIOUS
<1>3. /\ r.op = "create" /\ r.at = "environment" /\ Writing(c) /\ UNCHANGED <<allPrograms, dir, apart>> /\ Heap(prog)
      /\ daemon = "up" /\ daemon' = "up" /\ Answer(c, Reverted(c)) /\ file' = [file EXCEPT ![x] = NoFile]
  BY <1>1, <1>2 DEF CreateUnknown, At, Writing, Writers
<1>4. x \in Id /\ Stage(c) /\ file \in [Id -> Content]
  BY <1>1, <1>2, <1>3, WriterIs DEF TypeInv, TypeOK
<1>5. Contents(x) = {} /\ (r.was = "none" => Clear(x))
  BY <1>1, <1>2, <1>3, <1>4 DEF Stage
<1>6. Contents(x)' = {} /\ file'[x] = NoFile /\ (r.was = "none" => Clear(x)')
  BY <1>3, <1>4, <1>5, SameContents, SameDir
<1>7. Touch({x}, prog)
  BY <1>3, <1>4, OnlySame, TouchSame, SameDir
<1> QED BY <1>1, <1>2, <1>3, <1>6, <1>7, RevertTrue

LEMMA CreateEnvironmentTrue ==
  ASSUME TypeInv, TypeInv', RootsInv, AnswersInv, NEW c \in Call, CreateEnvironment(c)
  PROVE  AnswersInv'
<1>1. PICK r : r = call[c]
  OBVIOUS
<1>2. PICK x : x = r.id
  OBVIOUS
<1>3. /\ r.op = "create" /\ r.at = "environment" /\ Writing(c) /\ UNCHANGED <<allPrograms, apart>>
      /\ daemon = "up" /\ daemon' = "up"
  BY <1>1, <1>2 DEF CreateEnvironment, At, Writing, Writers
<1>4. /\ x \in Id /\ Stage(c) /\ prog[r.prg].id = x /\ r.prg \in Object /\ prog[r.prg] \in Program
      /\ file \in [Id -> Content] /\ dir \in [Id -> BOOLEAN] /\ prog \in [Object -> Program \cup {None}]
  BY <1>1, <1>2, <1>3, WriterIs DEF TypeInv, TypeOK
<1>5. Contents(x) = {} /\ file[x].kind = "plain" /\ file[x].vars = r.data /\ prog[r.prg].vars = r.data
  BY <1>1, <1>2, <1>3, <1>4 DEF Stage
<1>6. ASSUME NEW e \in Object, Goto(c, "append"), dir' = [dir EXCEPT ![prog[r.prg].root] = TRUE], UNCHANGED file,
             Heap([prog EXCEPT ![r.prg].env = e])
      PROVE  AnswersInv'
  <2>1. PICK p : p = [prog EXCEPT ![r.prg].env = e]
    OBVIOUS
  <2>2. /\ p[r.prg].id = x /\ p[r.prg].vars = r.data
        /\ \A o \in Object \ {r.prg} : p[o] = prog[o]
    BY <1>4, <1>5, <2>1 DEF Program
  <2>3. Only(p, {}) /\ Only(p, {x}) /\ Heap(p)
    BY <1>4, <1>5, <1>6, <2>1, <2>2 DEF Only
  <2>4. Contents(x)' = {}
    BY <1>3, <1>4, <1>5, <2>3, SameSlice DEF AnswersInv
  <2>4a. \A y \in Id \ {x} : Clear(y) => Clear(y)'
    <3>1. PICK b \in BOOLEAN : b = TRUE
      OBVIOUS
    <3>2. PICK o \in Object : o = r.prg /\ prog[o] \in Program /\ prog[o].id = x
      BY <1>4
    <3>3. dir' = [dir EXCEPT ![prog[o].root] = b] /\ UNCHANGED apart
      BY <1>3, <1>6, <3>1, <3>2
    <3>4. /\ \A y \in Id \ {x} : Clear(y) => Clear(y)'
          /\ b = FALSE => Clear(x)'
      BY <3>2, <3>3, RootDir
    <3> QED BY <3>4
  <2>5. Touch({x}, p)
    BY <1>3, <1>4, <1>6, <2>3, <2>4a, TouchSame
  <2>6. /\ told' = told /\ \A d \in Call \ {c} : call'[d] = call[d]
        /\ call'[c].op = "create" /\ call'[c].at = "append" /\ call'[c].id = x /\ call'[c].prg = r.prg
        /\ call'[c].data = r.data /\ call'[c].was = r.was
    BY <1>1, <1>2, <1>3, <1>6, GotoIs
  <2>7. prog'[call'[c].prg].id = x /\ prog'[call'[c].prg].vars = r.data
    BY <1>4, <2>2, <2>3, <2>6, HeapAlive
  <2>8. Stage(c)'
    BY <1>5, <1>6, <2>4, <2>6, <2>7 DEF Stage
  <2>9. Appending(c)'
    BY <2>6 DEF Appending, Writing, Writers
  <2> QED BY <1>1, <1>2, <1>3, <2>5, <2>6, <2>7, <2>8, <2>9, GoOn
<1>7. CASE /\ Answer(c, "none") /\ Heap(prog)
           /\ file' = [file EXCEPT ![x] = NoFile] /\ dir' = [dir EXCEPT ![prog[r.prg].root] = FALSE]
  <2>0. Clear(x)' /\ \A y \in Id \ {x} : Clear(y) => Clear(y)'
    BY <1>3, <1>4, <1>7, RootDir
  <2>1. Contents(x)' = {} /\ file'[x] = NoFile /\ Clear(x)'
    BY <1>3, <1>4, <1>5, <1>7, <2>0, SameContents
  <2>2. Touch({x}, prog)
    BY <1>3, <1>4, <1>7, <2>0, OnlySame, TouchSame
  <2>3. Fact(x, "none")' /\ Whole(x)'
    BY <2>1, RegistryAssumption DEF Fact, Whole, NoFile
  <2> QED BY <1>1, <1>2, <1>3, <1>7, <2>2, <2>3, AnswerFact
<1> QED BY <1>1, <1>2, <1>6, <1>7 DEF CreateEnvironment, Root

LEMMA CreateAppendTrue ==
  ASSUME TypeInv, TypeInv', AnswersInv, NEW c \in Call, CreateAppend(c)
  PROVE  AnswersInv'
<1>1. PICK r : r = call[c]
  OBVIOUS
<1>2. PICK x : x = r.id
  OBVIOUS
<1>3. /\ r.op = "create" /\ r.at = "append" /\ Writing(c) /\ allPrograms' = Append(allPrograms, r.prg)
      /\ daemon = "up" /\ daemon' = "up" /\ UNCHANGED <<file, dir, apart>> /\ Heap(prog) /\ Answer(c, r.data)
  BY <1>1, <1>2 DEF CreateAppend, At, Writing, Writers, disk
<1>4. /\ x \in Id /\ Stage(c) /\ prog[r.prg].id = x /\ r.prg \in Object /\ prog[r.prg] \in Program
      /\ allPrograms \in Seq(Object) /\ r.data \in Value
  BY <1>1, <1>2, <1>3, WriterIs, SaysType DEF TypeInv, TypeOK
<1>5. Contents(x) = {} /\ file[x].kind = "plain" /\ file[x].vars = r.data /\ prog[r.prg].vars = r.data
  BY <1>1, <1>2, <1>3, <1>4 DEF Stage
<1>6. PICK n \in Nat : n = Len(allPrograms)
  BY <1>4
<1>7. /\ DOMAIN allPrograms = 1 .. n /\ DOMAIN allPrograms' = 1 .. (n + 1)
      /\ allPrograms'[n + 1] = r.prg /\ \A i \in 1 .. n : allPrograms'[i] = allPrograms[i]
  BY <1>3, <1>4, <1>6
<1>8. /\ prog'[allPrograms'[n + 1]] = prog[r.prg]
      /\ \A i \in 1 .. n : prog'[allPrograms'[i]] = prog[allPrograms[i]]
  BY <1>3, <1>7, HeapAlive
<1>9. \A i \in 1 .. n : prog[allPrograms[i]].id # x
  BY <1>5, <1>7 DEF Contents, Entries
<1>10. Unique'
  BY <1>4, <1>7, <1>8, <1>9 DEF AnswersInv, Unique
<1>11. ASSUME NEW y \in Id \ {x} PROVE Contents(y)' = Contents(y)
  <2>1. Entries(y)' = Entries(y)
    BY <1>4, <1>7, <1>8 DEF Entries
  <2>2. \A i \in Entries(y) : prog'[allPrograms'[i]] = prog[allPrograms[i]]
    BY <1>7, <1>8 DEF Entries
  <2> QED BY <2>1, <2>2 DEF Contents
<1>12. Contents(x)' = {r.data}
  <2>1. Entries(x)' = {n + 1}
    BY <1>4, <1>7, <1>8, <1>9 DEF Entries
  <2> QED BY <1>5, <1>8, <2>1 DEF Contents
<1>13. Touch({x}, prog)
  BY <1>3, <1>10, <1>11, OnlySame, SameDir DEF Touch, Untouched
<1>14. Fact(x, r.data)' /\ Whole(x)'
  BY <1>3, <1>4, <1>5, <1>12, RegistryAssumption DEF Fact, Whole
<1> QED BY <1>1, <1>2, <1>3, <1>13, <1>14, AnswerFact

LEMMA DeleteFindTrue ==
  ASSUME TypeInv, TypeInv', AnswersInv, NEW c \in Call, DeleteFind(c)
  PROVE  AnswersInv'
<1>1. PICK r : r = call[c]
  OBVIOUS
<1>2. PICK x : x = r.id
  OBVIOUS
<1>3. /\ r.op = "delete" /\ r.at = "begun" /\ Writing(c) /\ UNCHANGED <<allPrograms, file, dir, apart>> /\ Heap(prog)
      /\ daemon = "up" /\ daemon' = "up"
  BY <1>1 DEF DeleteFind, At, Writing, Writers, disk
<1>4. x \in Id /\ Stage(c) /\ r \in CallRecord
  BY <1>1, <1>2, <1>3, WriterIs DEF TypeInv, TypeOK
<1>5. /\ Fact(x, r.was) /\ (r.was = "none" => file[x].kind = "left")
      /\ Contents(x) # {} \/ file[x].kind = "left"
  BY <1>1, <1>2, <1>3, <1>4 DEF Stage
<1>6. Touch({x}, prog) /\ Untouched(x) /\ Fact(x, r.was)'
  <2>1. Contents(x)' = Contents(x)
    BY <1>3, <1>4, SameContents
  <2>2. Touch({x}, prog) /\ Untouched(x)
    BY <1>3, <2>1, OnlySame, TouchSame, SameDir DEF Untouched
  <2> QED BY <1>5, <2>2, FactFrame DEF Touch, Untouched
<1>6a. Whole(x)' /\ ~Appending(c)
  BY <1>1, <1>2, <1>3, <1>6, WholeKeeps DEF Untouched, Appending
<1>7. CASE ~Cached(x) /\ Answer(c, "none")
  <2>1. file'[x].kind = "left"
    BY <1>3, <1>5, <1>7, CachedIs DEF AnswersInv
  <2>2. Fact(x, "none")'
    BY <2>1, RegistryAssumption DEF Fact
  <2> QED BY <1>1, <1>2, <1>3, <1>6, <1>6a, <1>7, <2>2, AnswerFact
<1>8. CASE Answer(c, Same(c))
  BY <1>1, <1>2, <1>3, <1>5, <1>6, <1>6a, <1>8, SameTrue
<1>9. ASSUME NEW i \in DOMAIN allPrograms, First(x, i), UNCHANGED told, Found(c, i)
      PROVE  AnswersInv'
  <2>1. PICK o \in Object : o = allPrograms[i] /\ prog[o].id = x
    BY <1>9, FirstType
  <2>2. PICK s : s = [r EXCEPT !.at = "uninstall", !.prg = o, !.index = i]
    OBVIOUS
  <2>3. /\ s.op = "delete" /\ s.at = "uninstall" /\ s.id = x /\ s.prg = o /\ s.was = r.was
    BY <1>2, <1>3, <1>4, <2>2 DEF CallRecord
  <2>4. call'[c] = s /\ \A d \in Call \ {c} : call'[d] = call[d]
    BY <1>1, <1>9, <2>1, <2>2 DEF Found, TypeInv, TypeOK
  <2>5. prog'[o].id = x
    BY <1>3, <2>1, <2>3, <2>4, HeapAlive
  <2>6. Stage(c)'
    BY <1>3, <1>5, <1>6, <2>3, <2>4 DEF Stage
  <2> QED BY <1>1, <1>2, <1>3, <1>6, <1>6a, <1>9, <2>3, <2>4, <2>5, <2>6, GoOn
<1> QED BY <1>1, <1>2, <1>7, <1>8, <1>9 DEF DeleteFind

LEMMA DestroyTrue ==
  ASSUME TypeInv, TypeInv', RootsInv, AnswersInv, NEW c \in Call, Destroy(c)
  PROVE  AnswersInv'
<1>1. PICK r : r = call[c]
  OBVIOUS
<1>2. PICK x : x = r.id
  OBVIOUS
<1>3. /\ r.op = "delete" /\ r.at = "uninstall" /\ Writing(c) /\ UNCHANGED <<allPrograms, file, apart>> /\ Heap(prog)
      /\ daemon = "up" /\ daemon' = "up"
  BY <1>1 DEF Destroy, At, Writing, Writers
<1>4. x \in Id /\ Stage(c) /\ prog[r.prg].id = x /\ r.prg \in Object /\ prog[r.prg] \in Program
  BY <1>1, <1>2, <1>3, WriterIs
<1>5. Fact(x, r.was) /\ (r.was = "none" => file[x].kind = "left")
  BY <1>1, <1>2, <1>3, <1>4 DEF Stage
<1>6. Contents(x)' = Contents(x)
  BY <1>3, <1>4, SameContents
<1>6a. Whole(x)' /\ ~Appending(c)
  BY <1>1, <1>2, <1>3, <1>6, WholeKeeps DEF Appending
<1>7. CASE Answer(c, Same(c)) /\ UNCHANGED dir
  <2>1. Touch({x}, prog) /\ Untouched(x)
    BY <1>3, <1>6, <1>7, OnlySame, TouchSame, SameDir DEF Untouched
  <2> QED BY <1>1, <1>2, <1>3, <1>5, <1>6a, <1>7, <2>1, SameTrue
<1>8. CASE Goto(c, "unlink") /\ dir' = [dir EXCEPT ![prog[r.prg].root] = FALSE]
  <2>1. /\ told' = told /\ \A d \in Call \ {c} : call'[d] = call[d]
        /\ call'[c].op = "delete" /\ call'[c].at = "unlink" /\ call'[c].id = x /\ call'[c].prg = r.prg
        /\ call'[c].data = r.data /\ call'[c].was = r.was
    BY <1>1, <1>2, <1>3, <1>8, GotoIs
  <2>2. prog'[call'[c].prg].id = x
    BY <1>3, <1>4, <2>1, HeapAlive
  <2>3. Clear(x)' /\ \A y \in Id \ {x} : Clear(y) => Clear(y)'
    BY <1>3, <1>4, <1>8, RootDir
  <2>4. Stage(c)'
    BY <1>3, <1>5, <2>1, <2>3 DEF Stage
  <2>5. Touch({x}, prog)
    BY <1>3, <1>4, <2>3, OnlySame, TouchSame
  <2> QED BY <1>1, <1>2, <1>3, <1>6a, <2>1, <2>2, <2>4, <2>5, GoOn
<1> QED BY <1>1, <1>7, <1>8 DEF Destroy, Root

(* The element at the index is the server's only entry.                        *)
LEMMA DeleteUnlinkTrue ==
  ASSUME TypeInv, TypeInv', IndexInv, AnswersInv, NEW c \in Call, DeleteUnlink(c)
  PROVE  AnswersInv'
<1>1. PICK r : r = call[c]
  OBVIOUS
<1>2. PICK x : x = r.id
  OBVIOUS
<1>3. /\ r.op = "delete" /\ r.at = "unlink" /\ Writing(c) /\ UNCHANGED <<dir, apart>> /\ Heap(prog)
      /\ daemon = "up" /\ daemon' = "up"
  BY <1>1 DEF DeleteUnlink, At, Writing, Writers
<1>4. /\ x \in Id /\ Stage(c) /\ allPrograms \in Seq(Object) /\ prog[r.prg].id = x
      /\ file \in [Id -> Content]
  BY <1>1, <1>2, <1>3, WriterIs DEF TypeInv, TypeOK
<1>5. Clear(x)'
  BY <1>1, <1>2, <1>3, <1>4, SameDir DEF Stage
<1>6. PICK k \in DOMAIN allPrograms : k = r.index /\ prog[allPrograms[k]].id = x
  BY <1>1, <1>2, <1>3 DEF IndexInv, Deleting
<1>7. PICK n \in Nat : n = Len(allPrograms) /\ k \in 1 .. n
  BY <1>4, <1>6
<1>8. allPrograms' = Without(allPrograms, k)
  BY <1>1, <1>6 DEF DeleteUnlink
<1>9. /\ DOMAIN allPrograms = 1 .. n /\ DOMAIN allPrograms' = 1 .. (n - 1)
      /\ \A i \in 1 .. (n - 1) : allPrograms'[i] = IF i < k THEN allPrograms[i] ELSE allPrograms[i + 1]
  <2>1. PICK s : s = Without(allPrograms, k)
    OBVIOUS
  <2>2. /\ s \in Seq(Object) /\ Len(s) = n - 1
        /\ \A i \in 1 .. (n - 1) : s[i] = IF i < k THEN allPrograms[i] ELSE allPrograms[i + 1]
    BY <1>4, <1>6, <1>7, <2>1, WithoutIs
  <2>3. DOMAIN s = 1 .. (n - 1)
    BY <2>2
  <2> QED BY <1>4, <1>7, <1>8, <2>1, <2>2, <2>3
<1>10. \A i \in 1 .. (n - 1) :
          prog'[allPrograms'[i]] = prog[IF i < k THEN allPrograms[i] ELSE allPrograms[i + 1]]
  BY <1>3, <1>9, HeapAlive
<1> DEFINE from(i) == IF i < k THEN i ELSE i + 1
<1>11. /\ \A i \in 1 .. (n - 1) : /\ from(i) \in 1 .. n /\ from(i) # k
                                  /\ prog'[allPrograms'[i]] = prog[allPrograms[from(i)]]
       /\ \A i, j \in 1 .. (n - 1) : from(i) = from(j) => i = j
       /\ \A j \in 1 .. n : j # k => \E i \in 1 .. (n - 1) : j = from(i)
  <2>1. ASSUME NEW i \in 1 .. (n - 1)
        PROVE  from(i) \in 1 .. n /\ from(i) # k /\ prog'[allPrograms'[i]] = prog[allPrograms[from(i)]]
    BY <1>7, <1>10
  <2>2. \A i, j \in 1 .. (n - 1) : from(i) = from(j) => i = j
    BY <1>7
  <2>3. ASSUME NEW j \in 1 .. n, j # k PROVE \E i \in 1 .. (n - 1) : j = from(i)
    <3>1. CASE j < k
      BY <1>7, <3>1
    <3>2. CASE ~(j < k)
      <4>1. j - 1 \in 1 .. (n - 1) /\ j = from(j - 1)
        BY <1>7, <2>3, <3>2
      <4> QED BY <4>1
    <3> QED BY <3>1, <3>2
  <2> QED BY <2>1, <2>2, <2>3
<1> HIDE DEF from
<1>12. Unique'
  <2> SUFFICES ASSUME NEW i \in 1 .. (n - 1), NEW j \in 1 .. (n - 1),
                      prog'[allPrograms'[i]].id = prog'[allPrograms'[j]].id
               PROVE  i = j
    BY <1>9 DEF Unique
  <2>1. from(i) \in 1 .. n /\ from(j) \in 1 .. n /\ prog[allPrograms[from(i)]].id = prog[allPrograms[from(j)]].id
    BY <1>11
  <2>2. from(i) = from(j)
    BY <1>9, <2>1 DEF AnswersInv, Unique
  <2> QED BY <1>11, <2>2
<1>13. ASSUME NEW y \in Id \ {x} PROVE Contents(y)' = Contents(y)
  <2>1. \A j \in Entries(y) : j \in 1 .. n /\ j # k
    BY <1>6, <1>9 DEF Entries
  <2>2. \A i \in Entries(y)' : i \in 1 .. (n - 1) /\ from(i) \in Entries(y)
    BY <1>9, <1>11 DEF Entries
  <2>3. \A i \in 1 .. (n - 1) : from(i) \in Entries(y) => i \in Entries(y)'
    BY <1>9, <1>11 DEF Entries
  <2>4. ASSUME NEW v PROVE v \in Contents(y)' <=> v \in Contents(y)
    <3>1. ASSUME v \in Contents(y)' PROVE v \in Contents(y)
      <4>1. PICK i \in Entries(y)' : v = prog'[allPrograms'[i]].vars
        BY <3>1 DEF Contents
      <4> QED BY <1>11, <2>2, <4>1 DEF Contents
    <3>2. ASSUME v \in Contents(y) PROVE v \in Contents(y)'
      <4>1. PICK j \in Entries(y) : v = prog[allPrograms[j]].vars
        BY <3>2 DEF Contents
      <4>2. PICK i \in 1 .. (n - 1) : j = from(i)
        BY <1>11, <2>1, <4>1
      <4> QED BY <1>11, <2>3, <4>1, <4>2 DEF Contents
    <3> QED BY <3>1, <3>2
  <2> QED BY <2>4
<1>14. Contents(x)' = {}
  <2>1. \A j \in Entries(x) : j = k
    BY <1>6 DEF Entries, AnswersInv, Unique
  <2>2. Entries(x)' = {}
    <3>1. \A i \in Entries(x)' : i \in 1 .. (n - 1) /\ from(i) \in Entries(x)
      BY <1>9, <1>11 DEF Entries
    <3> QED BY <1>11, <2>1, <3>1
  <2> QED BY <2>2 DEF Contents
<1>15. PICK says \in {"none", "unsure"} : /\ Answer(c, says) /\ (says = "none" => file'[x] = NoFile)
                                          /\ file'[x].kind # "plain"
                                          /\ \A y \in Id \ {x} : file'[y] = file[y]
  <2>1. CASE file' = [file EXCEPT ![x] = NoFile] /\ Answer(c, "none")
    BY <1>4, <2>1 DEF NoFile
  <2>2. CASE file' = [file EXCEPT ![x] = Leave(x)] /\ Answer(c, "unsure")
    BY <1>4, <2>2 DEF Leave, Loads
  <2> QED BY <1>1, <1>4, <2>1, <2>2 DEF DeleteUnlink
<1>16. Touch({x}, prog)
  BY <1>3, <1>12, <1>13, <1>15, OnlySame, SameDir DEF Touch, Untouched
<1>17. Fact(x, says)' /\ Whole(x)'
  BY <1>5, <1>14, <1>15, RegistryAssumption DEF Fact, Whole
<1> QED BY <1>1, <1>2, <1>3, <1>15, <1>16, <1>17, AnswerFact

LEMMA EntriesSame ==
  ASSUME TypeInv, TypeInv', UNCHANGED allPrograms, NEW X, NEW p, Heap(p), Only(p, X), NEW y \in Id
  PROVE  /\ Entries(y)' = Entries(y)
         /\ \A i \in Entries(y) : allPrograms[i] \in Object /\ prog'[allPrograms'[i]] = p[allPrograms[i]]
<1>1. \A i \in DOMAIN allPrograms : allPrograms[i] \in Object /\ prog[allPrograms[i]] \in Program
  BY DEF TypeInv, TypeOK, Live
<1>2. \A i \in DOMAIN allPrograms : /\ prog'[allPrograms'[i]].id = prog[allPrograms[i]].id
                                     /\ prog'[allPrograms'[i]] = p[allPrograms[i]]
  BY <1>1, HeapAlive DEF Only
<1> QED BY <1>1, <1>2 DEF Entries

LEMMA EditSetTrue ==
  ASSUME TypeInv, TypeInv', AnswersInv, NEW c \in Call, EditSet(c)
  PROVE  AnswersInv'
<1>1. PICK r : r = call[c]
  OBVIOUS
<1>2. PICK x : x = r.id
  OBVIOUS
<1>3. /\ r.op = "edit" /\ r.at = "begun" /\ Writing(c) /\ UNCHANGED <<allPrograms, file, dir, apart>>
      /\ daemon = "up" /\ daemon' = "up" /\ Goto(c, "save")
      /\ Heap([prog EXCEPT ![r.prg].vars = r.data])
  BY <1>1 DEF EditSet, At, Writing, Writers, disk
<1>4. /\ x \in Id /\ Stage(c) /\ prog[r.prg].id = x /\ r.prg \in Object /\ prog[r.prg] \in Program
      /\ prog \in [Object -> Program \cup {None}]
  BY <1>1, <1>2, <1>3, WriterIs DEF TypeInv, TypeOK
<1>5. Fact(x, r.was) /\ (r.was = "none" => file[x].kind = "left")
  BY <1>1, <1>2, <1>3, <1>4 DEF Stage
<1>6. PICK p : p = [prog EXCEPT ![r.prg].vars = r.data]
  OBVIOUS
<1>7. p[r.prg].id = x /\ \A o \in Object \ {r.prg} : p[o] = prog[o]
  BY <1>4, <1>6 DEF Program
<1>8. Only(p, {x}) /\ Heap(p)
  BY <1>3, <1>4, <1>6, <1>7 DEF Only
<1>9. Touch({x}, p)
  BY <1>3, <1>8, TouchSame, SameDir
<1>9a. Entries(x)' = Entries(x)
  BY <1>3, <1>4, <1>8, EntriesSame
<1>9b. Whole(x)'
  <2>1. Contents(x)' = {} => Contents(x) = {}
    BY <1>9a DEF Contents
  <2> QED BY <1>1, <1>2, <1>3, <2>1, WholeKeeps DEF Appending
<1>10. Contents(x)' = {} => Fact(x, r.was)'
  <2> SUFFICES ASSUME Contents(x)' = {} PROVE Fact(x, r.was)'
    OBVIOUS
  <2>1. Contents(x)' = Contents(x)
    BY <1>9a DEF Contents
  <2> QED BY <1>3, <1>5, <2>1, FactFrame, SameDir
<1>11. /\ told' = told /\ \A d \in Call \ {c} : call'[d] = call[d]
       /\ call'[c].op = "edit" /\ call'[c].at = "save" /\ call'[c].id = x /\ call'[c].prg = r.prg
       /\ call'[c].data = r.data /\ call'[c].was = r.was
  BY <1>1, <1>2, <1>3, GotoIs
<1>12. prog'[call'[c].prg].id = x
  BY <1>4, <1>7, <1>8, <1>11, HeapAlive
<1>13. Stage(c)'
  BY <1>3, <1>5, <1>10, <1>11 DEF Stage
<1> QED BY <1>1, <1>2, <1>3, <1>9, <1>9b, <1>11, <1>12, <1>13, GoOn

LEMMA SaveTruncateTrue ==
  ASSUME TypeInv, TypeInv', AnswersInv, NEW c \in Call, SaveTruncate(c)
  PROVE  AnswersInv'
<1>1. PICK r : r = call[c]
  OBVIOUS
<1>2. PICK x : x = r.id
  OBVIOUS
<1>3. /\ r.op = "edit" /\ r.at = "save" /\ Writing(c) /\ UNCHANGED <<allPrograms, dir, apart>>
      /\ daemon = "up" /\ daemon' = "up" /\ Heap(prog)
  BY <1>1 DEF SaveTruncate, At, Writing, Writers
<1>4. /\ x \in Id /\ Stage(c) /\ prog[r.prg].id = x /\ r.prg \in Object /\ prog[r.prg] \in Program
      /\ file \in [Id -> Content] /\ r \in CallRecord
  BY <1>1, <1>2, <1>3, WriterIs DEF TypeInv, TypeOK
<1>5. (Contents(x) = {} => Fact(x, r.was)) /\ (r.was = "none" => file[x].kind = "left")
  BY <1>1, <1>2, <1>3, <1>4 DEF Stage
<1>6. Contents(x)' = Contents(x)
  BY <1>3, <1>4, SameContents
<1>7. ASSUME NEW o \in Object, GetFromCache(x, o), UNCHANGED told,
             call' = [call EXCEPT ![c].at = "write", ![c].data = prog[o].vars],
             file' = [file EXCEPT ![x] = Empty]
      PROVE  AnswersInv'
  <2>1. PICK i \in DOMAIN allPrograms : First(x, i) /\ o = allPrograms[i]
    BY <1>7 DEF GetFromCache
  <2>2. PICK v : v = prog[o].vars
    OBVIOUS
  <2>3. Contents(x) \subseteq {v}
    <3>1. \A j \in Entries(x) : j = i
      BY <2>1 DEF Entries, First, AnswersInv, Unique
    <3> QED BY <2>1, <2>2, <3>1 DEF Contents
  <2>4. PICK s : s = [r EXCEPT !.at = "write", !.data = v]
    OBVIOUS
  <2>5. /\ s.op = "edit" /\ s.at = "write" /\ s.id = x /\ s.prg = r.prg /\ s.was = r.was /\ s.data = v
    BY <1>2, <1>3, <1>4, <2>4 DEF CallRecord
  <2>6. call'[c] = s /\ \A d \in Call \ {c} : call'[d] = call[d]
    BY <1>1, <1>7, <2>2, <2>4 DEF TypeInv, TypeOK
  <2>7. prog'[call'[c].prg].id = x
    BY <1>3, <1>4, <2>5, <2>6, HeapAlive
  <2>8. file'[x] = Empty
    BY <1>4, <1>7
  <2>9. Stage(c)'
    BY <1>5, <1>6, <2>3, <2>5, <2>6, <2>8 DEF Stage
  <2>10. Touch({x}, prog)
    BY <1>3, <1>4, <1>7, OnlySame, TouchSame, SameDir
  <2>11. Whole(x)'
    BY <2>8 DEF Whole, Empty
  <2> QED BY <1>1, <1>2, <1>3, <1>7, <2>5, <2>6, <2>7, <2>9, <2>10, <2>11, GoOn
<1>8. CASE Answer(c, IF Cached(x) THEN "unsure" ELSE Same(c)) /\ UNCHANGED file
  <2>1. Touch({x}, prog) /\ Untouched(x)
    BY <1>3, <1>6, <1>8, OnlySame, TouchSame, SameDir DEF Untouched
  <2>1a. Whole(x)' /\ ~Appending(c)
    BY <1>1, <1>2, <1>3, <1>6, <1>8, WholeKeeps DEF Appending
  <2>2. CASE Cached(x)
    BY <1>1, <1>2, <1>3, <1>8, <2>1, <2>1a, <2>2, UnsureFact, AnswerFact
  <2>3. CASE ~Cached(x)
    <3>1. Fact(x, r.was)
      BY <1>5, <2>3, CachedIs DEF AnswersInv
    <3> QED BY <1>1, <1>2, <1>3, <1>8, <2>1, <2>1a, <2>3, <3>1, SameTrue
  <2> QED BY <2>2, <2>3
<1> QED BY <1>1, <1>2, <1>7, <1>8 DEF SaveTruncate

LEMMA SaveWriteTrue ==
  ASSUME TypeInv, TypeInv', AnswersInv, NEW c \in Call, SaveWrite(c)
  PROVE  AnswersInv'
<1>1. PICK r : r = call[c]
  OBVIOUS
<1>2. PICK x : x = r.id
  OBVIOUS
<1>3. /\ r.op = "edit" /\ r.at = "write" /\ Writing(c) /\ UNCHANGED <<allPrograms, dir, apart>>
      /\ daemon = "up" /\ daemon' = "up" /\ Heap(prog)
  BY <1>1 DEF SaveWrite, At, Writing, Writers
<1>4. /\ x \in Id /\ Stage(c) /\ file \in [Id -> Content] /\ r.data \in Value
  BY <1>1, <1>2, <1>3, WriterIs, SaysType DEF TypeInv, TypeOK
<1>5. file[x] = Empty /\ Contents(x) \subseteq {r.data}
  BY <1>1, <1>2, <1>3, <1>4 DEF Stage
<1>6. Contents(x)' = Contents(x)
  BY <1>3, <1>4, SameContents
<1>7. Touch({x}, prog)
  BY <1>1, <1>2, <1>3, <1>4, OnlySame, TouchSame, SameDir DEF SaveWrite
<1>8. CASE /\ Answer(c, r.data)
           /\ \E new \in Written(x, Saved(r.data)) : file' = [file EXCEPT ![x] = new]
  <2>1. file'[x] = Saved(r.data)
    BY <1>4, <1>5, <1>8 DEF Written, NoFile, Empty
  <2>2. Fact(x, r.data)' /\ Whole(x)'
    BY <1>4, <1>5, <1>6, <2>1, RegistryAssumption DEF Fact, Loads, Whole, Saved
  <2> QED BY <1>1, <1>2, <1>3, <1>7, <1>8, <2>2, AnswerFact
<1>9. CASE Answer(c, "unsure") /\ file' = [file EXCEPT ![x] = IF @ = NoFile THEN NoFile ELSE Garbage]
  <2>1. Whole(x)'
    BY <1>4, <1>9 DEF Whole, NoFile, Garbage
  <2> QED BY <1>1, <1>2, <1>3, <1>7, <1>9, <2>1, UnsureFact, AnswerFact
<1> QED BY <1>1, <1>2, <1>8, <1>9 DEF SaveWrite

LEMMA ReloadTrue ==
  ASSUME TypeInv, TypeInv', AnswersInv, NEW c \in Call, Reload(c)
  PROVE  AnswersInv'
<1>1. PICK r : r = call[c]
  OBVIOUS
<1>2. PICK x : x = r.id
  OBVIOUS
<1>3. /\ r.op = "reload" /\ r.at = "begun" /\ Writing(c) /\ UNCHANGED <<allPrograms, file, dir, apart>>
      /\ daemon = "up" /\ daemon' = "up" /\ Answer(c, Same(c))
  BY <1>1 DEF Reload, At, Writing, Writers, disk
<1>4. /\ x \in Id /\ Stage(c) /\ prog \in [Object -> Program \cup {None}]
  BY <1>1, <1>2, <1>3, WriterIs DEF TypeInv, TypeOK
<1>5. Fact(x, r.was) /\ ~Appending(c)
  BY <1>1, <1>2, <1>3, <1>4 DEF Stage, Appending
<1>6. CASE Heap(prog)
  <2>1. Contents(x)' = Contents(x)
    BY <1>3, <1>4, <1>6, SameContents
  <2>2. Touch({x}, prog) /\ Untouched(x)
    BY <1>3, <1>6, <2>1, OnlySame, TouchSame, SameDir DEF Untouched
  <2> QED BY <1>1, <1>2, <1>3, <1>5, <2>2, SameTrue
<1>7. ASSUME NEW o \in Object, NEW e \in Object, GetFromCache(x, o), Loads(x),
             Heap([prog EXCEPT ![o] = Load(x, e)])
      PROVE  AnswersInv'
  <2>1. PICK p : p = [prog EXCEPT ![o] = Load(x, e)]
    OBVIOUS
  <2>2. prog[o].id = x
    BY <1>7, FirstType DEF GetFromCache
  <2>3. p[o].id = x /\ p[o].vars = file[x].vars /\ \A q \in Object \ {o} : p[q] = prog[q]
    BY <1>4, <2>1 DEF Load
  <2>4. Only(p, {x}) /\ Heap(p)
    BY <1>7, <2>1, <2>2, <2>3 DEF Only
  <2>5. Touch({x}, p)
    BY <1>3, <2>4, TouchSame, SameDir
  <2>6. /\ Entries(x)' = Entries(x)
        /\ \A i \in Entries(x) : allPrograms[i] \in Object /\ prog'[allPrograms'[i]] = p[allPrograms[i]]
    BY <1>3, <1>4, <2>4, EntriesSame
  <2>7. Contents(x)' \subseteq Contents(x) \cup {file[x].vars} /\ (Contents(x)' = {} => Contents(x) = {})
    BY <2>3, <2>6 DEF Contents
  <2>8. Fact(x, r.was)'
    BY <1>3, <1>5, <1>7, <2>7, RegistryAssumption DEF Fact, Loads, NoFile
  <2>9. Whole(x)'
    BY <1>1, <1>2, <1>3, <1>5, <2>7, WholeKeeps
  <2> QED BY <1>1, <1>2, <1>3, <2>5, <2>8, <2>9, AnswerFact DEF Same
<1> QED BY <1>1, <1>2, <1>6, <1>7 DEF Reload

LEMMA InstallTrue ==
  ASSUME TypeInv, TypeInv', RootsInv, AnswersInv, NEW c \in Call, Install(c)
  PROVE  AnswersInv'
<1>1. PICK r : r = call[c]
  OBVIOUS
<1>2. PICK x : x = r.id
  OBVIOUS
<1>3. /\ r.op = "install" /\ r.at = "begun" /\ Writing(c) /\ UNCHANGED <<allPrograms, file, apart>> /\ Heap(prog)
      /\ daemon = "up" /\ daemon' = "up" /\ Answer(c, Same(c))
  BY <1>1 DEF Install, At, Writing, Writers
<1>4. x \in Id /\ Stage(c) /\ prog[r.prg].id = x /\ r.prg \in Object /\ prog[r.prg] \in Program
  BY <1>1, <1>2, <1>3, WriterIs
<1>5. Fact(x, r.was) /\ (r.was = "none" => file[x].kind = "left") /\ ~Appending(c)
  BY <1>1, <1>2, <1>3, <1>4 DEF Stage, Appending
<1>6. Contents(x)' = Contents(x)
  BY <1>3, <1>4, SameContents
<1>7. Touch({x}, prog)
  <2>1. CASE UNCHANGED dir
    BY <1>3, <2>1, OnlySame, TouchSame, SameDir
  <2>2. CASE dir' = [dir EXCEPT ![prog[r.prg].root] = TRUE]
    <3>1. PICK b \in BOOLEAN : b = TRUE
      OBVIOUS
    <3>2. dir' = [dir EXCEPT ![prog[r.prg].root] = b]
      BY <2>2, <3>1
    <3>3. \A y \in Id \ {x} : Clear(y) => Clear(y)'
      BY <1>3, <1>4, <3>2, RootDir
    <3> QED BY <1>3, <3>3, OnlySame, TouchSame
  <2> QED BY <1>1, <2>1, <2>2 DEF Install, Root
<1>8. Fact(x, r.was)' /\ Whole(x)'
  <2>1. Whole(x)'
    BY <1>1, <1>2, <1>3, <1>5, <1>6, WholeKeeps
  <2> QED BY <1>3, <1>5, <1>6, <2>1, RegistryAssumption DEF Fact, Loads
<1> QED BY <1>1, <1>2, <1>3, <1>7, <1>8, AnswerFact DEF Same

LEMMA StartTrue ==
  ASSUME TypeInv, TypeInv', AnswersInv, NEW c \in Call, Start(c)
  PROVE  AnswersInv'
<1>1. UNCHANGED <<allPrograms, file, dir, apart>> /\ daemon = "up" /\ daemon' = "up" /\ Heap(prog)
      /\ call[c].op = "start" /\ ~Appending(c) /\ Answer(c, Same(c))
  BY DEF Start, At, Appending, disk
<1>2. /\ told' = told /\ ~Writing(c)' /\ \A d \in Call \ {c} : call'[d] = call[d]
  BY <1>1 DEF Answer, Free, Writing, Writers, TypeInv, TypeOK
<1> QED BY <1>1, <1>2, OnlySame, ReadKeeps

LEMMA ExitTrue ==
  ASSUME TypeInv, TypeInv', AnswersInv, NEW e \in Object, Exit(e)
  PROVE  AnswersInv'
<1>1. UNCHANGED <<allPrograms, file, dir, apart>> /\ daemon = "up" /\ daemon' = "up" /\ Heap(prog)
  BY DEF Exit, disk
<1>2. CASE UNCHANGED <<call, told>>
  <2>1. PICK c : c \notin Call
    BY NoSetContainsEverything
  <2> QED BY <1>1, <1>2, <2>1, OnlySame, ReadKeeps
<1>3. ASSUME NEW c \in Call, NEW id, NEW o, call[c].at = "idle", Begin(c, "start", id, o, None)
      PROVE  AnswersInv'
  <2>1. /\ told' = told /\ ~Writing(c)' /\ ~Appending(c) /\ \A d \in Call \ {c} : call'[d] = call[d]
    BY <1>3 DEF Appending, Begin, Writing, Writers, TypeInv, TypeOK
  <2> QED BY <1>1, <2>1, OnlySame, ReadKeeps
<1> QED BY <1>2, <1>3 DEF Exit

LEMMA CrashTrue ==
  ASSUME TypeInv, AnswersInv, Crash
  PROVE  AnswersInv'
<1>1. /\ allPrograms' = <<>> /\ UNCHANGED <<file, dir, told, apart>> /\ daemon' = "down"
      /\ \A c \in Call : call'[c].op = "none"
  BY DEF Crash, disk, Free
<1>2. \A id \in Id : Contents(id)' = {}
  BY <1>1 DEF Contents, Entries
<1>3. ASSUME NEW id \in Id PROVE Fact(id, told[id])'
  BY <1>1, <1>2, SameDir DEF AnswersInv, Fact
<1>4. Unique' /\ \A c \in Call : ~Writing(c)'
  BY <1>1 DEF Unique, Writing, Writers
<1>5. \A id \in Id : Whole(id)'
  BY <1>1 DEF Whole
<1> QED BY <1>1, <1>3, <1>4, <1>5 DEF AnswersInv

(* The servers whose files load are exactly those that get an entry.           *)
LEMMA LoadFromFolderTrue ==
  ASSUME TypeInv, Quiet, AnswersInv, LoadFromFolder
  PROVE  AnswersInv'
<1>1. /\ UNCHANGED <<file, dir, call, told, apart>> /\ \A c \in Call : ~Writing(c) /\ ~Writing(c)'
      /\ \A id \in Id : Contents(id) = {}
  BY DEF LoadFromFolder, disk, Quiet, Free, Writing, Writers, Contents, Entries
<1>2. CASE daemon' = "dead" /\ UNCHANGED allPrograms /\ \E id \in Id : file[id] = Empty
  <2>1. Unique' /\ \A id \in Id : Contents(id)' = {}
    BY <1>2 DEF LoadFromFolder, Quiet, Unique, Contents, Entries
  <2>2. ASSUME NEW id \in Id PROVE Fact(id, told[id])'
    BY <1>1, <1>2, <2>1, SameDir DEF AnswersInv, Fact
  <2>3. \A id \in Id : Whole(id)'
    BY <1>2 DEF Whole
  <2> QED BY <1>1, <1>2, <2>1, <2>2, <2>3 DEF AnswersInv
<1>3. CASE ~ \E id \in Id : file[id] = Empty
  <2>1. PICK loaded : loaded = {id \in Id : Loads(id)}
    OBVIOUS
  <2>2. PICK n \in Nat : n = Cardinality(loaded)
    BY <2>1, RegistryAssumption, FS_Subset, FS_CardinalityType
  <2>3. n <= Slots /\ daemon' = "up" /\ IsFiniteSet(loaded)
    BY <1>3, <2>1, <2>2, RegistryAssumption, FS_Subset DEF LoadFromFolder
  <2>4. PICK order \in [1 .. n -> loaded] :
           /\ \A i, j \in 1 .. n : order[i] = order[j] => i = j
           /\ allPrograms' = [i \in 1 .. n |-> i]
           /\ prog' = [o \in Object |-> IF o <= n THEN Load(order[o], o) ELSE None]
    BY <1>3, <2>1, <2>2 DEF LoadFromFolder
  <2>5. \A id \in loaded : \E i \in 1 .. n : order[i] = id
    <3>1. order \in Injection(1 .. n, loaded)
      <4>1. order \in [1 .. n -> loaded] /\ \A i, j \in 1 .. n : order[i] = order[j] => i = j
        BY <2>4
      <4> QED BY <4>1 DEF Injection, IsInjective
    <3>1a. Cardinality(1 .. n) = n
      <4>1. 1 \in Int /\ n \in Int
        OBVIOUS
      <4>2. Cardinality(1 .. n) = IF 1 > n THEN 0 ELSE n - 1 + 1
        BY <4>1, FS_Interval
      <4> QED BY <4>2
    <3>2. order \in Surjection(1 .. n, loaded)
      BY <2>2, <2>3, <3>1, <3>1a, FS_Injection
    <3> QED BY <3>2 DEF Surjection
  <2>6. \A i \in 1 .. n : /\ prog'[allPrograms'[i]].id = order[i]
                          /\ prog'[allPrograms'[i]].vars = file[order[i]].vars
    <3>1. \A i \in 1 .. n : i \in Object /\ i <= n
      BY <2>3, RegistryAssumption DEF Object
    <3> QED BY <2>4, <3>1 DEF Load
  <2>7. DOMAIN allPrograms' = 1 .. n
    BY <2>4
  <2>8. Unique'
    <3> SUFFICES ASSUME NEW i \in 1 .. n, NEW j \in 1 .. n,
                        prog'[allPrograms'[i]].id = prog'[allPrograms'[j]].id
                 PROVE  i = j
      BY <2>7 DEF Unique
    <3>1. order[i] = order[j]
      BY <2>6
    <3> QED BY <2>4, <3>1
  <2>9. ASSUME NEW id \in Id
        PROVE  Contents(id)' = IF Loads(id) THEN {file[id].vars} ELSE {}
    <3>1. \A i : i \in Entries(id)' <=> i \in 1 .. n /\ order[i] = id
      BY <2>6, <2>7 DEF Entries
    <3>2. CASE Loads(id)
      <4>1. PICK i \in 1 .. n : order[i] = id
        BY <2>1, <2>5, <3>2
      <4>2. Entries(id)' = {i}
        BY <2>4, <3>1, <4>1
      <4> QED BY <2>6, <3>2, <4>1, <4>2 DEF Contents
    <3>3. CASE ~Loads(id)
      <4>1. Entries(id)' = {}
        BY <2>1, <2>4, <3>1, <3>3
      <4> QED BY <3>3, <4>1 DEF Contents
    <3> QED BY <3>2, <3>3
  <2>10. ASSUME NEW id \in Id PROVE Fact(id, told[id])'
    <3>1. Fact(id, told[id]) /\ Contents(id) = {} /\ UNCHANGED <<told[id], file[id]>> /\ (Clear(id) => Clear(id)')
      BY <1>1, SameDir DEF AnswersInv
    <3>2. Contents(id)' = IF Loads(id) THEN {file[id].vars} ELSE {}
      BY <2>9
    <3>3. told[id] = "none" => file[id].kind = "left" \/ ~Loads(id)
      BY <3>1 DEF Fact, Loads, NoFile
    <3> QED BY <3>1, <3>2, <3>3 DEF Fact, Loads
  <2>11. \A id \in Id : Whole(id)'
    BY <1>1, <2>9 DEF Whole, Loads
  <2> QED BY <1>1, <2>3, <2>8, <2>10, <2>11 DEF AnswersInv
<1> QED BY <1>2, <1>3 DEF LoadFromFolder

(* Owned: what Own says after a step, which only adds to apart.                *)
Owned(id, root) == root = id \/ {id, root} \subseteq apart'

LEMMA RootsKeep ==
  ASSUME TypeInv, RootsInv, apart \subseteq apart', NEW p, Heap(p),
         \A o \in Object : p[o] \in Program =>
            \/ prog[o] \in Program /\ p[o].id = prog[o].id /\ p[o].root = prog[o].root
            \/ Owned(p[o].id, p[o].root),
         \A id \in Id : Loads(id)' => \/ Loads(id) /\ file'[id].root = file[id].root
                                      \/ Owned(id, file'[id].root)
  PROVE  RootsInv'
<1>1. \A id, root : Own(id, root) => Owned(id, root)
  BY DEF Own, Owned
<1>2. ASSUME NEW o \in Object, prog'[o] \in Program
      PROVE  Owned(prog'[o].id, prog'[o].root)
  <2>1. prog'[o] = p[o]
    BY <1>2, RegistryAssumption DEF Heap
  <2> QED BY <1>1, <1>2, <2>1 DEF RootsInv
<1>3. \A id \in Id : Loads(id)' => Owned(id, file'[id].root)
  BY <1>1 DEF RootsInv
<1> QED BY <1>2, <1>3 DEF RootsInv, Own, Owned

(* A step that writes one file, and no program.                                *)
LEMMA RootsFile ==
  ASSUME TypeInv, RootsInv, UNCHANGED apart, Heap(prog), NEW x, NEW new, file' = [file EXCEPT ![x] = new],
         new.kind \in {"plain", "left"} => Own(x, new.root)
  PROVE  RootsInv'
<1>1. \A id \in Id : Loads(id)' => \/ Loads(id) /\ file'[id].root = file[id].root
                                   \/ Owned(id, file'[id].root)
  <2> SUFFICES ASSUME NEW id \in Id, Loads(id)'
               PROVE  \/ Loads(id) /\ file'[id].root = file[id].root
                      \/ Owned(id, file'[id].root)
    OBVIOUS
  <2>1. CASE id = x
    <3>1. file'[id] = new
      BY <2>1 DEF TypeInv, TypeOK
    <3> QED BY <2>1, <3>1 DEF Loads, Own, Owned
  <2>2. CASE id # x
    <3>1. file'[id] = file[id]
      BY <2>2 DEF TypeInv, TypeOK
    <3> QED BY <3>1 DEF Loads
  <2> QED BY <2>1, <2>2
<1> QED BY <1>1, RootsKeep

(* A step that writes no file, and at most one program.                        *)
LEMMA RootsSame ==
  ASSUME TypeInv, RootsInv, UNCHANGED <<file, apart>>, Heap(prog)
  PROVE  RootsInv'
<1>1. \A id \in Id : Loads(id)' => Loads(id) /\ file'[id].root = file[id].root
  BY DEF Loads
<1> QED BY <1>1, RootsKeep

LEMMA RootsProgram ==
  ASSUME TypeInv, RootsInv, UNCHANGED file, apart \subseteq apart', NEW o \in Object, NEW r,
         Heap([prog EXCEPT ![o] = r]),
         \/ prog[o] \in Program /\ r.id = prog[o].id /\ r.root = prog[o].root
         \/ Owned(r.id, r.root)
  PROVE  RootsInv'
<1>1. PICK p : p = [prog EXCEPT ![o] = r]
  OBVIOUS
<1>2. p[o] = r /\ \A q \in Object \ {o} : p[q] = prog[q]
  BY <1>1 DEF TypeInv, TypeOK
<1>3. \A id \in Id : Loads(id)' => Loads(id) /\ file'[id].root = file[id].root
  BY DEF Loads
<1>4. Heap(p)
  BY <1>1
<1>5. \A q \in Object : p[q] \in Program =>
         \/ prog[q] \in Program /\ p[q].id = prog[q].id /\ p[q].root = prog[q].root
         \/ Owned(p[q].id, p[q].root)
  BY <1>2
<1> QED BY <1>3, <1>4, <1>5, RootsKeep

LEMMA LoadOwned ==
  ASSUME RootsInv, NEW id \in Id, NEW e, Loads(id), UNCHANGED apart
  PROVE  Owned(Load(id, e).id, Load(id, e).root)
  BY DEF RootsInv, Own, Owned, Load

LEMMA RequestRoots ==
  ASSUME TypeInv, RootsInv, NEW c \in Call, Request(c)
  PROVE  RootsInv'
<1>1. ASSUME NEW id \in Id, NEW v, NEW root \in Id, CreateServer(c, id, v, root)
      PROVE  RootsInv'
  <2>1. PICK r : r = [id |-> id, env |-> None, vars |-> v, root |-> root]
    OBVIOUS
  <2>2. /\ UNCHANGED file /\ apart \subseteq apart' /\ Owned(id, root)
        /\ \E o \in Object : Heap([prog EXCEPT ![o] = r])
    BY <1>1, <2>1 DEF CreateServer, disk, Owned
  <2>3. Owned(r.id, r.root)
    BY <2>1, <2>2
  <2> QED BY <2>2, <2>3, RootsProgram
<1>2. ASSUME NEW op, NEW id \in Id, NEW data, Handle(c, op, id, data)
      PROVE  RootsInv'
  <2>1. UNCHANGED <<file, apart>>
    BY <1>2 DEF Handle, disk
  <2>2. CASE Heap(prog)
    BY <2>1, <2>2, RootsSame
  <2>3. ASSUME Loads(id), NEW o \in Object, NEW e \in Object, Heap([prog EXCEPT ![o] = Load(id, e)])
        PROVE  RootsInv'
    BY <2>1, <2>3, LoadOwned, RootsProgram
  <2> QED BY <1>2, <2>2, <2>3 DEF Handle
<1> QED BY <1>1, <1>2 DEF Request

LEMMA CreateRoots ==
  ASSUME TypeInv, RootsInv, AnswersInv, NEW c \in Call, Create(c)
  PROVE  RootsInv'
<1>1. PICK x : x = call[c].id
  OBVIOUS
<1>2. PICK o : o = call[c].prg
  OBVIOUS
<1>3. o \in Object /\ prog[o] \in Program /\ prog[o].id = x /\ Own(x, prog[o].root)
  <2>1. Writing(c)
    BY DEF Create, CreateFile, CreateEncode, CreateUnknown, CreateEnvironment, CreateAppend, At, Writing, Writers
  <2>2. o \in Object /\ prog[o] \in Program /\ prog[o].id = x
    BY <1>1, <1>2, <2>1, WriterIs
  <2> QED BY <2>2 DEF RootsInv
<1>4. UNCHANGED apart
  BY DEF Create, CreateFile, CreateEncode, CreateUnknown, CreateEnvironment, CreateAppend
<1>5. \A new \in {NoFile, Empty, Garbage, Plain(prog[o])} : new.kind \in {"plain", "left"} => Own(x, new.root)
  BY <1>3 DEF NoFile, Empty, Garbage, Plain
<1>6. CASE CreateFile(c) \/ CreateUnknown(c)
  <2>1. Heap(prog) /\ (UNCHANGED file \/ \E new \in {NoFile, Empty} : file' = [file EXCEPT ![x] = new])
    BY <1>1, <1>6 DEF CreateFile, CreateUnknown
  <2> QED BY <1>4, <1>5, <2>1, RootsFile, RootsSame
<1>7. CASE CreateEncode(c)
  <2>1. Heap(prog) /\ \E new \in {NoFile, Garbage, Plain(prog[o])} : file' = [file EXCEPT ![x] = new]
    BY <1>1, <1>2, <1>7 DEF CreateEncode, Written
  <2> QED BY <1>4, <1>5, <2>1, RootsFile
<1>8. CASE CreateEnvironment(c)
  <2>1. CASE Heap(prog) /\ file' = [file EXCEPT ![x] = NoFile]
    BY <1>4, <1>5, <2>1, RootsFile
  <2>2. ASSUME NEW e \in Object, Heap([prog EXCEPT ![o].env = e]), UNCHANGED file PROVE RootsInv'
    <3>1. PICK r : r = [prog[o] EXCEPT !.env = e]
      OBVIOUS
    <3>2. r.id = prog[o].id /\ r.root = prog[o].root
      BY <1>3, <3>1 DEF Program
    <3>3. Heap([prog EXCEPT ![o] = r])
      BY <2>2, <3>1
    <3> QED BY <1>3, <1>4, <2>2, <3>2, <3>3, RootsProgram
  <2> QED BY <1>1, <1>2, <1>8, <2>1, <2>2 DEF CreateEnvironment
<1>9. CASE CreateAppend(c)
  BY <1>4, <1>9, RootsSame DEF CreateAppend, disk
<1> QED BY <1>6, <1>7, <1>8, <1>9 DEF Create

LEMMA StepRoots ==
  ASSUME TypeInv, RootsInv, NEW c \in Call, Delete(c) \/ Edit(c) \/ Reload(c) \/ Install(c) \/ Start(c)
  PROVE  RootsInv'
<1>1. CASE DeleteFind(c) \/ Destroy(c) \/ Install(c) \/ Start(c)
  <2>1. Heap(prog) /\ UNCHANGED <<file, apart>>
    BY <1>1 DEF DeleteFind, Destroy, Install, Start, disk
  <2> QED BY <2>1, RootsSame
<1>2. CASE DeleteUnlink(c)
  <2>1. PICK x : x = prog[call[c].prg].id
    OBVIOUS
  <2>2. x \in Id
    BY <1>2, <2>1, SaysType DEF DeleteUnlink, At, TypeInv, Live, Program
  <2>3. \A new \in {NoFile, Leave(x)} : new.kind \in {"plain", "left"} => Own(x, new.root)
    BY <2>2 DEF NoFile, Leave, Loads, RootsInv
  <2>4. /\ Heap(prog) /\ UNCHANGED apart
        /\ \E new \in {NoFile, Leave(x)} : file' = [file EXCEPT ![x] = new]
    BY <1>2, <2>1 DEF DeleteUnlink
  <2> QED BY <2>3, <2>4, RootsFile
<1>3. CASE EditSet(c)
  <2>1. PICK o : o = call[c].prg
    OBVIOUS
  <2>2. o \in Object /\ prog[o] \in Program
    BY <1>3, <2>1, SaysType DEF EditSet, At, TypeInv, Live
  <2>3. PICK r : r = [prog[o] EXCEPT !.vars = call[c].data]
    OBVIOUS
  <2>4. r.id = prog[o].id /\ r.root = prog[o].root
    BY <2>2, <2>3 DEF Program
  <2>5. Heap([prog EXCEPT ![o] = r]) /\ UNCHANGED <<file, apart>>
    BY <1>3, <2>1, <2>3 DEF EditSet, disk
  <2> QED BY <2>2, <2>4, <2>5, RootsProgram
<1>4. CASE SaveTruncate(c) \/ SaveWrite(c)
  <2>1. PICK x : x = call[c].id
    OBVIOUS
  <2>2. \A new \in {NoFile, Empty, Garbage, Saved(call[c].data)} : new.kind \notin {"plain", "left"}
    BY DEF NoFile, Empty, Garbage, Saved
  <2>3. /\ Heap(prog) /\ UNCHANGED apart
        /\ \/ UNCHANGED file
           \/ \E new \in {NoFile, Empty, Garbage, Saved(call[c].data)} : file' = [file EXCEPT ![x] = new]
    BY <1>4, <2>1 DEF SaveTruncate, SaveWrite, Written
  <2> QED BY <2>2, <2>3, RootsFile, RootsSame
<1>5. CASE Reload(c)
  <2>1. UNCHANGED <<file, apart>>
    BY <1>5 DEF Reload, disk
  <2>2. CASE Heap(prog)
    BY <2>1, <2>2, RootsSame
  <2>3. ASSUME NEW o \in Object, NEW e \in Object, GetFromCache(call[c].id, o), Loads(call[c].id),
               Heap([prog EXCEPT ![o] = Load(call[c].id, e)])
        PROVE  RootsInv'
    <3>1. call[c].id \in Id
      BY <2>3, FirstType DEF GetFromCache, Program
    <3> QED BY <2>1, <2>3, <3>1, LoadOwned, RootsProgram
  <2> QED BY <1>5, <2>2, <2>3 DEF Reload
<1> QED BY <1>1, <1>2, <1>3, <1>4, <1>5 DEF Delete, Edit

LEMMA RootsStep == TypeInv /\ AnswersInv /\ RootsInv /\ [Next]_vars => RootsInv'
<1> SUFFICES ASSUME TypeInv, AnswersInv, RootsInv, [Next]_vars PROVE RootsInv'
  OBVIOUS
<1>1. ASSUME NEW c \in Call, Request(c) \/ Step(c) PROVE RootsInv'
  BY <1>1, RequestRoots, CreateRoots, StepRoots DEF Step
<1>2. CASE (\E e \in Object : Exit(e)) \/ Crash
  <2>1. Heap(prog) /\ UNCHANGED <<file, apart>>
    BY <1>2 DEF Exit, Crash, disk
  <2> QED BY <2>1, RootsSame
<1>3. CASE LoadFromFolder
  <2>1. UNCHANGED <<file, apart>>
    BY <1>3 DEF LoadFromFolder, disk
  <2>2. CASE UNCHANGED prog
    BY <2>1, <2>2 DEF RootsInv, Own, Loads
  <2>3. ASSUME NEW n, NEW order, order \in [1 .. n -> {id \in Id : Loads(id)}], n \in Nat,
               prog' = [o \in Object |-> IF o <= n THEN Load(order[o], o) ELSE None]
        PROVE  RootsInv'
    <3>1. ASSUME NEW o \in Object, prog'[o] \in Program PROVE Own(prog'[o].id, prog'[o].root)
      <4>1. o <= n /\ o \in 1 .. n /\ prog'[o] = Load(order[o], o)
        BY <2>3, <3>1, RegistryAssumption DEF Object
      <4>2. PICK id \in Id : id = order[o] /\ Loads(id)
        BY <2>3, <4>1
      <4> QED BY <4>1, <4>2 DEF Load, RootsInv
    <3> QED BY <2>1, <3>1 DEF RootsInv, Own, Loads
  <2>4. Cardinality({id \in Id : Loads(id)}) \in Nat
    BY RegistryAssumption, FS_Subset, FS_CardinalityType
  <2> QED BY <1>3, <2>2, <2>3, <2>4 DEF LoadFromFolder
<1>4. CASE UNCHANGED vars
  BY <1>4 DEF vars, disk, RootsInv, Own, Loads
<1> QED BY <1>1, <1>2, <1>3, <1>4 DEF Next

LEMMA AnswersStep ==
  ASSUME Overlap = FALSE
  PROVE  TypeInv /\ Quiet /\ IndexInv /\ RootsInv /\ AnswersInv /\ [Next]_vars => AnswersInv'
<1> SUFFICES ASSUME TypeInv, Quiet, IndexInv, RootsInv, AnswersInv, [Next]_vars PROVE AnswersInv'
  OBVIOUS
<1>0. TypeInv'
  BY NextKeeps
<1>1. ASSUME NEW c \in Call, Request(c) PROVE AnswersInv'
  <2>1. PICK id \in Id : \/ \E v \in Value, root \in Id : CreateServer(c, id, v, root)
                         \/ \E v \in Value : Handle(c, "edit", id, v)
                         \/ \E op \in {"delete", "reload", "install", "start"} : Handle(c, op, id, None)
    BY <1>1 DEF Request, Value
  <2> QED BY <1>0, <2>1, CreateServerTrue, HandleTrue
<1>2. ASSUME NEW c \in Call, Create(c) PROVE AnswersInv'
  BY <1>0, <1>2, CreateFileTrue, CreateEncodeTrue, CreateUnknownTrue, CreateEnvironmentTrue, CreateAppendTrue
     DEF Create
<1>3. ASSUME NEW c \in Call, Delete(c) PROVE AnswersInv'
  BY <1>0, <1>3, DeleteFindTrue, DestroyTrue, DeleteUnlinkTrue DEF Delete
<1>4. ASSUME NEW c \in Call, Edit(c) PROVE AnswersInv'
  BY <1>0, <1>4, EditSetTrue, SaveTruncateTrue, SaveWriteTrue DEF Edit
<1>5. ASSUME NEW c \in Call, Reload(c) \/ Install(c) \/ Start(c) PROVE AnswersInv'
  BY <1>0, <1>5, ReloadTrue, InstallTrue, StartTrue
<1>6. ASSUME NEW e \in Object, Exit(e) PROVE AnswersInv'
  BY <1>0, <1>6, ExitTrue
<1>7. CASE UNCHANGED vars
  <2>1. \A id \in Id : (Fact(id, told[id])' <=> Fact(id, told[id])) /\ (Whole(id)' <=> Whole(id))
    BY <1>7 DEF vars, disk, Fact, Whole, Clear, Loads, Contents, Entries
  <2>2. \A c \in Call : (Owner(c)' <=> Owner(c)) /\ (Stage(c)' <=> Stage(c)) /\ (Writing(c)' <=> Writing(c))
    BY <1>7 DEF vars, disk, Owner, Stage, Writing, Fact, Clear, Loads, Contents, Entries
  <2>3. \A c \in Call : Appending(c)' <=> Appending(c)
    BY <1>7 DEF vars, Appending, Writing
  <2> QED BY <1>7, <2>1, <2>2, <2>3 DEF vars, disk, AnswersInv, Unique
<1> QED BY <1>1, <1>2, <1>3, <1>4, <1>5, <1>6, <1>7, CrashTrue, LoadFromFolderTrue DEF Next, Step

LEMMA AnswersInvCorrect ==
  ASSUME Overlap = FALSE
  PROVE  Spec => [](TypeInv /\ Quiet /\ IndexInv /\ RootsInv /\ AnswersInv)
<1>1. Init => IndexInv
  BY DEF Init, IndexInv, Deleting, Free
<1>2. Init => AnswersInv
  <2> SUFFICES ASSUME Init PROVE AnswersInv
    OBVIOUS
  <2>1. \A id \in Id : Fact(id, told[id])
    BY RegistryAssumption DEF Init, Fact, Clear, Contents, Entries
  <2>2. \A id \in Id : Whole(id)
    BY DEF Init, Whole, NoFile
  <2> QED BY <2>1, <2>2 DEF Init, AnswersInv, Unique, Writing, Writers, Free
<1>2a. Init => RootsInv
  BY RegistryAssumption DEF Init, RootsInv, Loads, NoFile
<1>3. TypeInv /\ Quiet /\ IndexInv /\ RootsInv /\ AnswersInv /\ [Next]_vars => AnswersInv'
  BY AnswersStep
<1>4. TypeInv /\ Quiet /\ IndexInv /\ [Next]_vars => IndexInv'
  BY IndexStep
<1>5. TypeInv /\ AnswersInv /\ RootsInv /\ [Next]_vars => RootsInv'
  BY RootsStep
<1> QED BY <1>1, <1>2, <1>2a, <1>3, <1>4, <1>5, TypeInvariant, PTL DEF Spec

(* What was last answered about a server holds, for any number of servers and  *)
(* requests, through every interleaving with the requests of other servers and *)
(* every crash, if no two requests change one server at once; the file that a  *)
(* Delete could not remove and the directory that a Create took from another   *)
(* server are the two exceptions AnswersTrue makes.                            *)
THEOREM AnswersTrueCorrect ==
  ASSUME Overlap = FALSE
  PROVE  Spec => []AnswersTrue
<1>1. TypeInv /\ AnswersInv => AnswersTrue
  <2> SUFFICES ASSUME TypeInv, AnswersInv, NEW id \in Id, told[id] # "unsure"
               PROVE  IF told[id] = "none"
                      THEN \/ file[id].kind = "left"
                           \/ file[id] = NoFile /\ Entries(id) = {} /\ (dir[id] => id \in apart)
                      ELSE /\ file[id].vars = told[id]
                           /\ daemon = "up" =>
                                 /\ Loads(id) => Entries(id) # {}
                                 /\ \A i, j \in Entries(id) : i = j /\ prog[allPrograms[i]].vars = told[id]
    BY DEF AnswersTrue
  <2>1. Fact(id, told[id]) /\ Unique /\ told[id] \in Value \cup {"none"}
    BY DEF TypeInv, TypeOK, AnswersInv
  <2>2. CASE told[id] = "none"
    BY <2>1, <2>2 DEF Fact, Clear, Contents
  <2>3. CASE told[id] # "none"
    <3>1. \A i, j \in Entries(id) : i = j
      BY <2>1 DEF Unique, Entries
    <3> QED BY <2>1, <2>3, <3>1 DEF Fact, Contents
  <2> QED BY <2>2, <2>3
<1> QED BY <1>1, AnswersInvCorrect, PTL

(* The only file that keeps a daemon from being started is one that a killed   *)
(* daemon was about to write: a request that has been answered left none.      *)
THEOREM DeadByTornFileCorrect ==
  ASSUME Overlap = FALSE
  PROVE  Spec => []DeadByTornFile
<1>1. TypeInv /\ AnswersInv => DeadByTornFile
  <2> SUFFICES ASSUME TypeInv, AnswersInv, NEW id \in Id, file[id] = Empty PROVE told[id] = "unsure"
    BY DEF AnswersInv, DeadByTornFile
  <2>1. told[id] \in Value \cup {"none", "unsure"} /\ Fact(id, told[id])
    BY DEF TypeInv, TypeOK, AnswersInv
  <2> QED BY <2>1, RegistryAssumption DEF Fact, Empty, NoFile
<1> QED BY <1>1, AnswersInvCorrect, PTL

(* The directory a registered program works in is removed only by a Delete of  *)
(* a server that works there, or by the revert of the Create of another one    *)
(* that named it: a Create that takes back what it did is never of a server    *)
(* that has an entry.                                                          *)
THEOREM DataKeptCorrect ==
  ASSUME Overlap = FALSE
  PROVE  Spec => DataKept
<1>1. ASSUME TypeInv, AnswersInv, [Next]_vars, NEW o \in Registered, dir[prog[o].root], ~dir'[prog[o].root]
      PROVE  \E c \in Call : /\ call[c].prg # None /\ Root(c) = prog[o].root
                             /\ \/ At(c, "delete", "uninstall")
                                \/ At(c, "create", "environment") /\ call[c].id # prog[o].id
  <2>1. dir \in [Id -> BOOLEAN] /\ dir' # dir
    BY <1>1 DEF TypeInv, TypeOK
  <2>2. PICK c \in Call : CreateEnvironment(c) \/ Destroy(c) \/ Install(c)
    <3>1. \E c \in Call : Request(c) \/ Step(c)
      BY <1>1, <2>1 DEF Next, Exit, Crash, LoadFromFolder, disk, vars
    <3>2. PICK c \in Call : Request(c) \/ Step(c)
      BY <3>1
    <3>3. ~Request(c)
      BY <2>1 DEF Request, CreateServer, Handle, disk
    <3>4. ~(CreateFile(c) \/ CreateEncode(c) \/ CreateUnknown(c) \/ CreateAppend(c))
      BY <2>1 DEF CreateFile, CreateEncode, CreateUnknown, CreateAppend, disk
    <3>5. ~(DeleteFind(c) \/ DeleteUnlink(c) \/ Edit(c))
      BY <2>1 DEF DeleteFind, DeleteUnlink, Edit, EditSet, SaveTruncate, SaveWrite, disk
    <3>6. ~(Reload(c) \/ Start(c))
      BY <2>1 DEF Reload, Start, disk
    <3> QED BY <3>2, <3>3, <3>4, <3>5, <3>6 DEF Step, Create, Delete
  <2>3. /\ call[c].prg \in Object /\ call[c].prg # None
        /\ call[c].op = "create" /\ call[c].at = "environment" => Contents(call[c].id) = {}
    <3>1. Writing(c)
      BY <2>2 DEF CreateEnvironment, Destroy, Install, At, Writing, Writers
    <3>2. None \notin Object
      BY RegistryAssumption DEF Object
    <3> QED BY <1>1, <3>1, <3>2, WriterIs DEF Stage
  <2>4. Root(c) = prog[o].root
    <3>1. dir' = [dir EXCEPT ![Root(c)] = TRUE] \/ dir' = [dir EXCEPT ![Root(c)] = FALSE]
      BY <2>1, <2>2 DEF CreateEnvironment, Destroy, Install
    <3>2. PICK z : z = Root(c)
      OBVIOUS
    <3>3. \A y \in DOMAIN dir : y # z => dir'[y] = dir[y]
      BY <2>1, <3>1, <3>2
    <3>4. prog[o].root \in DOMAIN dir
      BY <1>1, <2>1 DEF Registered, TypeInv, Live, Program
    <3> QED BY <1>1, <3>2, <3>3, <3>4
  <2>5. CASE CreateEnvironment(c)
    <3>1. At(c, "create", "environment")
      BY <2>5 DEF CreateEnvironment
    <3>2. call[c].id # prog[o].id
      BY <1>1, <2>3, <3>1 DEF At, Registered, Contents, Entries
    <3> QED BY <2>3, <2>4, <3>1, <3>2
  <2>6. CASE Destroy(c)
    BY <2>3, <2>4, <2>6 DEF Destroy
  <2>7. CASE Install(c)
    <3>1. dir' = [dir EXCEPT ![Root(c)] = TRUE]
      BY <2>1, <2>7 DEF Install
    <3> QED BY <1>1, <2>1, <2>4, <3>1
  <2> QED BY <2>2, <2>5, <2>6, <2>7
<1>2. TypeInv /\ AnswersInv /\ [Next]_vars =>
        [\A o \in Registered : dir[prog[o].root] /\ ~dir'[prog[o].root] =>
            \E c \in Call : /\ call[c].prg # None /\ Root(c) = prog[o].root
                            /\ \/ At(c, "delete", "uninstall")
                               \/ At(c, "create", "environment") /\ call[c].id # prog[o].id]_vars
  BY <1>1
<1> QED BY <1>2, AnswersInvCorrect, PTL DEF Spec, DataKept
=============================================================================
