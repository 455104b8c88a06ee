--------------------------- MODULE OperationsProofs ---------------------------
(*****************************************************************************)
(* Proofs about Operations, for any installations, directions and files: an  *)
(* installation that succeeds has installed a good jar, a good file in the   *)
(* cache is kept, and a `move` loses nothing.                                *)
(*****************************************************************************)
EXTENDS Operations, FiniteSetTheorems, SequenceTheorems, TLAPS

\* Only directions with a factory are begun.
PlanKnown == \A p \in Proc : job[p].todo \in Seq(Known)
TypeInv   == TypeOK /\ PlanKnown

\* In the middle of a cached file, from its hash to the copy.
InFile == {"sha1", "get", "copy"}

\* The jar a process has written.
JarGood(p) == job[p].jar \in {"none", "good"} \/ job[p].page \/ job[p].spoilt
\* The cached file it has accepted, or downloaded.
CopyGood(p) == at[p] = "copy" => cache[url(p)] = "good" \/ job[p].page \/ job[p].spoilt
HashTrue(p) == at[p] = "sha1" /\ job[p].look = "good" => cache[url(p)] = "good" \/ job[p].spoilt
\* It writes only what it has not found good.
WriteBad(p) == at[p] \in {"create", "get"} => job[p].look # "good"
\* Who shares a file with a process that writes it knows nothing of it.
WritersSpoil == \A p, q \in Proc :
    p # q /\ at[q] = "get" /\ at[p] \in InFile /\ url(p) = url(q) => job[p].spoilt
CacheInv == WritersSpoil /\ \A p \in Proc : JarGood(p) /\ CopyGood(p) /\ HashTrue(p) /\ WriteBad(p)

\* A `move` to a target that is missing is of one file.
MovesFew(p) == job[p].had # "file" =>
    \/ job[p].target.kind = "dir"
    \/ job[p].target.kind = "file" /\ job[p].src = {}
    \/ /\ job[p].target.kind = "none" /\ job[p].target.holds = {}
       /\ at[p] = "rename" => \A s, t \in job[p].src : s = t
MoveInv == \A p \in Proc : MovesFew(p)

-----------------------------------------------------------------------------
(* Types                                                                     *)

Places == Ended \cup Known \cup {"run", "rename", "version", "body", "sha1", "create", "get", "copy", "mods"}

LEMMA NoJobType == NoJob \in Job /\ NoJob.todo \in Seq(Known)
<1>1. <<>> \in Seq(Known) /\ <<>> \in Seq(Known \cup {"unknown"})
      OBVIOUS
<1>2. {} \in SUBSET Src
      OBVIOUS
<1>. QED  BY <1>1, <1>2 DEF NoJob, Job, Content, Target

LEMMA TypeInit == Init => TypeInv
<1>. SUFFICES ASSUME Init PROVE TypeInv
     OBVIOUS
<1>1. at \in [Proc -> Places] /\ cache \in [Url -> Content]
      BY DEF Init, Places, Ended, Content
<1>2. job \in [Proc -> Job] /\ PlanKnown
      BY NoJobType DEF Init, PlanKnown
<1>. QED  BY <1>1, <1>2 DEF TypeInv, TypeOK, Places

\* A step that gives one process a place and a job.
LEMMA TypeJob ==
    ASSUME TypeInv, NEW p \in Proc, NEW place \in Places, NEW r \in Job, r.todo \in Seq(Known),
           Goto(p, place) \/ UNCHANGED at, job' = [job EXCEPT ![p] = r], cache' \in [Url -> Content]
    PROVE  TypeInv'
<1>1. at' \in [Proc -> Places]
      BY DEF TypeInv, TypeOK, Goto, Places
<1>2. job' \in [Proc -> Job]
      BY DEF TypeInv, TypeOK
<1>3. \A q \in Proc : job'[q] = IF q = p THEN r ELSE job[q]
      BY DEF TypeInv, TypeOK
<1>4. PlanKnown'
      BY <1>3 DEF TypeInv, PlanKnown
<1>. QED  BY <1>1, <1>2, <1>4 DEF TypeInv, TypeOK, Places

\* A step that moves one process.
LEMMA TypeGoto ==
    ASSUME TypeInv, NEW p \in Proc, NEW place \in Places, Goto(p, place), UNCHANGED job,
           cache' \in [Url -> Content]
    PROVE  TypeInv'
<1>1. at' \in [Proc -> Places]
      BY DEF TypeInv, TypeOK, Goto, Places
<1>. QED  BY <1>1 DEF TypeInv, TypeOK, PlanKnown, Places

LEMMA TypeFails ==
    ASSUME TypeInv, NEW p \in Proc, Fails(p), cache' \in [Url -> Content]
    PROVE  TypeInv'
BY NoJobType, TypeJob DEF Fails, Places, Ended

LEMMA TypeStep ==
    ASSUME TypeInv, NEW p \in Proc, Step(p)
    PROVE  TypeInv'
<1>. DEFINE j == job[p]
<1>0. j \in Job /\ job \in [Proc -> Job] /\ j.todo \in Seq(Known) /\ cache \in [Url -> Content] /\ url(p) \in Url
      BY DEF TypeInv, TypeOK, PlanKnown, url, Url
<1>. USE DEF Places, Ended, Known, Simple
<1>1. CASE GenerateProcess(p)
  <2>1. PICK plan \in Plans[p] :
             IF \E i \in DOMAIN plan : plan[i] \notin Known THEN Fails(p) ELSE Begin(p, plan)
        BY <1>1 DEF GenerateProcess
  <2>2. plan \in Seq(Known \cup {"unknown"}) /\ cache' = cache
        BY <1>1, OperationsAssumption DEF GenerateProcess
  <2>3. CASE \E i \in DOMAIN plan : plan[i] \notin Known
        BY <1>0, <2>1, <2>2, <2>3, TypeFails
  <2>4. CASE \A i \in DOMAIN plan : plan[i] \in Known
    <3>1. PICK s \in SUBSET Src, kind \in {"none", "file", "dir"} :
               /\ Goto(p, "run")
               /\ job' = [job EXCEPT ![p] = [NoJob EXCEPT !.todo = plan, !.src = s, !.had = kind,
                                                          !.target.kind = kind]]
          BY <2>1, <2>4 DEF Begin
    <3>2. plan \in Seq(Known)
          BY <2>2, <2>4
    <3>3. [NoJob EXCEPT !.todo = plan, !.src = s, !.had = kind, !.target.kind = kind] \in Job
          BY <2>2, NoJobType DEF NoJob, Job, Target
    <3>. QED  BY <1>0, <2>2, <3>1, <3>2, <3>3, TypeJob DEF NoJob
  <2>. QED  BY <2>3, <2>4
<1>2. CASE RunNext(p)
  <2>1. Head(j.todo) \in Known /\ Tail(j.todo) \in Seq(Known)
        BY <1>0, <1>2 DEF RunNext
  <2>2. Tail(j.todo) \in Seq(Known \cup {"unknown"})
        BY <1>0, <1>2 DEF RunNext, Job
  <2>3. PICK st \in {"forge", "dependency"} :
             job' = [job EXCEPT ![p] = [j EXCEPT !.todo = Tail(j.todo), !.stage = st]]
        BY <1>2 DEF RunNext
  <2>. DEFINE r == [j EXCEPT !.todo = Tail(j.todo), !.stage = st]
  <2>4. r \in Job /\ r.todo = Tail(j.todo)
        BY <1>0, <2>2 DEF Job
  <2>5. Goto(p, Head(j.todo)) /\ cache' = cache /\ job' = [job EXCEPT ![p] = r]
        BY <1>2, <2>3 DEF RunNext
  <2>6. Head(j.todo) \in Places
        BY <2>1
  <2>. HIDE DEF r
  <2>. QED  BY <1>0, <2>1, <2>4, <2>5, <2>6, TypeJob
<1>3. CASE Finish(p) \/ RunSimple(p) \/ validateMove(p)
      BY <1>0, <1>3, TypeGoto, TypeFails DEF Finish, RunSimple, validateMove, Ends
<1>4. CASE Rename(p)
  <2>1. ASSUME NEW s \in j.src, UNCHANGED at,
               job' = [job EXCEPT ![p].src = @ \ {s}, ![p].target = Onto(@, s)]
        PROVE  TypeInv'
    <3>1. Onto(j.target, s) \in Target /\ j.src \ {s} \in SUBSET Src
          BY <1>0 DEF Job, Target, Onto
    <3>. DEFINE r == [j EXCEPT !.src = j.src \ {s}, !.target = Onto(j.target, s)]
    <3>2. job' = [job EXCEPT ![p] = r]
          BY <1>0, <2>1
    <3>3. r \in Job /\ r.todo = j.todo
          BY <1>0, <3>1 DEF Job
    <3>4. cache' = cache /\ "rename" \in Places
          BY <1>4 DEF Rename
    <3>. HIDE DEF r
    <3>. QED  BY <1>0, <2>1, <3>2, <3>3, <3>4, TypeJob
  <2>. QED  BY <1>0, <1>4, <2>1, TypeGoto, TypeFails DEF Rename, Ends
<1>5. CASE MojangDl(p) \/ downloadServerFromJson(p) \/ SpongeForgeDl(p)
      BY <1>0, <1>5, TypeGoto, TypeFails DEF MojangDl, downloadServerFromJson, SpongeForgeDl, Ask
<1>6. CASE DownloadFile(p)
  <2>1. ASSUME NEW body \in {"page", "good"},
               Ends(p) /\ job' = [job EXCEPT ![p].jar = body, ![p].page = body = "page"]
        PROVE  TypeInv'
    <3>1. (body = "page") \in BOOLEAN
          OBVIOUS
    <3>. DEFINE r == [j EXCEPT !.jar = body, !.page = body = "page"]
    <3>2. r \in Job /\ r.todo = j.todo
          BY <1>0, <3>1 DEF Job, Content
    <3>3. job' = [job EXCEPT ![p] = r] /\ Goto(p, "run")
          BY <1>0, <2>1 DEF Ends
    <3>4. cache' = cache /\ "run" \in Places
          BY <1>6 DEF DownloadFile
    <3>. HIDE DEF r
    <3>. QED  BY <1>0, <3>2, <3>3, <3>4, TypeJob
  <2>. QED  BY <1>0, <1>6, <2>1, TypeFails DEF DownloadFile
<1>7. CASE Hash(p)
  <2>1. PICK l \in {"good", "bad"}, b \in BOOLEAN :
             (cache[url(p)] # "none" /\ Fails(p)) \/
             /\ Goto(p, IF cache[url(p)] = "none" THEN "create" ELSE "sha1")
             /\ job' = [job EXCEPT ![p] = [j EXCEPT !.look = l, !.spoilt = b]]
        BY <1>7 DEF Hash
  <2>2. [j EXCEPT !.look = l, !.spoilt = b] \in Job
        BY <1>0 DEF Job
  <2>3. [j EXCEPT !.look = l, !.spoilt = b].todo = j.todo
        BY <1>0 DEF Job
  <2>. QED  BY <1>0, <1>7, <2>1, <2>2, <2>3, TypeJob, TypeFails DEF Hash
<1>8. CASE Sha1(p)
  <2>1. [j EXCEPT !.look = "unknown"] \in Job /\ [j EXCEPT !.look = "unknown"].todo = j.todo
        BY <1>0 DEF Job
  <2>. QED  BY <1>0, <1>8, <2>1, TypeGoto, TypeJob DEF Sha1
<1>9. CASE CacheCreate(p)
  <2>1. CASE Fails(p) /\ UNCHANGED cache
        BY <1>0, <2>1, TypeFails
  <2>2. CASE ~(Fails(p) /\ UNCHANGED cache)
    <3>1. /\ at' = [at EXCEPT ![p] = "get"] /\ cache' = [cache EXCEPT ![url(p)] = "part"]
          /\ \A q \in Proc : \E b \in BOOLEAN : job'[q] = [job[q] EXCEPT !.spoilt = b]
          /\ job' = [q \in Proc |-> job'[q]]
          BY <1>9, <2>2 DEF CacheCreate, Goto
    <3>2. ASSUME NEW q \in Proc
          PROVE  job'[q] \in Job /\ job'[q].todo \in Seq(Known)
      <4>1. job[q] \in Job /\ job[q].todo \in Seq(Known)
            BY DEF TypeInv, TypeOK, PlanKnown
      <4>. QED  BY <3>1, <4>1 DEF Job
    <3>3. at' \in [Proc -> Places] /\ cache' \in [Url -> Content]
          BY <1>0, <3>1 DEF TypeInv, TypeOK, Content
    <3>4. job' \in [Proc -> Job]
          BY <3>1, <3>2
    <3>. QED  BY <3>2, <3>3, <3>4 DEF TypeInv, TypeOK, PlanKnown
  <2>. QED  BY <2>1, <2>2
<1>10. CASE DownloadFileToCache(p)
  <2>1. CASE Fails(p) /\ UNCHANGED cache
        BY <1>0, <2>1, TypeFails
  <2>2. CASE ~(Fails(p) /\ UNCHANGED cache)
    <3>1. PICK body \in {"page", "good"} :
               /\ Goto(p, "copy")
               /\ \E left \in Content : cache' = [cache EXCEPT ![url(p)] = left]
               /\ job' = [job EXCEPT ![p].page = @ \/ body = "page"]
          BY <1>10, <2>2 DEF DownloadFileToCache, Content
    <3>2. cache' \in [Url -> Content]
          BY <1>0, <3>1
    <3>3. PICK b \in BOOLEAN : job' = [job EXCEPT ![p] = [j EXCEPT !.page = b]]
          BY <3>1
    <3>4. [j EXCEPT !.page = b] \in Job /\ [j EXCEPT !.page = b].todo = j.todo
          BY <1>0 DEF Job
    <3>. QED  BY <1>0, <3>1, <3>2, <3>3, <3>4, TypeJob
  <2>. QED  BY <2>1, <2>2
<1>11. CASE CopyFile(p)
  <2>1. ASSUME NEW read \in Content
        PROVE  [j EXCEPT !.jar = read] \in Job /\ [j EXCEPT !.jar = read].todo = j.todo
        BY <1>0 DEF Job
  <2>2. cache[url(p)] \in Content /\ Content \ {"none"} \subseteq Content
        BY <1>0
  <2>. QED  BY <1>0, <1>11, <2>1, <2>2, TypeGoto, TypeJob, TypeFails DEF CopyFile, Ends
<1>12. CASE Mods(p)
  <2>1. [j EXCEPT !.stage = "artifact"] \in Job /\ [j EXCEPT !.stage = "artifact"].todo = j.todo
        BY <1>0 DEF Job
  <2>. QED  BY <1>0, <1>12, <2>1, TypeJob, TypeFails DEF Mods
<1>. QED  BY <1>1, <1>2, <1>3, <1>4, <1>5, <1>6, <1>7, <1>8, <1>9, <1>10, <1>11, <1>12 DEF Step

LEMMA TypeNext == TypeInv /\ [Next]_vars => TypeInv'
<1>1. CASE UNCHANGED vars
      BY <1>1 DEF TypeInv, TypeOK, PlanKnown, vars
<1>2. ASSUME TypeInv, Kill
      PROVE  TypeInv'
      BY <1>2, NoJobType DEF Kill, TypeInv, TypeOK, PlanKnown, Ended
<1>. QED  BY <1>1, <1>2, TypeStep DEF Next

(* Every process is at a place of its directions, and only directions that   *)
(* have a factory are ever begun.                                            *)
THEOREM TypeCorrect == Spec => [](TypeOK /\ PlanKnown)
BY TypeInit, TypeNext, PTL DEF Spec, TypeInv

-----------------------------------------------------------------------------
(* The cache                                                               *)

Own(p) == JarGood(p) /\ CopyGood(p) /\ HashTrue(p) /\ WriteBad(p)
\* The steps that write a cached file.
Writes(p) == CacheCreate(p) \/ DownloadFileToCache(p)

\* A step of one process leaves the others alone, and the cache too unless it
\* writes a cached file.
LEMMA StepFrame ==
    ASSUME TypeInv, NEW p \in Proc, Step(p)
    PROVE  /\ \A q \in Proc \ {p} : at'[q] = at[q]
           /\ ~CacheCreate(p) => \A q \in Proc \ {p} : job'[q] = job[q]
           /\ ~Writes(p) => cache' = cache
<1>. USE DEF TypeInv, TypeOK, Goto, Ends, Fails, Writes, Ask
<1>1. CASE GenerateProcess(p) \/ RunNext(p) \/ Finish(p) \/ RunSimple(p)
      BY <1>1 DEF GenerateProcess, Begin, RunNext, Finish, RunSimple
<1>2. CASE validateMove(p) \/ Rename(p)
      BY <1>2 DEF validateMove, Rename
<1>3. CASE MojangDl(p) \/ downloadServerFromJson(p) \/ DownloadFile(p) \/ SpongeForgeDl(p)
      BY <1>3 DEF MojangDl, downloadServerFromJson, DownloadFile, SpongeForgeDl
<1>4. CASE Hash(p) \/ Sha1(p) \/ CopyFile(p) \/ Mods(p)
      BY <1>4 DEF Hash, Sha1, CopyFile, Mods
<1>5. CASE CacheCreate(p)
      BY <1>5 DEF CacheCreate
<1>6. CASE DownloadFileToCache(p)
      BY <1>6 DEF DownloadFileToCache
<1>. QED  BY <1>1, <1>2, <1>3, <1>4, <1>5, <1>6 DEF Step

\* A step that leaves the cache and the others alone keeps the invariant if it
\* keeps it for the process, which learns of any that writes the file it comes to.
LEMMA Reads ==
    ASSUME TypeInv, CacheInv, NEW p \in Proc, Own(p)', at'[p] # "get", cache' = cache,
           \A q \in Proc \ {p} : at'[q] = at[q] /\ job'[q] = job[q],
           at'[p] \in InFile => \A q \in Proc \ {p} :
               at[q] = "get" /\ url(q) = url(p)' => job'[p].spoilt
    PROVE  CacheInv'
<1>1. \A q \in Proc \ {p} : at'[q] = at[q] /\ job'[q] = job[q]
      OBVIOUS
<1>2. cache' = cache
      OBVIOUS
<1>3. \A q \in Proc \ {p} : (url(q))' = url(q)
      BY <1>1 DEF url
<1>4. ASSUME NEW q \in Proc \ {p}
      PROVE  Own(q)'
      BY <1>1, <1>2, <1>3 DEF CacheInv, Own, JarGood, CopyGood, HashTrue, WriteBad
<1>5. ASSUME NEW q1 \in Proc, NEW q2 \in Proc, q1 # q2, at'[q2] = "get", at'[q1] \in InFile,
             (url(q1) = url(q2))'
      PROVE  job'[q1].spoilt
  <2>1. q2 # p /\ at[q2] = "get" /\ (url(q2))' = url(q2)
        BY <1>1, <1>3, <1>5
  <2>2. CASE q1 = p
        BY <1>5, <2>1, <2>2
  <2>3. CASE q1 # p
        BY <1>1, <1>3, <1>5, <2>1, <2>3 DEF CacheInv, WritersSpoil
  <2>. QED  BY <2>2, <2>3
<1>. QED  BY <1>4, <1>5 DEF CacheInv, Own, WritersSpoil

LEMMA CacheRead ==
    ASSUME TypeInv, CacheInv, NEW p \in Proc, Step(p), ~Writes(p)
    PROVE  CacheInv'
<1>. DEFINE j == job[p]
<1>0. /\ j \in Job /\ job \in [Proc -> Job] /\ at \in [Proc -> Places] /\ cache' = cache
      /\ j.todo \in Seq(Known) /\ JarGood(p) /\ CopyGood(p) /\ HashTrue(p) /\ WriteBad(p)
      BY StepFrame DEF TypeInv, TypeOK, PlanKnown, CacheInv, Places
<1>. \A q \in Proc \ {p} : at'[q] = at[q] /\ job'[q] = job[q]
      BY StepFrame DEF Writes
<1>. cache' = cache
      BY <1>0
<1>. USE DEF Goto, Ends, Own, JarGood, CopyGood, HashTrue, WriteBad, InFile
<1>1. CASE Fails(p)
      BY <1>0, <1>1, Reads DEF Fails, NoJob
<1>2. CASE GenerateProcess(p)
  <2>1. CASE \E plan \in Plans[p] : Begin(p, plan)
    <3>1. PICK s \in SUBSET Src, kind \in {"none", "file", "dir"}, plan \in Plans[p] :
               /\ Goto(p, "run")
               /\ job' = [job EXCEPT ![p] = [NoJob EXCEPT !.todo = plan, !.src = s, !.had = kind,
                                                          !.target.kind = kind]]
          BY <2>1 DEF Begin
    <3>2. job'[p].jar = "none" /\ at'[p] = "run"
          BY <1>0, <3>1 DEF NoJob
    <3>. QED  BY <3>2, Reads
  <2>. QED  BY <1>1, <1>2, <2>1 DEF GenerateProcess
<1>3. CASE RunNext(p) \/ Finish(p)
  <2>1. Head(j.todo) \in Known \/ j.todo = <<>>
        BY <1>0
  <2>2. at'[p] \in Known \cup {"done"}
        BY <1>0, <1>3, <2>1 DEF RunNext, Finish
  <2>3. PICK todo, stage : job'[p] = [j EXCEPT !.todo = todo, !.stage = stage] \/ job' = job
    <3>1. CASE RunNext(p)
          BY <1>0, <3>1 DEF RunNext
    <3>2. CASE Finish(p)
          BY <3>2 DEF Finish
    <3>. QED  BY <1>3, <3>1, <3>2
  <2>4. job'[p].jar = j.jar /\ job'[p].page = j.page /\ job'[p].spoilt = j.spoilt
        BY <1>0, <2>3 DEF Job
  <2>. QED  BY <1>0, <2>2, <2>4, Reads DEF Known, Simple
<1>4. CASE RunSimple(p) \/ validateMove(p)
      BY <1>0, <1>1, <1>4, Reads DEF RunSimple, validateMove
<1>5. CASE Rename(p)
  <2>1. ASSUME NEW s \in j.src, UNCHANGED at, at[p] = "rename",
               job' = [job EXCEPT ![p].src = @ \ {s}, ![p].target = Onto(@, s)]
        PROVE  CacheInv'
    <3>1. job'[p].jar = j.jar /\ job'[p].page = j.page /\ job'[p].spoilt = j.spoilt
          BY <1>0, <2>1 DEF Job
    <3>. QED  BY <1>0, <2>1, <3>1, Reads
  <2>2. CASE Ends(p) /\ UNCHANGED job
        BY <1>0, <2>2, Reads
  <2>. QED  BY <1>1, <1>5, <2>1, <2>2 DEF Rename
<1>6. CASE MojangDl(p) \/ downloadServerFromJson(p) \/ SpongeForgeDl(p)
      BY <1>0, <1>1, <1>6, Reads DEF MojangDl, downloadServerFromJson, SpongeForgeDl, Ask
<1>7. CASE DownloadFile(p)
  <2>1. ASSUME NEW body \in {"page", "good"}, Ends(p),
               job' = [job EXCEPT ![p].jar = body, ![p].page = body = "page"]
        PROVE  CacheInv'
    <3>1. job'[p].jar = body /\ job'[p].page = (body = "page") /\ at'[p] = "run"
          BY <1>0, <2>1 DEF Job
    <3>. QED  BY <3>1, Reads
  <2>. QED  BY <1>1, <1>7, <2>1 DEF DownloadFile
<1>8. CASE Hash(p)
  <2>. DEFINE r == [j EXCEPT !.look = IF cache[url(p)] = "good" THEN "good" ELSE "bad",
                             !.spoilt = @ \/ Written(p)]
  <2>1. CASE /\ at' = [at EXCEPT ![p] = IF cache[url(p)] = "none" THEN "create" ELSE "sha1"]
             /\ job' = [job EXCEPT ![p] = r]
    <3>1. /\ job'[p].jar = j.jar /\ job'[p].page = j.page /\ job'[p].stage = j.stage
          /\ job'[p].look = IF cache[url(p)] = "good" THEN "good" ELSE "bad"
          /\ job'[p].spoilt = (j.spoilt \/ Written(p))
          BY <1>0, <2>1 DEF Job
    <3>2. (url(p))' = url(p)
          BY <3>1 DEF url
    <3>3. at'[p] = IF cache[url(p)] = "none" THEN "create" ELSE "sha1"
          BY <1>0, <2>1
    <3>4. ASSUME NEW q \in Proc \ {p}, at[q] = "get", url(q) = url(p)
          PROVE  Written(p)
          BY <3>4 DEF Written, Sharing
    <3>. QED  BY <1>0, <3>1, <3>2, <3>3, <3>4, Reads
  <2>. QED  BY <1>0, <1>1, <1>8, <2>1 DEF Hash
<1>9. CASE Sha1(p)
  <2>1. /\ at[p] = "sha1" /\ job'[p].jar = j.jar /\ job'[p].page = j.page /\ job'[p].stage = j.stage
        /\ job'[p].spoilt = j.spoilt /\ job'[p].look \in {j.look, "unknown"}
        /\ at'[p] = "copy" => j.look = "good"
        /\ at'[p] = "create" => job'[p].look # "good"
        /\ at'[p] \in {"copy", "create"}
        BY <1>0, <1>9 DEF Sha1, Job
  <2>2. (url(p))' = url(p)
        BY <2>1 DEF url
  <2>3. \A q \in Proc \ {p} : at[q] = "get" /\ url(q) = url(p)' => job'[p].spoilt
        BY <2>1, <2>2 DEF CacheInv, WritersSpoil
  <2>. QED  BY <1>0, <2>1, <2>2, <2>3, Reads
<1>10. CASE CopyFile(p)
  <2>1. CASE job' = job /\ at'[p] = "run"
        BY <1>0, <2>1, Reads
  <2>2. ASSUME NEW read, read = cache[url(p)] \/ j.spoilt, at[p] = "copy",
               job' = [job EXCEPT ![p].jar = read], at'[p] \in {"mods", "run"}
        PROVE  CacheInv'
    <3>1. job'[p].jar = read /\ job'[p].page = j.page /\ job'[p].spoilt = j.spoilt
          BY <1>0, <2>2 DEF Job
    <3>. QED  BY <1>0, <2>2, <3>1, Reads
  <2>. QED  BY <1>0, <1>1, <1>10, <2>1, <2>2 DEF CopyFile
<1>11. CASE Mods(p)
  <2>1. ASSUME job' = [job EXCEPT ![p].stage = "artifact"], at'[p] = "forgedl"
        PROVE  CacheInv'
    <3>1. job'[p].jar = j.jar /\ job'[p].page = j.page /\ job'[p].spoilt = j.spoilt
          BY <1>0, <2>1 DEF Job
    <3>. QED  BY <1>0, <2>1, <3>1, Reads
  <2>. QED  BY <1>0, <1>1, <1>11, <2>1 DEF Mods
<1>. QED  BY <1>2, <1>3, <1>4, <1>5, <1>6, <1>7, <1>8, <1>9, <1>10, <1>11 DEF Step, Writes

LEMMA CacheFails ==
    ASSUME TypeInv, CacheInv, NEW p \in Proc, Fails(p), cache' = cache
    PROVE  CacheInv'
<1>1. \A q \in Proc \ {p} : at'[q] = at[q] /\ job'[q] = job[q]
      BY DEF Fails, Goto, TypeInv, TypeOK
<1>2. at'[p] = "failed" /\ job'[p] = NoJob
      BY DEF Fails, Goto, TypeInv, TypeOK
<1>. QED  BY <1>1, <1>2, Reads DEF NoJob, Own, JarGood, CopyGood, HashTrue, WriteBad, InFile

\* Creating a cached file is known to all who are in the middle of it.
LEMMA CacheCreates ==
    ASSUME TypeInv, CacheInv, NEW p \in Proc, CacheCreate(p)
    PROVE  CacheInv'
<1>1. CASE Fails(p) /\ UNCHANGED cache
      BY <1>1, CacheFails
<1>2. CASE ~(Fails(p) /\ UNCHANGED cache)
  <2>1. /\ at[p] = "create" /\ cache' = [cache EXCEPT ![url(p)] = "part"]
        /\ at' = [at EXCEPT ![p] = "get"]
        /\ job' = [q \in Proc |-> [job[q] EXCEPT !.spoilt = \/ @
                                                            \/ q \in Sharing(p)
                                                            \/ q = p /\ Written(p)]]
        BY <1>2 DEF CacheCreate, Goto
  <2>2. at'[p] = "get" /\ \A q \in Proc \ {p} : at'[q] = at[q]
        BY <2>1 DEF TypeInv, TypeOK
  <2>3. ASSUME NEW q \in Proc
        PROVE  /\ job'[q].jar = job[q].jar /\ job'[q].page = job[q].page
               /\ job'[q].look = job[q].look /\ job'[q].stage = job[q].stage
               /\ job'[q].spoilt = \/ job[q].spoilt
                                   \/ q \in Sharing(p)
                                   \/ q = p /\ Written(p)
    <3>1. job'[q] = [job[q] EXCEPT !.spoilt = \/ @
                                              \/ q \in Sharing(p)
                                              \/ q = p /\ Written(p)]
          BY <2>1
    <3>2. job[q] \in Job
          BY DEF TypeInv, TypeOK
    <3>. QED  BY <3>1, <3>2 DEF Job
  <2>4. \A q \in Proc : (url(q))' = url(q)
        BY <2>3 DEF url
  <2>5. \A q \in Proc : url(q) # url(p) => cache'[url(q)] = cache[url(q)]
        BY <2>1 DEF TypeInv, TypeOK, url, Url
  <2>6. ASSUME NEW q \in Proc
        PROVE  Own(q)'
    <3>0. JarGood(q) /\ WriteBad(q) /\ CopyGood(q) /\ HashTrue(q)
          BY DEF CacheInv
    <3>1. JarGood(q)' /\ WriteBad(q)'
      <4>1. JarGood(q)'
            BY <2>3, <3>0 DEF JarGood
      <4>2. WriteBad(q)'
            BY <2>1, <2>2, <2>3, <3>0 DEF WriteBad
      <4>. QED  BY <4>1, <4>2
    <3>2. CopyGood(q)' /\ HashTrue(q)'
      <4>1. at'[q] \in {"sha1", "copy"} => q # p /\ at[q] = at'[q]
            BY <2>2
      <4>2. at'[q] \in {"sha1", "copy"} => job'[q].spoilt \/ cache'[url(q)] = cache[url(q)]
            BY <2>3, <2>5, <4>1 DEF Sharing
      <4>. QED  BY <2>3, <2>4, <3>0, <4>1, <4>2 DEF CopyGood, HashTrue
    <3>. QED  BY <3>1, <3>2 DEF Own
  <2>7. ASSUME NEW q1 \in Proc, NEW q2 \in Proc, q1 # q2, at'[q2] = "get", at'[q1] \in InFile,
               (url(q1) = url(q2))'
        PROVE  job'[q1].spoilt
    <3>1. url(q1) = url(q2)
          BY <2>4, <2>7
    <3>2. CASE q2 = p
          BY <2>2, <2>3, <2>7, <3>1, <3>2 DEF Sharing, InFile
    <3>3. CASE q1 = p
          BY <2>2, <2>3, <2>7, <3>1, <3>3 DEF Sharing, Written
    <3>4. CASE q1 # p /\ q2 # p
      <4>1. job[q1].spoilt
            BY <2>2, <2>7, <3>1, <3>4 DEF CacheInv, WritersSpoil
      <4>. QED  BY <2>3, <4>1
    <3>. QED  BY <3>2, <3>3, <3>4
  <2>. QED  BY <2>6, <2>7 DEF CacheInv, Own, WritersSpoil
<1>. QED  BY <1>1, <1>2

\* What a process leaves in the cache is good, a page, or shared with a process
\* that knows of it.
LEMMA CacheDownloads ==
    ASSUME TypeInv, CacheInv, NEW p \in Proc, DownloadFileToCache(p)
    PROVE  CacheInv'
<1>1. CASE Fails(p) /\ UNCHANGED cache
      BY <1>1, CacheFails
<1>2. CASE ~(Fails(p) /\ UNCHANGED cache)
  <2>1. PICK body \in {"page", "good"}, left \in Content :
             /\ at[p] = "get" /\ Goto(p, "copy")
             /\ job[p].spoilt \/ left = body
             /\ cache' = [cache EXCEPT ![url(p)] = left]
             /\ job' = [job EXCEPT ![p].page = @ \/ body = "page"]
        BY <1>2 DEF DownloadFileToCache, Content
  <2>2. at'[p] = "copy" /\ \A q \in Proc \ {p} : at'[q] = at[q] /\ job'[q] = job[q]
        BY <2>1 DEF TypeInv, TypeOK, Goto
  <2>3. /\ job'[p].jar = job[p].jar /\ job'[p].page = (job[p].page \/ body = "page")
        /\ job'[p].look = job[p].look /\ job'[p].stage = job[p].stage
        /\ job'[p].spoilt = job[p].spoilt
        BY <2>1 DEF TypeInv, TypeOK, Job
  <2>4. \A q \in Proc : (url(q))' = url(q)
        BY <2>2, <2>3 DEF url
  <2>5. /\ cache'[url(p)] = left
        /\ \A q \in Proc : url(q) # url(p) => cache'[url(q)] = cache[url(q)]
        BY <2>1 DEF TypeInv, TypeOK, url, Url
  <2>6. Own(p)'
        BY <2>1, <2>2, <2>3, <2>4, <2>5
           DEF CacheInv, Own, JarGood, CopyGood, HashTrue, WriteBad
  <2>7. ASSUME NEW q \in Proc \ {p}
        PROVE  Own(q)'
    <3>1. at[q] \in InFile /\ url(q) = url(p) => job[q].spoilt
          BY <2>1 DEF CacheInv, WritersSpoil
    <3>2. JarGood(q)' /\ WriteBad(q)'
          BY <2>2 DEF CacheInv, JarGood, WriteBad
    <3>3. CopyGood(q)' /\ HashTrue(q)'
          BY <2>2, <2>4, <2>5, <3>1 DEF CacheInv, CopyGood, HashTrue, InFile
    <3>. QED  BY <3>2, <3>3 DEF Own
  <2>8. ASSUME NEW q1 \in Proc, NEW q2 \in Proc, q1 # q2, at'[q2] = "get", at'[q1] \in InFile,
               (url(q1) = url(q2))'
        PROVE  job'[q1].spoilt
    <3>1. url(q1) = url(q2) /\ q2 # p /\ at[q2] = "get"
          BY <2>2, <2>4, <2>8
    <3>2. at[q1] \in InFile
          BY <2>1, <2>2, <2>8 DEF InFile
    <3>. QED  BY <2>2, <2>3, <2>8, <3>1, <3>2 DEF CacheInv, WritersSpoil
  <2>. QED  BY <2>6, <2>7, <2>8 DEF CacheInv, Own, WritersSpoil
<1>. QED  BY <1>1, <1>2

LEMMA CacheInit == Init => CacheInv
BY DEF Init, NoJob, CacheInv, WritersSpoil, JarGood, CopyGood, HashTrue, WriteBad, InFile

LEMMA CacheNext == TypeInv /\ CacheInv /\ [Next]_vars => CacheInv'
<1>. SUFFICES ASSUME TypeInv, CacheInv, [Next]_vars PROVE CacheInv'
     OBVIOUS
<1>1. CASE UNCHANGED vars
  <2>1. at' = at /\ job' = job /\ cache' = cache /\ \A p \in Proc : (url(p))' = url(p)
        BY <1>1 DEF vars, url
  <2>. QED  BY <2>1 DEF CacheInv, WritersSpoil, JarGood, CopyGood, HashTrue, WriteBad
<1>2. CASE Kill
  <2>1. \A p \in Proc : /\ at'[p] \in Ended
                        /\ job'[p] = job[p] \/ job'[p] = NoJob
        BY <1>2 DEF Kill, Ended
  <2>. QED  BY <2>1 DEF CacheInv, WritersSpoil, JarGood, CopyGood, HashTrue, WriteBad,
                        InFile, Ended, NoJob
<1>3. ASSUME NEW p \in Proc, Step(p)
      PROVE  CacheInv'
      BY <1>3, CacheRead, CacheCreates, CacheDownloads DEF Writes
<1>. QED  BY <1>1, <1>2, <1>3 DEF Next

(* An installation that succeeds has installed a good jar, unless a site     *)
(* answered it with a page or another process wrote the same cached file     *)
(* meanwhile: DownloadViaMaven checks what it finds in the cache.            *)
THEOREM InstalledCorrect == Spec => []InstalledWhole
<1>1. CacheInv => InstalledWhole
      BY DEF CacheInv, JarGood, InstalledWhole
<1>. QED  BY <1>1, TypeInit, TypeNext, CacheInit, CacheNext, PTL DEF Spec

(* The process that overwrites a good file of the cache has not found it     *)
(* good: it could not learn the hash, or it looked before the file was good. *)
THEOREM GoodCacheKeptCorrect == Spec => GoodCacheKept
<1>1. ASSUME TypeInv, CacheInv, [Next]_vars
      PROVE  [\A u \in Url : cache[u] = "good" /\ cache'[u] # "good" =>
                 \E p \in Proc : Writing(p) /\ url(p) = u /\ job[p].look # "good"]_vars
  <2>1. ASSUME NEW u \in Url, cache[u] = "good", cache'[u] # "good"
        PROVE  \E p \in Proc : Writing(p) /\ url(p) = u /\ job[p].look # "good"
    <3>1. cache' # cache
          BY <2>1
    <3>2. ~UNCHANGED vars /\ ~Kill
          BY <3>1 DEF vars, Kill
    <3>3. PICK p \in Proc : Step(p) /\ Writes(p)
          BY <1>1, <3>1, <3>2, StepFrame DEF Next
    <3>4. Writing(p)
          BY <1>1, <3>1, <3>3 DEF Writes, CacheCreate, DownloadFileToCache, Writing, Goto, TypeInv, TypeOK
    <3>5. PICK c : cache' = [cache EXCEPT ![url(p)] = c]
          BY <3>1, <3>3 DEF Writes, CacheCreate, DownloadFileToCache
    <3>6. url(p) = u
          BY <1>1, <2>1, <3>5 DEF TypeInv, TypeOK
    <3>. QED  BY <1>1, <3>4, <3>6 DEF CacheInv, WriteBad, Writing
  <2>. QED  BY <2>1
<1>. QED  BY <1>1, TypeInit, TypeNext, CacheInit, CacheNext, PTL DEF Spec, GoodCacheKept

-----------------------------------------------------------------------------
(* move                                                                    *)

\* Of finitely many files, at most one is not several.
LEMMA NotSeveral ==
    ASSUME NEW S, IsFiniteSet(S), ~(Cardinality(S) > 1)
    PROVE  \A s, t \in S : s = t
<1>. SUFFICES ASSUME NEW s \in S, NEW t \in S, s # t PROVE FALSE
     OBVIOUS
<1>1. {s, t} \subseteq S /\ Cardinality({s, t}) = 2
      BY FS_EmptySet, FS_AddElement, FS_Singleton, FS_CardinalityType
<1>2. Cardinality({s, t}) <= Cardinality(S)
      BY <1>1, FS_Subset
<1>3. Cardinality(S) \in Nat
      BY FS_CardinalityType
<1>. QED  BY <1>1, <1>2, <1>3

LEMMA MoveInit == Init => MoveInv
BY DEF Init, NoJob, MoveInv, MovesFew

\* What the other steps leave of a `move`.
SameMove(p) == /\ job'[p].src = job[p].src /\ job'[p].target = job[p].target
               /\ job'[p].had = job[p].had

LEMMA OthersKeepMove ==
    ASSUME TypeInv, NEW p \in Proc, Step(p), NEW q \in Proc, q # p
    PROVE  SameMove(q) /\ at'[q] = at[q]
<1>1. CASE CacheCreate(p) /\ ~Fails(p)
  <2>1. job' = [x \in Proc |-> [job[x] EXCEPT !.spoilt = \/ @
                                                         \/ x \in Sharing(p)
                                                         \/ x = p /\ Written(p)]]
        BY <1>1 DEF CacheCreate
  <2>. QED  BY <2>1, StepFrame DEF SameMove, TypeInv, TypeOK, Job
<1>2. CASE CacheCreate(p) /\ Fails(p)
      BY <1>2, StepFrame DEF SameMove, Fails, TypeInv, TypeOK
<1>3. CASE ~CacheCreate(p)
      BY <1>3, StepFrame DEF SameMove
<1>. QED  BY <1>1, <1>2, <1>3

LEMMA StepKeepsMove ==
    ASSUME TypeInv, NEW p \in Proc, Step(p), ~GenerateProcess(p), ~validateMove(p), ~Rename(p), ~Fails(p)
    PROVE  SameMove(p) /\ at'[p] # "rename"
<1>. DEFINE j == job[p]
<1>0. j \in Job /\ job \in [Proc -> Job] /\ at \in [Proc -> Places] /\ j.todo \in Seq(Known)
      BY DEF TypeInv, TypeOK, PlanKnown, Places
<1>. USE DEF SameMove, Goto, Ends
<1>1. CASE RunNext(p)
  <2>1. Head(j.todo) \in Known /\ "rename" \notin Known
        BY <1>0, <1>1 DEF RunNext, Known, Simple
  <2>2. PICK todo, stage : job'[p] = [j EXCEPT !.todo = todo, !.stage = stage]
        BY <1>0, <1>1 DEF RunNext
  <2>. QED  BY <1>0, <1>1, <2>1, <2>2 DEF RunNext, Job
<1>2. CASE Finish(p) \/ RunSimple(p)
      BY <1>0, <1>2 DEF Finish, RunSimple
<1>3. CASE MojangDl(p) \/ downloadServerFromJson(p) \/ SpongeForgeDl(p)
      BY <1>0, <1>3 DEF MojangDl, downloadServerFromJson, SpongeForgeDl, Ask
<1>4. CASE DownloadFile(p)
  <2>1. PICK body \in {"page", "good"} :
             job' = [job EXCEPT ![p].jar = body, ![p].page = body = "page"]
        BY <1>4 DEF DownloadFile
  <2>. QED  BY <1>0, <1>4, <2>1 DEF DownloadFile, Job
<1>5. CASE Hash(p)
  <2>1. job' = [job EXCEPT ![p].look = IF cache[url(p)] = "good" THEN "good" ELSE "bad",
                           ![p].spoilt = @ \/ Written(p)]
        BY <1>5 DEF Hash
  <2>. QED  BY <1>0, <1>5, <2>1 DEF Hash, Job
<1>6. CASE Sha1(p)
      BY <1>0, <1>6 DEF Sha1, Job
<1>7. CASE CacheCreate(p)
  <2>1. job' = [x \in Proc |-> [job[x] EXCEPT !.spoilt = \/ @
                                                         \/ x \in Sharing(p)
                                                         \/ x = p /\ Written(p)]]
        BY <1>7 DEF CacheCreate
  <2>. QED  BY <1>0, <1>7, <2>1 DEF CacheCreate, Job
<1>8. CASE DownloadFileToCache(p)
  <2>1. PICK page : job'[p] = [j EXCEPT !.page = page]
        BY <1>0, <1>8 DEF DownloadFileToCache
  <2>. QED  BY <1>0, <1>8, <2>1 DEF DownloadFileToCache, Job
<1>9. CASE CopyFile(p)
  <2>1. PICK jar : job'[p] = [j EXCEPT !.jar = jar] \/ job' = job
        BY <1>0, <1>9 DEF CopyFile
  <2>2. \E to \in {"run", "mods"} : at' = [at EXCEPT ![p] = to]
        BY <1>9 DEF CopyFile
  <2>3. at'[p] # "rename"
        BY <1>0, <2>2
  <2>. QED  BY <1>0, <2>1, <2>3 DEF Job
<1>10. CASE Mods(p)
      BY <1>0, <1>10 DEF Mods, Job
<1>. QED  BY <1>1, <1>2, <1>3, <1>4, <1>5, <1>6, <1>7, <1>8, <1>9, <1>10 DEF Step

LEMMA MoveStep ==
    ASSUME TypeInv, MoveInv, NEW p \in Proc, Step(p)
    PROVE  MoveInv'
<1>. DEFINE j == job[p]
<1>0. j \in Job /\ job \in [Proc -> Job] /\ at \in [Proc -> Places]
      BY DEF TypeInv, TypeOK, Places
<1>. SUFFICES MovesFew(p)'
     BY OthersKeepMove DEF MoveInv, MovesFew, SameMove
<1>1. CASE Fails(p)
      BY <1>0, <1>1 DEF Fails, NoJob, MovesFew
<1>2. CASE GenerateProcess(p) /\ ~Fails(p)
  <2>1. PICK s \in SUBSET Src, kind \in {"none", "file", "dir"}, plan \in Plans[p] :
             /\ Goto(p, "run")
             /\ job' = [job EXCEPT ![p] = [NoJob EXCEPT !.todo = plan, !.src = s, !.had = kind,
                                                        !.target.kind = kind]]
        BY <1>2 DEF GenerateProcess, Begin
  <2>2. job'[p].had = kind /\ job'[p].target = [kind |-> kind, holds |-> {}] /\ at'[p] = "run"
        BY <1>0, <2>1 DEF NoJob, Goto
  <2>. QED  BY <2>2 DEF MovesFew
<1>3. CASE validateMove(p)
  <2>1. IsFiniteSet(j.src)
        BY <1>0, OperationsAssumption, FS_Subset DEF Job
  <2>2. Several(p) \/ \A s, t \in j.src : s = t
        BY <2>1, NotSeveral DEF Several
  <2>. QED  BY <1>0, <1>3, <2>2 DEF validateMove, MoveInv, MovesFew, Goto, Ends
<1>4. CASE Rename(p) /\ ~Fails(p)
  <2>1. CASE Ends(p) /\ UNCHANGED job
        BY <1>0, <2>1 DEF MoveInv, MovesFew, Goto, Ends
  <2>2. ASSUME NEW s \in j.src, UNCHANGED at, at[p] = "rename",
               job' = [job EXCEPT ![p].src = @ \ {s}, ![p].target = Onto(@, s)]
        PROVE  MovesFew(p)'
    <3>1. /\ job'[p].src = j.src \ {s} /\ job'[p].target = Onto(j.target, s)
          /\ job'[p].had = j.had
          BY <1>0, <2>2 DEF Job
    <3>2. Onto(j.target, s).kind = IF j.target.kind = "dir" THEN "dir" ELSE "file"
          BY <1>0 DEF Onto, Job, Target
    <3>. QED  BY <2>2, <3>1, <3>2 DEF MoveInv, MovesFew
  <2>. QED  BY <1>4, <2>1, <2>2 DEF Rename
<1>. QED  BY <1>1, <1>2, <1>3, <1>4, StepKeepsMove DEF MoveInv, MovesFew, SameMove

LEMMA MoveNext == TypeInv /\ MoveInv /\ [Next]_vars => MoveInv'
<1>. SUFFICES ASSUME TypeInv, MoveInv, [Next]_vars PROVE MoveInv'
     OBVIOUS
<1>1. CASE UNCHANGED vars
      BY <1>1 DEF vars, MoveInv, MovesFew
<1>2. CASE Kill
  <2>1. \A p \in Proc : at'[p] \in Ended /\ (job'[p] = job[p] \/ job'[p] = NoJob)
        BY <1>2 DEF Kill, Ended
  <2>. QED  BY <2>1 DEF MoveInv, MovesFew, NoJob, Ended
<1>. QED  BY <1>1, <1>2, MoveStep DEF Next

(* A `move` loses none of its files, unless it moves them onto a file: what  *)
(* validateMove refuses is what would lose one.                              *)
THEOREM MoveKeepsCorrect == Spec => MoveKeeps
<1>1. ASSUME TypeInv, MoveInv, [Next]_vars
      PROVE  [\A p \in Proc, s \in Src :
                 at[p] = "rename" /\ at'[p] \in {"rename", "run"} /\ job[p].had # "file" =>
                     (s \in job[p].src \cup job[p].target.holds =>
                         s \in job'[p].src \cup job'[p].target.holds)]_vars
  <2>1. ASSUME NEW p \in Proc, NEW s \in Src, at[p] = "rename", at'[p] \in {"rename", "run"},
               job[p].had # "file", s \in job[p].src \cup job[p].target.holds
        PROVE  s \in job'[p].src \cup job'[p].target.holds
    <3>1. CASE UNCHANGED vars
          BY <2>1, <3>1 DEF vars
    <3>2. CASE Kill
          BY <2>1, <3>2 DEF Kill, Ended
    <3>3. ASSUME NEW q \in Proc, Step(q), q # p
          PROVE  SameMove(p)
          BY <1>1, <3>3, OthersKeepMove
    <3>4. CASE Step(p)
      <4>1. Rename(p) /\ ~Fails(p)
        <5>1. ~Fails(p)
              BY <1>1, <2>1 DEF Fails, Goto, TypeInv, TypeOK
        <5>2. ~GenerateProcess(p) /\ ~RunNext(p) /\ ~Finish(p) /\ ~RunSimple(p) /\ ~validateMove(p)
              BY <2>1 DEF GenerateProcess, RunNext, Finish, RunSimple, Simple, validateMove
        <5>3. ~MojangDl(p) /\ ~downloadServerFromJson(p) /\ ~DownloadFile(p) /\ ~SpongeForgeDl(p)
              BY <2>1 DEF MojangDl, downloadServerFromJson, DownloadFile, SpongeForgeDl
        <5>4. ~Hash(p) /\ ~Sha1(p) /\ ~CacheCreate(p) /\ ~DownloadFileToCache(p)
              BY <2>1 DEF Hash, Sha1, CacheCreate, DownloadFileToCache
        <5>5. ~CopyFile(p) /\ ~Mods(p)
              BY <2>1 DEF CopyFile, Mods
        <5>. QED  BY <3>4, <5>1, <5>2, <5>3, <5>4, <5>5 DEF Step
      <4>2. CASE UNCHANGED job
            BY <2>1, <4>2
      <4>3. ASSUME NEW m \in job[p].src,
                   job' = [job EXCEPT ![p].src = @ \ {m}, ![p].target = Onto(@, m)]
            PROVE  s \in job'[p].src \cup job'[p].target.holds
        <5>1. job'[p].src = job[p].src \ {m} /\ job'[p].target = Onto(job[p].target, m)
              BY <1>1, <4>3 DEF TypeInv, TypeOK, Job
        <5>2. CASE job[p].target.kind = "dir"
          <6>1. Onto(job[p].target, m).holds = job[p].target.holds \cup {m}
                BY <1>1, <5>2 DEF Onto, TypeInv, TypeOK, Job, Target
          <6>. QED  BY <2>1, <5>1, <6>1
        <5>3. CASE job[p].target.kind # "dir"
          <6>1. s = m
                BY <1>1, <2>1, <4>3, <5>3 DEF MoveInv, MovesFew
          <6>2. Onto(job[p].target, m).holds = {m}
                BY <5>3 DEF Onto
          <6>. QED  BY <5>1, <6>1, <6>2
        <5>. QED  BY <5>2, <5>3
      <4>. QED  BY <4>1, <4>2, <4>3 DEF Rename
    <3>. QED  BY <1>1, <2>1, <3>1, <3>2, <3>3, <3>4 DEF Next, SameMove
  <2>. QED  BY <2>1
<1>. QED  BY <1>1, TypeInit, TypeNext, MoveInit, MoveNext, PTL DEF Spec, MoveKeeps
=============================================================================
