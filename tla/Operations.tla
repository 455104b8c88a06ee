----------------------------- MODULE Operations -----------------------------
(***************************************************************************)
(* The operations of an installation (programs/operations) and the cache   *)
(* of downloads that all servers share (environments/download.go).  Each   *)
(* process runs the installation of a server of its own; the processes run *)
(* at once, the upstream sites may answer anything, and the daemon may be  *)
(* killed between any two steps, which leaves the cache as it is.          *)
(*                                                                         *)
(* The content of a file is "none", "part" (empty, or with a part missing),*)
(* "page" (an error page: no status of an answer is looked at) or "good".  *)
(***************************************************************************)
EXTENDS Naturals, Sequences, FiniteSets

CONSTANTS Proc,     \* the installations
          Plans,    \* the directions each may have
          Src       \* the files a `move` can match

VARIABLES at,       \* where each process is
          job,      \* what it holds: see Job
          cache     \* the cached file of each URL

vars == <<at, job, cache>>

Url     == {"forge", "sponge"}
Content == {"none", "part", "page", "good"}
Simple  == {"command", "download", "mkdir", "writefile"}
Known   == Simple \cup {"move", "mojangdl", "forgedl", "spongeforgedl"}
Ended   == {"idle", "done", "failed"}
Target  == [kind : {"none", "file", "dir"}, holds : SUBSET Src]

\* todo: processInstructions.  stage: the file that forgedl or spongeforgedl
\* is at.  look: what it took the cached file for, "unknown" when the hash it
\* should have could not be had.  jar: what it wrote as the server's jar.
\* src, target: the files that match the source of a `move`, and its target;
\* had: what the target was at first.  page, spoilt: whether it was answered a
\* page, or was in the middle of a cached file when another wrote it.
Job == [todo : Seq(Known \cup {"unknown"}), stage : {"forge", "dependency", "artifact"},
        look : {"good", "bad", "unknown"}, jar : Content,
        src : SUBSET Src, target : Target, had : {"none", "file", "dir"},
        page : BOOLEAN, spoilt : BOOLEAN]

NoJob == [todo |-> <<>>, stage |-> "forge", look |-> "bad", jar |-> "none",
          src |-> {}, target |-> [kind |-> "none", holds |-> {}], had |-> "none",
          page |-> FALSE, spoilt |-> FALSE]

ASSUME OperationsAssumption ==
    /\ IsFiniteSet(Src)
    /\ DOMAIN Plans = Proc
    /\ \A p \in Proc : \A plan \in Plans[p] : plan \in Seq(Known \cup {"unknown"})

Init == /\ at = [p \in Proc |-> "idle"]
        /\ job = [p \in Proc |-> NoJob]
        /\ cache = [u \in Url |-> "none"]

Goto(p, place) == at' = [at EXCEPT ![p] = place]
Ends(p) == Goto(p, "run")

\* The error leaves Run, and with it the process.
Fails(p) == Goto(p, "failed") /\ job' = [job EXCEPT ![p] = NoJob]

-----------------------------------------------------------------------------
(* OperationProcess                                                        *)

\* What a `move` finds in the server's directory is whatever it is.
Begin(p, plan) ==
    \E s \in SUBSET Src, kind \in {"none", "file", "dir"} :
        /\ (\E i \in DOMAIN plan : plan[i] = "move") \/ (s = {} /\ kind = "none")
        /\ Goto(p, "run")
        /\ job' = [job EXCEPT ![p] = [NoJob EXCEPT !.todo = plan, !.src = s, !.had = kind,
                                                   !.target.kind = kind]]

\* Mutant: a direction without a factory is found out when it is its turn.
GenerateProcessLate(p) ==
    /\ at[p] \in {"idle", "failed"}
    /\ \E plan \in Plans[p] : Begin(p, plan)
    /\ UNCHANGED cache

\* A direction without a factory is an error before any operation runs.  An
\* installation that failed, or was killed, may be tried again.
GenerateProcess(p) ==
    /\ at[p] \in {"idle", "failed"}
    /\ \E plan \in Plans[p] :
          IF \E i \in DOMAIN plan : plan[i] \notin Known THEN Fails(p) ELSE Begin(p, plan)
    /\ UNCHANGED cache

\* The processes of spongeforgedl begin with the forge it depends on.
RunNext(p) ==
    /\ at[p] = "run" /\ job[p].todo # <<>>
    /\ Goto(p, Head(job[p].todo))
    /\ job' = [job EXCEPT ![p].todo = Tail(@),
                          ![p].stage = IF Head(job[p].todo) = "spongeforgedl"
                                       THEN "dependency" ELSE "forge"]
    /\ UNCHANGED cache

\* HasNext is false.
Finish(p) ==
    /\ at[p] = "run" /\ job[p].todo = <<>>
    /\ Goto(p, "done")
    /\ UNCHANGED <<job, cache>>

\* The operations whose files are not told apart: each may fail in the middle.
\* A `command` never succeeds: Execute waits by WaitFunction, which is nil, and
\* the panic ends the installation, or the daemon (Kill) when the installation
\* is in a goroutine of its own.
RunSimple(p) ==
    /\ at[p] \in Simple
    /\ (at[p] # "command" /\ Ends(p) /\ UNCHANGED job) \/ Fails(p)
    /\ UNCHANGED cache

-----------------------------------------------------------------------------
(* move                                                                    *)

Several(p) == Cardinality(job[p].src) > 1

\* Mutant: several files to a target that does not exist.
validateMoveAny(p) ==
    /\ at[p] = "move"
    /\ \/ Ends(p)
       \/ ~(Several(p) /\ job[p].target.kind = "dir") /\ Goto(p, "rename")
    /\ UNCHANGED <<job, cache>>

\* Several files are refused for a directory and for a missing target, though
\* not for a file; a refusal, and a target Stat cannot read, count as success.
validateMove(p) ==
    /\ at[p] = "move"
    /\ \/ Ends(p)
       \/ ~(Several(p) /\ job[p].target.kind \in {"none", "dir"}) /\ Goto(p, "rename")
    /\ UNCHANGED <<job, cache>>

\* os.Rename to the target: into a directory, and over anything else.
Onto(target, s) == IF target.kind = "dir" THEN [target EXCEPT !.holds = @ \cup {s}]
                                          ELSE [kind |-> "file", holds |-> {s}]

\* The files, in the order of Go's map.
Rename(p) ==
    /\ at[p] = "rename"
    /\ \/ Fails(p)
       \/ job[p].src = {} /\ Ends(p) /\ UNCHANGED job
       \/ \E s \in job[p].src :
             /\ job' = [job EXCEPT ![p].src = @ \ {s}, ![p].target = Onto(@, s)]
             /\ UNCHANGED at
    /\ UNCHANGED cache

-----------------------------------------------------------------------------
(* mojangdl, and DownloadFile straight into the server's directory         *)

\* A request of an index: unreachable, undecodable, or without the version.
Ask(p, next) == (Goto(p, next) /\ UNCHANGED job) \/ Fails(p)

\* The manifest of the versions.
MojangDl(p) == at[p] = "mojangdl" /\ Ask(p, "version") /\ UNCHANGED cache

downloadServerFromJson(p) == at[p] = "version" /\ Ask(p, "body") /\ UNCHANGED cache

\* os.Create, which truncates the jar, the request and the copy.
DownloadFile(p) ==
    /\ at[p] = "body"
    /\ \/ Fails(p)
       \/ \E body \in {"page", "good"} :
             Ends(p) /\ job' = [job EXCEPT ![p].jar = body, ![p].page = body = "page"]
    /\ UNCHANGED cache

-----------------------------------------------------------------------------
(* forgedl, spongeforgedl, and DownloadViaMaven                            *)

url(p) == IF job[p].stage = "artifact" THEN "sponge" ELSE "forge"

\* The other processes that are in the middle of this cached file, and whether
\* one of them is writing it.
Sharing(p) == {q \in Proc \ {p} : url(q) = url(p) /\ at[q] \in {"sha1", "get", "copy"}}
Written(p) == \E q \in Sharing(p) : at[q] = "get"

\* The versions of spongeforge: unreachable, undecodable, or none.
SpongeForgeDl(p) == at[p] = "spongeforgedl" /\ Ask(p, "forgedl") /\ UNCHANGED cache

\* Opens and hashes the cached file.  One that cannot be opened is an error.
Hash(p) ==
    /\ at[p] = "forgedl"
    /\ \/ cache[url(p)] # "none" /\ Fails(p)
       \/ /\ Goto(p, IF cache[url(p)] = "none" THEN "create" ELSE "sha1")
          /\ job' = [job EXCEPT ![p].look = IF cache[url(p)] = "good" THEN "good" ELSE "bad",
                                ![p].spoilt = @ \/ Written(p)]
    /\ UNCHANGED cache

\* Mutant: a hash that differs is only logged.
Sha1Logged(p) ==
    /\ at[p] = "sha1"
    /\ \/ Goto(p, "copy") /\ UNCHANGED job
       \/ Goto(p, "create") /\ job' = [job EXCEPT ![p].look = "unknown"]
    /\ UNCHANGED cache

\* Mutant: the cached file is never used.
Sha1Ignored(p) ==
    /\ at[p] = "sha1"
    /\ Goto(p, "create")
    /\ UNCHANGED <<job, cache>>

\* The expected hash, or anything else, which is taken for a difference.
Sha1(p) ==
    /\ at[p] = "sha1"
    /\ \/ Goto(p, IF job[p].look = "good" THEN "copy" ELSE "create") /\ UNCHANGED job
       \/ Goto(p, "create") /\ job' = [job EXCEPT ![p].look = "unknown"]
    /\ UNCHANGED cache

\* os.Create truncates what others may be writing or about to copy.
CacheCreate(p) ==
    /\ at[p] = "create"
    /\ \/ Fails(p) /\ UNCHANGED cache
       \/ /\ Goto(p, "get")
          /\ cache' = [cache EXCEPT ![url(p)] = "part"]
          /\ job' = [q \in Proc |-> [job[q] EXCEPT !.spoilt = \/ @
                                                              \/ q \in Sharing(p)
                                                              \/ q = p /\ Written(p)]]

\* Two downloads at once leave whatever the last writes of each leave.
DownloadFileToCache(p) ==
    /\ at[p] = "get"
    /\ \/ Fails(p) /\ UNCHANGED cache
       \/ \E body \in {"page", "good"} :
             /\ Goto(p, "copy")
             /\ \E left \in IF job[p].spoilt THEN Content \ {"none"} ELSE {body} :
                   cache' = [cache EXCEPT ![url(p)] = left]
             /\ job' = [job EXCEPT ![p].page = @ \/ body = "page"]

\* CopyFile from the cache.  For spongeforge itself the copy goes to a path
\* relative to the daemon's own directory.
CopyFile(p) ==
    /\ at[p] = "copy"
    /\ \/ Fails(p)
       \/ job[p].stage = "artifact" /\ Ends(p) /\ UNCHANGED job
       \/ /\ job[p].stage # "artifact"
          /\ \E read \in IF job[p].spoilt THEN Content \ {"none"} ELSE {cache[url(p)]} :
                job' = [job EXCEPT ![p].jar = read]
          /\ Goto(p, IF job[p].stage = "dependency" THEN "mods" ELSE "run")
    /\ UNCHANGED cache

\* os.Mkdir of the mods directory.
Mods(p) ==
    /\ at[p] = "mods"
    /\ \/ Fails(p)
       \/ Goto(p, "forgedl") /\ job' = [job EXCEPT ![p].stage = "artifact"]
    /\ UNCHANGED cache

-----------------------------------------------------------------------------
\* The daemon is killed, or ends itself: a cached file cannot be read, or a
\* `command` has panicked.
Kill == /\ at' = [p \in Proc |-> IF at[p] \in Ended THEN at[p] ELSE "idle"]
        /\ job' = [p \in Proc |-> IF at[p] \in Ended THEN job[p] ELSE NoJob]
        /\ UNCHANGED cache

Step(p) == \/ GenerateProcess(p) \/ RunNext(p) \/ Finish(p) \/ RunSimple(p)
           \/ validateMove(p) \/ Rename(p)
           \/ MojangDl(p) \/ downloadServerFromJson(p) \/ DownloadFile(p) \/ SpongeForgeDl(p)
           \/ Hash(p) \/ Sha1(p) \/ CacheCreate(p) \/ DownloadFileToCache(p) \/ CopyFile(p) \/ Mods(p)

Next == (\E p \in Proc : Step(p)) \/ Kill

Spec == Init /\ [][Next]_vars

-----------------------------------------------------------------------------
\* Every process is at a place of its directions, and every file has a content.
TypeOK == /\ at \in [Proc -> Ended \cup Known \cup {"run", "rename", "version", "body", "sha1",
                                                   "create", "get", "copy", "mods"}]
          /\ job \in [Proc -> Job]
          /\ cache \in [Url -> Content]

(* The server's jar that a successful installation has written, downloaded   *)
(* by mojangdl or copied from the cache by forgedl, is good, whatever a      *)
(* killed daemon or a broken download left in the cache, unless a site       *)
(* answered it with an error page or another process downloaded the same     *)
(* file meanwhile.  The jar of spongeforge itself never reaches the server:  *)
(* spongeforgedl.go:126 copies it to a `mods` of the daemon's own directory. *)
InstalledWhole == \A p \in Proc :
    at[p] = "done" /\ job[p].jar # "none" => job[p].jar = "good" \/ job[p].page \/ job[p].spoilt

\* A process truncates the cached file, or writes what it has downloaded.
Writing(p) == at[p] \in {"create", "get"} /\ at'[p] \in {"get", "copy"} /\ at'[p] # at[p]

(* The process that overwrites a good file in the cache is one that could    *)
(* not learn its hash (download.go:111 takes that for a difference), or that *)
(* hashed the file, or missed it, when it was not good: never one that has   *)
(* compared the hashes of a good file.                                       *)
GoodCacheKept == [][\A u \in Url : cache[u] = "good" /\ cache'[u] # "good" =>
    \E p \in Proc : Writing(p) /\ url(p) = u /\ job[p].look # "good"]_vars

(* A `move` loses none of the files it moves, except onto a target that was  *)
(* a file: the case move.go:67 means to refuse.                              *)
MoveKeeps == [][\A p \in Proc, s \in Src :
    at[p] = "rename" /\ at'[p] \in {"rename", "run"} /\ job[p].had # "file" =>
        (s \in job[p].src \cup job[p].target.holds =>
            s \in job'[p].src \cup job'[p].target.holds)]_vars
=============================================================================
