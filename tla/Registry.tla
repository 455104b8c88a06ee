------------------------------ MODULE Registry ------------------------------
(***************************************************************************)
(* The programs the daemon knows (programs/loader.go): the slice           *)
(* allPrograms, the JSON file and the directory of every server, and the   *)
(* requests that change them.  No lock guards any of it, so the requests   *)
(* are interleaved at every point where one waits for the disk, the        *)
(* network or an operation; a statement that only touches memory (the      *)
(* search for an element, the assignment of allPrograms) is one step.  The *)
(* daemon can be killed at any time and is then started again; a crash     *)
(* also stands for the fatal error of Go's runtime when two requests use   *)
(* one map of variables at once.                                           *)
(*                                                                         *)
(* A pointer to a Program or to an Environment is a number in Object; what *)
(* nothing refers to any more is free again (Heap).  Variables of a        *)
(* program are one abstract value.                                         *)
(*                                                                         *)
(* The root of a program is the directory its environment works in: the    *)
(* body of the Create can name any (json:"root"), and by default it is the *)
(* server's own.  A directory is the identifier whose own one it is.       *)
(***************************************************************************)
EXTENDS Integers, FiniteSets, Sequences

CONSTANTS Id,      \* identifiers of servers
          Created, \* what the variables in the body of a Create can be
          Edited,  \* what the variables in the body of an edit can be
          Call,    \* the requests that can be in progress at once
          Slots,   \* bound: the Programs, and the Environments, alive at once
          Procs,   \* bound: the processes that run at once
          Overlap, \* whether requests overlap that change one server, and Deletes
          None     \* Go's nil

Value == Created \cup Edited
Object == 1 .. Slots
Program == [id : Id, env : Object \cup {None}, vars : Value, root : Id]

ASSUME RegistryAssumption == /\ IsFiniteSet(Id)
                             /\ Slots \in Nat /\ Procs \in Nat
                             /\ Overlap \in BOOLEAN
                             /\ None \notin Id \cup Value \cup Nat \cup Program
                             /\ Value \cap {"none", "unsure"} = {}

VARIABLES allPrograms,  \* the slice
          prog,         \* the Program behind a pointer
          proc,         \* for an Environment with a process: the Program that started it
          file,         \* content of <id>.json
          dir,          \* whether a directory exists
          call,         \* the requests in progress
          daemon,       \* "up", "down", or "dead": it panics whenever it is started
          told,         \* history: what the last answer says of a server
          apart         \* history: the servers created in the directory of another
                        \* one, and the servers in whose directory one was
disk == <<file, dir>>
vars == <<allPrograms, prog, proc, disk, call, daemon, told, apart>>

\* Create encodes a Program without an Environment ("plain"); Save encodes one
\* that has it ("saved"), since Program.Environment carries no json tag, and
\* encoding/json cannot decode that object into the interface again.  History:
\* a plain file that a Delete could not remove is "left".
Content == [kind : {"none", "empty", "bad"}, vars : {None}, root : {None}]
             \cup [kind : {"plain", "left"}, vars : Value, root : Id]
             \cup [kind : {"saved"}, vars : Value, root : {None}]
NoFile  == [kind |-> "none", vars |-> None, root |-> None]
Empty   == [kind |-> "empty", vars |-> None, root |-> None]
Garbage == [kind |-> "bad", vars |-> None, root |-> None]
Plain(p) == [kind |-> "plain", vars |-> p.vars, root |-> p.root]
Saved(v) == [kind |-> "saved", vars |-> v, root |-> None]

Writers == {"create", "delete", "edit", "reload", "install"}

Free == [op |-> "none", at |-> "idle", id |-> None, prg |-> None,
         index |-> 0, data |-> None, was |-> "unsure"]

Init == /\ allPrograms = <<>>
        /\ prog = [o \in Object |-> None]
        /\ proc = [e \in Object |-> None]
        /\ file = [id \in Id |-> NoFile]
        /\ dir = [id \in Id |-> FALSE]
        /\ call = [c \in Call |-> Free]
        /\ daemon = "up"
        /\ told = [id \in Id |-> "none"]
        /\ apart = {}

-----------------------------------------------------------------------------
(* Memory                                                                  *)

Registered == {allPrograms[i] : i \in DOMAIN allPrograms}

\* Go's collector: a Program lives while allPrograms, a request or the
\* callback of a running process refers to it.
Heap(p) == prog' = [o \in Object |-> IF \/ \E i \in DOMAIN allPrograms' : allPrograms'[i] = o
                                        \/ \E c \in Call : call'[c].prg = o
                                        \/ \E e \in Object : proc'[e] = o
                                     THEN p[o] ELSE None]

\* A pointer to a new Program, and to a new Environment for it.
FreshProgram(o) == prog[o] = None /\ \A p \in 1 .. (o - 1) : prog[p] # None
InUse(e) == proc[e] # None \/ \E o \in Object : prog[o] # None /\ prog[o].env = e
FreshEnvironment(o, e) == /\ ~InUse(e)
                          /\ \/ e = o
                             \/ InUse(o) /\ \A f \in 1 .. (e - 1) : InUse(f)

\* The search for id in allPrograms ends at the index i.
First(id, i) == /\ i \in DOMAIN allPrograms
                /\ prog[allPrograms[i]].id = id
                /\ \A j \in 1 .. (i - 1) : prog[allPrograms[j]].id # id

\* Mutant: stops before the last element.
CachedButLast(id) == \E i \in 1 .. (Len(allPrograms) - 1) : First(id, i)

\* GetFromCache finds something, namely o.
Cached(id) == \E i \in DOMAIN allPrograms : First(id, i)
GetFromCache(id, o) == \E i \in DOMAIN allPrograms : First(id, i) /\ o = allPrograms[i]

Loads(id) == file[id].kind \in {"plain", "left"}

\* A new Program, as Load makes it, in a free slot.
Load(id, e) == [id |-> id, env |-> e, vars |-> file[id].vars, root |-> file[id].root]

-----------------------------------------------------------------------------
(* A request begins and ends                                               *)

Busy(id) == \E c \in Call : call[c].id = id /\ call[c].op \in Writers

Begin(c, op, id, o, data) ==
    /\ Overlap \/ op \notin Writers \/ ~Busy(id)
    /\ call' = [call EXCEPT ![c] = [op |-> op, at |-> "begun", id |-> id, prg |-> o,
                                    index |-> 0, data |-> data,
                                    was |-> IF op \in Writers THEN told[id] ELSE "unsure"]]
    /\ told' = IF op \in Writers THEN [told EXCEPT ![id] = "unsure"] ELSE told

\* The answer of c: what it says of its server.
Answer(c, says) ==
    /\ call' = [call EXCEPT ![c] = Free]
    /\ told' = IF call[c].op \in Writers THEN [told EXCEPT ![call[c].id] = says] ELSE told

At(c, op, place) == daemon = "up" /\ call[c].op = op /\ call[c].at = place
Goto(c, place) == call' = [call EXCEPT ![c].at = place] /\ UNCHANGED told
Root(c) == prog[call[c].prg].root
Same(c) == call[c].was
Reverted(c) == IF call[c].was = "none" THEN "none" ELSE "unsure"

\* The handlers behind OAuth2Handler, which looks the server up with Get: in
\* allPrograms, else from its file, for this request alone.
Handle(c, op, id, data) ==
    /\ daemon = "up" /\ call[c].at = "idle"
    /\ UNCHANGED <<allPrograms, proc, disk, daemon, apart>>
    /\ \/ /\ \E o \in Object : GetFromCache(id, o) /\ Begin(c, op, id, o, data)
          /\ Heap(prog)
       \/ /\ ~Cached(id) /\ Loads(id)
          /\ \E o, e \in Object :
                /\ FreshProgram(o) /\ FreshEnvironment(o, e)
                /\ Begin(c, op, id, o, data)
                /\ Heap([prog EXCEPT ![o] = Load(id, e)])

-----------------------------------------------------------------------------
(* CreateServer and Create                                                 *)

\* Up to the decoding of the body, with its root; a server that Get finds is a
\* conflict.
CreateServer(c, id, v, root) ==
    /\ daemon = "up" /\ call[c].at = "idle"
    /\ UNCHANGED <<allPrograms, proc, disk, daemon>>
    /\ apart' = IF root = id THEN apart ELSE apart \cup {id, root}
    /\ ~Cached(id) /\ ~Loads(id)
    /\ \E o \in Object :
          /\ FreshProgram(o)
          /\ Begin(c, "create", id, o, v)
          /\ Heap([prog EXCEPT ![o] = [id |-> id, env |-> None, vars |-> v, root |-> root]])

\* The test of Create and os.Create.
CreateFile(c) ==
    LET id == call[c].id IN
    /\ At(c, "create", "begun")
    /\ IF Cached(id)
       THEN Answer(c, Same(c)) /\ UNCHANGED file
       ELSE \/ Goto(c, "encode") /\ file' = [file EXCEPT ![id] = Empty]
            \/ Answer(c, Reverted(c)) /\ file' = [file EXCEPT ![id] = NoFile]
    /\ UNCHANGED <<allPrograms, proc, dir, daemon, apart>>
    /\ Heap(prog)

\* What a file holds after new content is written to it: nothing if the file was
\* removed meanwhile, perhaps a mixture if another request has written.
Written(id, new) == IF file[id] = NoFile THEN {NoFile}
                    ELSE IF file[id] = Empty THEN {new} ELSE {new, Garbage}

\* The deferred function removes the file.
CreateEncode(c) ==
    LET id == call[c].id IN
    /\ At(c, "create", "encode")
    /\ \/ /\ Goto(c, "environment")
          /\ \E new \in Written(id, Plain(prog[call[c].prg])) : file' = [file EXCEPT ![id] = new]
       \/ Answer(c, Reverted(c)) /\ file' = [file EXCEPT ![id] = NoFile]
    /\ UNCHANGED <<allPrograms, proc, dir, daemon, apart>>
    /\ Heap(prog)

\* An unknown type of environment, whose nil Create dereferences: the deferred
\* function removes the file on the way to gin's recovery.
CreateUnknown(c) ==
    /\ At(c, "create", "environment")
    /\ Answer(c, Reverted(c))
    /\ file' = [file EXCEPT ![call[c].id] = NoFile]
    /\ UNCHANGED <<allPrograms, proc, dir, daemon, apart>>
    /\ Heap(prog)

\* os.Mkdir fails if the directory is there, or for a reason of its own; the
\* deferred function then removes the file and the directory, another server's too.
CreateEnvironment(c) ==
    /\ At(c, "create", "environment")
    /\ UNCHANGED <<allPrograms, proc, daemon, apart>>
    /\ \/ /\ ~dir[Root(c)]
          /\ Goto(c, "append")
          /\ dir' = [dir EXCEPT ![Root(c)] = TRUE]
          /\ UNCHANGED file
          /\ \E e \in Object : /\ FreshEnvironment(call[c].prg, e)
                             /\ Heap([prog EXCEPT ![call[c].prg].env = e])
       \/ /\ Answer(c, "none")
          /\ file' = [file EXCEPT ![call[c].id] = NoFile]
          /\ dir' = [dir EXCEPT ![Root(c)] = FALSE]
          /\ Heap(prog)

CreateAppend(c) ==
    /\ At(c, "create", "append")
    /\ allPrograms' = Append(allPrograms, call[c].prg)
    /\ Answer(c, call[c].data)
    /\ UNCHANGED <<proc, disk, daemon, apart>>
    /\ Heap(prog)

Create(c) == \/ CreateFile(c) \/ CreateEncode(c) \/ CreateUnknown(c)
             \/ CreateEnvironment(c) \/ CreateAppend(c)

-----------------------------------------------------------------------------
(* DeleteServer, Delete and Destroy                                        *)

Found(c, i) ==
    call' = [call EXCEPT ![c].at = "uninstall", ![c].prg = allPrograms[i], ![c].index = i]

\* The search in allPrograms.  A server that Get has loaded for this request is
\* not found there, and the answer is that of a success.  A running server is told
\* to stop, which can fail, and not waited for.
DeleteFind(c) ==
    LET id == call[c].id IN
    /\ At(c, "delete", "begun")
    /\ Overlap \/ \A d \in Call : call[d].index = 0
    /\ \/ ~Cached(id) /\ Answer(c, "none")
       \/ \E i \in DOMAIN allPrograms :
             /\ First(id, i) /\ Found(c, i)
             /\ UNCHANGED told
       \/ \E o \in Object : /\ GetFromCache(id, o) /\ proc[prog[o].env] # None
                            /\ Answer(c, Same(c))
    /\ UNCHANGED <<allPrograms, proc, disk, daemon, apart>>
    /\ Heap(prog)

\* The uninstallation's operations, any of which can fail; then
\* Environment.Delete removes the directory, or fails in the middle.
Destroy(c) ==
    /\ At(c, "delete", "uninstall")
    /\ \/ Answer(c, Same(c)) /\ UNCHANGED dir
       \/ Goto(c, "unlink") /\ dir' = [dir EXCEPT ![Root(c)] = FALSE]
    /\ UNCHANGED <<allPrograms, proc, file, daemon, apart>>
    /\ Heap(prog)

\* Mutant: one element too far.
WithoutNext(s, i) == SubSeq(s, 1, i) \o SubSeq(s, i + 2, Len(s))

Without(s, i) == SubSeq(s, 1, i - 1) \o SubSeq(s, i + 1, Len(s))

Leave(id) == IF Loads(id)
             THEN [kind |-> "left", vars |-> file[id].vars, root |-> file[id].root]
             ELSE file[id]

\* os.Remove, whose error is logged and returned at the end, and the removal of
\* the element at the index found before Destroy: past the end it panics, and
\* gin recovers.
DeleteUnlink(c) ==
    LET id == prog[call[c].prg].id IN
    /\ At(c, "delete", "unlink")
    /\ IF call[c].index \in DOMAIN allPrograms
       THEN allPrograms' = Without(allPrograms, call[c].index)
       ELSE UNCHANGED allPrograms
    /\ \/ file' = [file EXCEPT ![id] = NoFile] /\ Answer(c, "none")
       \/ file' = [file EXCEPT ![id] = Leave(id)] /\ Answer(c, "unsure")
    /\ UNCHANGED <<proc, dir, daemon, apart>>
    /\ Heap(prog)

Delete(c) == DeleteFind(c) \/ Destroy(c) \/ DeleteUnlink(c)

-----------------------------------------------------------------------------
(* EditServer, Edit and Save                                               *)

\* The variables of the handler's Program, which Save may not find again.
EditSet(c) ==
    /\ At(c, "edit", "begun")
    /\ Goto(c, "save")
    /\ UNCHANGED <<allPrograms, proc, disk, daemon, apart>>
    /\ Heap([prog EXCEPT ![call[c].prg].vars = call[c].data])

\* Mutant: truncated, and never written.
SaveTruncateOnly(c) ==
    /\ At(c, "edit", "save") /\ Cached(call[c].id)
    /\ Answer(c, call[c].data)
    /\ file' = [file EXCEPT ![call[c].id] = Empty]
    /\ UNCHANGED <<allPrograms, proc, dir, daemon, apart>>
    /\ Heap(prog)

\* Save marshals the Program that GetFromCache returns, and ioutil.WriteFile
\* truncates the file, creating it if it is missing.
SaveTruncate(c) ==
    LET id == call[c].id IN
    /\ At(c, "edit", "save")
    /\ \/ \E o \in Object :
             /\ GetFromCache(id, o)
             /\ call' = [call EXCEPT ![c].at = "write", ![c].data = prog[o].vars]
             /\ file' = [file EXCEPT ![id] = Empty]
             /\ UNCHANGED told
       \/ Answer(c, IF Cached(id) THEN "unsure" ELSE Same(c)) /\ UNCHANGED file
    /\ UNCHANGED <<allPrograms, proc, dir, daemon, apart>>
    /\ Heap(prog)

\* Mutant: the error of the write is dropped.
SaveWriteUnchecked(c) ==
    /\ At(c, "edit", "write")
    /\ Answer(c, call[c].data)
    /\ \E new \in {Saved(call[c].data), Garbage} :
          file' = [file EXCEPT ![call[c].id] = new]
    /\ UNCHANGED <<allPrograms, proc, dir, daemon, apart>>
    /\ Heap(prog)

\* The write, or a full disk.
SaveWrite(c) ==
    LET id == call[c].id IN
    /\ At(c, "edit", "write")
    /\ \/ /\ Answer(c, call[c].data)
          /\ \E new \in Written(id, Saved(call[c].data)) : file' = [file EXCEPT ![id] = new]
       \/ /\ Answer(c, "unsure")
          /\ file' = [file EXCEPT ![id] = IF @ = NoFile THEN NoFile ELSE Garbage]
    /\ UNCHANGED <<allPrograms, proc, dir, daemon, apart>>
    /\ Heap(prog)

Edit(c) == EditSet(c) \/ SaveTruncate(c) \/ SaveWrite(c)

-----------------------------------------------------------------------------
(* ReloadServer, InstallServer, StartServer                                *)

\* Mutant: copies from the nil that Load returns for an empty file.
ReloadBlind(c) ==
    /\ At(c, "reload", "begun")
    /\ UNCHANGED <<allPrograms, proc, disk, daemon, apart>>
    /\ Answer(c, Same(c))
    /\ \E o, e \in Object : /\ GetFromCache(call[c].id, o) /\ FreshEnvironment(o, e)
                            /\ Heap([prog EXCEPT ![o] = Load(call[c].id, e)])

\* Reload: the program in allPrograms takes over what Load read, a new
\* Environment included (CopyFrom).  Without a file that loads it stays as it
\* is: an error, or a nil that CopyFrom dereferences.
Reload(c) ==
    LET id == call[c].id IN
    /\ At(c, "reload", "begun")
    /\ UNCHANGED <<allPrograms, proc, disk, daemon, apart>>
    /\ Answer(c, Same(c))
    /\ IF Cached(id) /\ Loads(id)
       THEN \E o, e \in Object : /\ GetFromCache(id, o) /\ FreshEnvironment(o, e)
                                 /\ Heap([prog EXCEPT ![o] = Load(id, e)])
       ELSE Heap(prog)

\* Install: tells a running server to stop, makes the directory if it is
\* missing and runs the operations, the server's process alive or not.
Install(c) ==
    /\ At(c, "install", "begun")
    /\ Answer(c, Same(c))
    /\ \/ dir' = [dir EXCEPT ![Root(c)] = TRUE]
       \/ UNCHANGED dir
    /\ UNCHANGED <<allPrograms, proc, file, daemon, apart>>
    /\ Heap(prog)

\* Start: nothing if the program's environment has a process; a process cannot
\* be started in a directory that is missing.
Start(c) ==
    LET e == prog[call[c].prg].env IN
    /\ At(c, "start", "begun")
    /\ Answer(c, Same(c))
    /\ \/ /\ proc[e] = None /\ dir[Root(c)]
          /\ Cardinality({f \in Object : proc[f] # None}) < Procs
          /\ proc' = [proc EXCEPT ![e] = call[c].prg]
       \/ UNCHANGED proc
    /\ UNCHANGED <<allPrograms, disk, daemon, apart>>
    /\ Heap(prog)

\* The process of an environment ends, and afterExit may have the restart queue
\* start the program again: a request of its own, whatever became of the program.
Exit(e) ==
    /\ daemon = "up" /\ proc[e] # None
    /\ proc' = [proc EXCEPT ![e] = None]
    /\ \/ UNCHANGED <<call, told>>
       \/ \E c \in Call : /\ call[c].at = "idle"
                          /\ Begin(c, "start", prog[proc[e]].id, proc[e], None)
    /\ UNCHANGED <<allPrograms, disk, daemon, apart>>
    /\ Heap(prog)

-----------------------------------------------------------------------------
(* The daemon ends, at any point, and is started again.  Its processes die *)
(* with their terminals, or are strangers to the next daemon.              *)

Crash ==
    /\ daemon = "up"
    /\ daemon' = "down"
    /\ allPrograms' = <<>>
    /\ proc' = [e \in Object |-> None]
    /\ call' = [c \in Call |-> Free]
    /\ UNCHANGED <<disk, told, apart>>
    /\ Heap(prog)

\* For an empty file Load returns neither a program nor an error.
LoadFromFolder ==
    /\ daemon = "down"
    /\ IF \E id \in Id : file[id] = Empty
       THEN /\ daemon' = "dead"
            /\ UNCHANGED <<allPrograms, prog>>
       ELSE LET loaded == {id \in Id : Loads(id)}
                n == Cardinality(loaded)
            IN /\ daemon' = "up"
               /\ n <= Slots
               /\ \E order \in [1 .. n -> loaded] :
                     /\ \A i, j \in 1 .. n : order[i] = order[j] => i = j
                     /\ allPrograms' = [i \in 1 .. n |-> i]
                     /\ prog' = [o \in Object |-> IF o <= n THEN Load(order[o], o) ELSE None]
    /\ UNCHANGED <<proc, disk, call, told, apart>>

-----------------------------------------------------------------------------
Request(c) == \E id \in Id :
    \/ \E v \in Created, root \in Id : CreateServer(c, id, v, root)
    \/ \E v \in Edited : Handle(c, "edit", id, v)
    \/ \E op \in {"delete", "reload", "install", "start"} : Handle(c, op, id, None)

Step(c) == Create(c) \/ Delete(c) \/ Edit(c) \/ Reload(c) \/ Install(c) \/ Start(c)

Next == \/ \E c \in Call : Request(c) \/ Step(c)
        \/ \E e \in Object : Exit(e)
        \/ Crash \/ LoadFromFolder

Spec == Init /\ [][Next]_vars

-----------------------------------------------------------------------------
CallRecord == [op : Writers \cup {"start", "none"},
            at : {"idle", "begun", "encode", "environment", "append", "uninstall", "unlink",
                  "save", "write"},
            id : Id \cup {None}, prg : Object \cup {None}, index : Nat,
            data : Value \cup {None}, was : Value \cup {"none", "unsure"}]

(* Every variable has its type. *)
TypeOK == /\ allPrograms \in Seq(Object)
          /\ prog \in [Object -> Program \cup {None}]
          /\ proc \in [Object -> Object \cup {None}]
          /\ file \in [Id -> Content]
          /\ dir \in [Id -> BOOLEAN]
          /\ call \in [Call -> CallRecord]
          /\ daemon \in {"up", "down", "dead"}
          /\ told \in [Id -> Value \cup {"none", "unsure"}]
          /\ apart \subseteq Id

Entries(id) == {i \in DOMAIN allPrograms : prog[allPrograms[i]].id = id}

(* What the last answer said of a server is true until the next request for it   *)
(* begins, through every crash and whatever requests for other servers do: a     *)
(* deleted or refused server has no file, entry or directory; a created or       *)
(* edited one has its variables on file and, unless Save has made the file       *)
(* unreadable for the next daemon, one entry with them.  Two exceptions: a file  *)
(* that a Delete could not remove stays, though the next Delete is answered 204  *)
(* (loader.go:181), and its server is back after a restart; and the directory of *)
(* a server is its own affair only while every Create leaves root alone.         *)
AnswersTrue == \A id \in Id : told[id] # "unsure" =>
    IF told[id] = "none"
    THEN \/ file[id].kind = "left"
         \/ file[id] = NoFile /\ Entries(id) = {} /\ (dir[id] => id \in apart)
    ELSE /\ file[id].vars = told[id]
         /\ daemon = "up" =>
               /\ Loads(id) => Entries(id) # {}
               /\ \A i, j \in Entries(id) : i = j /\ prog[allPrograms[i]].vars = told[id]

(* A program leaves allPrograms only by a Delete of its own server, or when the  *)
(* daemon ends (Deletes that overlap break this: the index of loader.go:205).    *)
Kept == [][\A o \in Registered : daemon' = "up" =>
              \/ \E i \in DOMAIN allPrograms' : allPrograms'[i] = o
              \/ \E c \in Call : At(c, "delete", "unlink") /\ call[c].id = prog[o].id]_vars

(* The directory that a server in allPrograms works in is removed by a Delete of *)
(* a server that works there, and else only by the revert of the Create of       *)
(* another server whose body named that directory (loader.go:131): never by the  *)
(* revert of a Create of its own (two Creates of it that overlap break this).    *)
DataKept == [][\A o \in Registered : dir[prog[o].root] /\ ~dir'[prog[o].root] =>
                  \E c \in Call : /\ call[c].prg # None /\ Root(c) = prog[o].root
                                  /\ \/ At(c, "delete", "uninstall")
                                     \/ At(c, "create", "environment") /\ call[c].id # prog[o].id]_vars

(* A daemon cannot be started again only where a file is left empty by a write   *)
(* that a crash cut short: no answered request leaves such a file.               *)
DeadByTornFile == daemon = "dead" => \E id \in Id : file[id] = Empty /\ told[id] = "unsure"

(* The running process of a program in allPrograms is the one its environment    *)
(* holds, so that Stop and Kill reach it (program.go:184).                       *)
ProcessKnown == \A e \in Object : proc[e] \in Registered => prog[proc[e]].env = e
=============================================================================
