---------------------------- MODULE ServerFiles ----------------------------
(***************************************************************************)
(* The files of a server, as SFTP sessions (sftp/requestprefix.go), HTTP   *)
(* requests and websockets (routing/server, programs/program.go) read and  *)
(* change them.  Nothing is locked: an upload truncates the file and then  *)
(* writes what arrives.                                                    *)
(*                                                                         *)
(* An open file is its inode, which outlives the path it was opened by.  A *)
(* file is the sequence of its parts, each the client that uploaded it; an *)
(* upload has two parts, the file that is there at first has one.  Paths   *)
(* outside of the server's directory are refused before anything here.     *)
(***************************************************************************)
EXTENDS Clients, Naturals, Sequences, FiniteSets

CONSTANTS Path, Inode,
          MaxUploads    \* bound: how many uploads there are

VARIABLES disk,     \* the inode at each path, or None
          dirs,     \* the paths that are directories
          data,     \* the parts of each inode
          uploads,  \* how many there have been
          job,      \* what the operation of each client holds
          first, stirred,   \* history: what a download opened, and whether that
                            \* inode has been written to since
          blamed    \* history: the inodes an upload failed on, or that two
                    \* uploads had open at once

files == <<disk, dirs, data, uploads, job, first, stirred, blamed>>

\* There is always an inode that nothing refers to.
ASSUME FilesAssumption ==
    /\ MaxUploads \in Nat /\ None \notin Path \cup Inode
    /\ IsFiniteSet(Path) /\ IsFiniteSet(Client) /\ IsFiniteSet(Inode)
    /\ Cardinality(Inode) >= Cardinality(Path) + Cardinality(Client)

Size   == 2     \* the parts of an upload
End    == 3     \* no file is that long
Hole   == "hole"
Part   == Client \cup {None, Hole}
NoFile == [path |-> None, inode |-> None, of |-> 0, done |-> 0, got |-> <<>>]
Whole(parts) == parts = <<None>> \/ \E c \in Client : parts = <<c, c>>

FilesInit ==
    LET i == CHOOSE j \in Inode : TRUE IN
    /\ disk \in {[p \in Path |-> IF p = q THEN i ELSE None] : q \in Path}
    /\ dirs = {}
    /\ data = [j \in Inode |-> IF j = i THEN <<None>> ELSE <<>>]
    /\ uploads = 0
    /\ job = [c \in Client |-> NoFile]
    /\ first = [c \in Client |-> <<>>] /\ stirred = [c \in Client |-> FALSE]
    /\ blamed = {}

Open(i) == {c \in Client : job[c].inode = i}
Uploads(i) == {c \in Open(i) : at[c] = "upload"}
Used(i) == Open(i) # {} \/ \E p \in Path : disk[p] = i
Free == CHOOSE i \in Inode : ~Used(i)

\* The system forgets the inodes that nothing refers to any longer; more are
\* those an upload failed on.
Reclaim(more) ==
    /\ data' = [i \in Inode |-> IF Used(i)' THEN data[i] ELSE <<>>]
    /\ blamed' = {i \in Inode : i \in blamed \cup more /\ Used(i)'}

\* What an operation of c can begin with: an HTTP request of its own, or a
\* message of a session.
Asks(c, from) == kind[c] \in from /\ at[c] = IF kind[c] = "http" THEN "idle" ELSE "session"
Request(c, from, to) == Asks(c, from) /\ Goto(c, at[c], to)

\* It is over at once, without an effect or with one that takes a single step.
Answer(c, from) == Asks(c, from) /\ UNCHANGED <<clients, uploads, job, first, stirred>>

Leave(c) ==
    /\ Return(c) /\ job' = [job EXCEPT ![c] = NoFile]
    /\ first' = [first EXCEPT ![c] = <<>>] /\ stirred' = [stirred EXCEPT ![c] = FALSE]

Stir(i) == stirred' = [c \in Client |-> stirred[c] \/ (job[c].inode = i /\ at[c] = "download")]

-----------------------------------------------------------------------------
(* Uploads                                                                 *)

\* os.Create of PutFile, or the OpenFile or Create of Filewrite: the file of
\* that path is truncated, or a new one is made.
Truncate(c, p) ==
    LET i == IF disk[p] = None THEN Free ELSE disk[p] IN
    /\ p \notin dirs
    /\ uploads < MaxUploads /\ uploads' = uploads + 1
    /\ disk' = [disk EXCEPT ![p] = i]
    /\ data' = [data EXCEPT ![i] = <<>>]
    /\ job' = [job EXCEPT ![c] = [NoFile EXCEPT !.inode = i, !.of = Size]]
    /\ Stir(i)
    /\ blamed' = IF Uploads(i) = {} THEN blamed \ {i} ELSE blamed \cup {i}
    /\ UNCHANGED <<dirs, first>>

PutFile(c) ==
    /\ Request(c, {"http"}, "upload")
    /\ \E p \in Path : Truncate(c, p)

\* getFile declares an err of its own: when the file cannot be opened it
\* returns neither a file nor an error, and the session goes on to write.
Filewrite(c) ==
    /\ Request(c, {"sftp"}, "upload")
    /\ \/ \E p \in Path : Truncate(c, p)
       \/ /\ job' = [job EXCEPT ![c] = [NoFile EXCEPT !.of = Size]]
          /\ UNCHANGED <<disk, dirs, data, uploads, first, stirred, blamed>>

\* At its own offset: what lies before, if another upload truncated it, reads
\* as zeros.
Put(parts, k, part) ==
    [i \in 1..(IF k > Len(parts) THEN k ELSE Len(parts)) |->
        IF i = k THEN part ELSE IF i <= Len(parts) THEN parts[i] ELSE Hole]

Write(c) ==
    LET i == job[c].inode IN
    /\ at[c] = "upload" /\ i # None /\ job[c].done < job[c].of
    /\ data' = [data EXCEPT ![i] = Put(@, job[c].done + 1, c)]
    /\ job' = [job EXCEPT ![c].done = @ + 1]
    /\ Stir(i)
    /\ UNCHANGED <<clients, disk, dirs, uploads, first, blamed>>

\* The connection breaks, the disk is full, or there is no file: an error.
UploadFails(c) ==
    /\ at[c] = "upload" /\ job[c].done < job[c].of
    /\ Leave(c)
    /\ UNCHANGED <<disk, dirs, uploads>>
    /\ Reclaim({job[c].inode})

\* Mutant: an upload that stops early is taken to be all of it.
UploadEndsEarly(c) ==
    /\ at[c] = "upload" /\ job[c].inode # None
    /\ Leave(c)
    /\ UNCHANGED <<disk, dirs, uploads>>
    /\ Reclaim({})

UploadEnds(c) ==
    /\ at[c] = "upload" /\ job[c].done = job[c].of
    /\ Leave(c)
    /\ UNCHANGED <<disk, dirs, uploads>>
    /\ Reclaim({})

-----------------------------------------------------------------------------
(* Downloads                                                               *)

\* The Stat of GetItem.  GetFile declares the length it finds, the edit mode
\* of a websocket reads to the end.
GetItem(c) ==
    /\ Request(c, {"http", "socket"}, "stat")
    /\ \E p \in Path :
          /\ disk[p] # None
          /\ job' = [job EXCEPT ![c] = [NoFile EXCEPT !.path = p,
                        !.of = IF kind[c] = "http" THEN Len(data[disk[p]]) ELSE End]]
    /\ UNCHANGED <<disk, dirs, data, uploads, first, stirred, blamed>>

OpenForRead(c, p, n) ==
    /\ disk[p] # None
    /\ job' = [job EXCEPT ![c] = [NoFile EXCEPT !.path = p, !.inode = disk[p], !.of = n]]
    /\ first' = [first EXCEPT ![c] = data[disk[p]]]
    /\ stirred' = [stirred EXCEPT ![c] = FALSE]
    /\ UNCHANGED <<disk, dirs, data, uploads, blamed>>

\* What was a file when it was looked at may be gone.
GetItemOpen(c) ==
    /\ at[c] = "stat"
    /\ \/ Goto(c, "stat", "download") /\ OpenForRead(c, job[c].path, job[c].of)
       \/ disk[job[c].path] = None /\ Leave(c) /\ UNCHANGED <<disk, dirs, uploads>> /\ Reclaim({})

Fileread(c) == Request(c, {"sftp"}, "download") /\ \E p \in Path : OpenForRead(c, p, End)

\* Mutant: the file is found by its path again for each part.
ReadByPath(c) ==
    LET parts == IF disk[job[c].path] = None THEN <<>> ELSE data[disk[job[c].path]] IN
    /\ at[c] = "download" /\ job[c].done < job[c].of /\ job[c].done < Len(parts)
    /\ job' = [job EXCEPT ![c].got = Append(@, parts[job[c].done + 1]), ![c].done = @ + 1]
    /\ UNCHANGED <<clients, disk, dirs, data, uploads, first, stirred, blamed>>

Read(c) ==
    LET parts == data[job[c].inode] IN
    /\ at[c] = "download" /\ job[c].done < job[c].of /\ job[c].done < Len(parts)
    /\ job' = [job EXCEPT ![c].got = Append(@, parts[job[c].done + 1]), ![c].done = @ + 1]
    /\ UNCHANGED <<clients, disk, dirs, data, uploads, first, stirred, blamed>>

\* The declared length or the end is reached, or the client gives up.
DownloadEnds(c) == at[c] = "download" /\ Leave(c) /\ UNCHANGED <<disk, dirs, uploads>> /\ Reclaim({})

-----------------------------------------------------------------------------
(* What takes one step                                                     *)

\* A refusal, an error, or a look at the files: no effect.  Setstat and
\* Symlink say they succeed.
Look(c) == Answer(c, Kind) /\ UNCHANGED <<disk, dirs, data, blamed>>

Missing(p) == disk[p] = None /\ p \notin dirs

\* os.Mkdir, for all of them.
CreateFolder(c) ==
    /\ Answer(c, Kind)
    /\ \E p \in Path : Missing(p) /\ dirs' = dirs \cup {p}
    /\ UNCHANGED <<disk, data, blamed>>

\* os.RemoveAll, which is also what rmdir is, and os.Remove.
DeleteItem(c) ==
    /\ Answer(c, Kind)
    /\ \E p \in Path : disk' = [disk EXCEPT ![p] = None] /\ dirs' = dirs \ {p}
    /\ Reclaim({})

\* Rename of Filecmd: a file replaces a file, a directory an (empty) directory.
Rename(c) ==
    /\ Answer(c, {"sftp"})
    /\ \E p, q \in Path :
          \/ /\ disk[p] # None /\ q \notin dirs
             /\ disk' = [disk EXCEPT ![p] = None, ![q] = disk[p]]
             /\ UNCHANGED dirs
          \/ /\ p \in dirs /\ disk[q] = None
             /\ dirs' = (dirs \ {p}) \cup {q}
             /\ UNCHANGED disk
    /\ Reclaim({})

FileStep(c) == \/ PutFile(c) \/ Filewrite(c) \/ Write(c) \/ UploadFails(c) \/ UploadEnds(c)
               \/ GetItem(c) \/ GetItemOpen(c) \/ Fileread(c) \/ Read(c) \/ DownloadEnds(c)
               \/ Look(c) \/ CreateFolder(c) \/ DeleteItem(c) \/ Rename(c)

-----------------------------------------------------------------------------
FilesTypeOK ==
    /\ disk \in [Path -> Inode \cup {None}] /\ dirs \subseteq Path /\ uploads \in 0..MaxUploads
    /\ data \in [Inode -> Seq(Part)]
    /\ job \in [Client -> [path : Path \cup {None}, inode : Inode \cup {None}, of : 0..End,
                           done : 0..End, got : Seq(Part)]]
    /\ first \in [Client -> Seq(Part)] /\ stirred \in [Client -> BOOLEAN]
    /\ blamed \subseteq Inode
    /\ \A p \in dirs : disk[p] = None

(* A file that is not all of one upload is still being uploaded, or its    *)
(* last upload failed and its client was told, or two uploads overlapped.  *)
TornIsKnown == \A p \in Path : disk[p] # None =>
    Whole(data[disk[p]]) \/ Uploads(disk[p]) # {} \/ disk[p] \in blamed

(* All a download delivers is of the file it opened, even if that has been *)
(* renamed, replaced or deleted, as long as no upload writes into it.      *)
OneFile == \A c \in Client : at[c] = "download" /\ ~stirred[c] =>
    job[c].got = SubSeq(first[c], 1, Len(job[c].got))
=============================================================================
