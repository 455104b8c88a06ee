--------------------------- MODULE SessionsProofs ---------------------------
(* Proofs about what the daemon serves to its clients (module Sessions), for *)
(* any number of clients, paths, inodes and lines.                           *)
EXTENDS Sessions, FiniteSetTheorems, SequenceTheorems, TLAPS

\* A login that asks the panel for a token holds the lock, and nobody has
\* refreshed it within a minute: those that wait look again once they have it.
Asking == /\ at = [c \in Client |-> at[c]]
          /\ \A c \in Client : at[c] = "asking" => lock = c /\ ~recent

LEMMA AskingInit == Init => Asking
BY ClientsAssumption DEF Init, ClientsInit, TokenInit, Asking

\* A step that has a client go from one place to another.
LEMMA GotoPlace ==
    ASSUME Asking, NEW c \in Client, NEW from, NEW to, Goto(c, from, to)
    PROVE  /\ at' = [d \in Client |-> at'[d]]
           /\ at[c] = from /\ at'[c] = to
           /\ \A d \in Client \ {c} : at'[d] = at[d]
BY DEF Asking, Goto

\* Nobody but RefreshToken and RefreshAnswer touches what Asking is about.
LEMMA AskingKept ==
    ASSUME Asking, NEW c \in Client, NEW from, NEW to, Goto(c, from, to),
           to # "asking", UNCHANGED lock, UNCHANGED recent
    PROVE  Asking'
BY GotoPlace DEF Asking

\* A login keeps Asking.
LEMMA AskingLogin ==
    ASSUME Asking, NEW c \in Client, LoginStep(c)
    PROVE  Asking'
<1>1. CASE HandleConn(c) \/ RefreshIfStale(c) \/ Send(c) \/ Hangup(c)
  <2>1. UNCHANGED <<lock, recent>>
        BY <1>1 DEF HandleConn, RefreshIfStale, Send, Hangup, auth
  <2>2. \E from \in {"idle", "stale", "send", "session"}, to \in {"stale", "refresh", "send", "asked", "idle"} :
            Goto(c, from, to)
        BY <1>1 DEF HandleConn, RefreshIfStale, Send, Hangup, Connect
  <2>. QED  BY <2>1, <2>2, AskingKept
<1>2. CASE validateSSH(c)
  <2>1. UNCHANGED <<lock, recent>>
        BY <1>2 DEF validateSSH
  <2>2. \E to \in {"idle", "session", "refresh"} : Goto(c, "asked", to)
        BY <1>2 DEF validateSSH, Leaves
  <2>. QED  BY <2>1, <2>2, AskingKept
<1>3. ASSUME NEW ok \in BOOLEAN, Continue(c, ok)
      PROVE  \E to \in {"send", "stale", "idle"} : Goto(c, at[c], to)
      BY <1>3 DEF Continue, Leaves
<1>4. CASE RefreshToken(c)
  <2>1. CASE recent /\ Continue(c, FALSE) /\ UNCHANGED lock
        BY <2>1, <1>3, <1>4, AskingKept DEF RefreshToken
  <2>2. CASE ~recent /\ Goto(c, "refresh", "asking") /\ lock' = c
    <3>1. \A d \in Client \ {c} : at[d] # "asking"
          BY <1>4, ClientsAssumption DEF RefreshToken, Asking
    <3>2. recent' = recent
          BY <1>4 DEF RefreshToken
    <3>. QED  BY <2>2, <3>1, <3>2, GotoPlace DEF Asking
  <2>. QED  BY <1>4, <2>1, <2>2 DEF RefreshToken
<1>5. CASE RefreshAnswer(c)
  <2>1. \A d \in Client \ {c} : at[d] # "asking"
        BY <1>5 DEF RefreshAnswer, Asking
  <2>2. PICK to \in {"send", "stale", "idle"} : Goto(c, at[c], to)
        BY <1>5, <1>3 DEF RefreshAnswer
  <2>. QED  BY <2>1, <2>2, GotoPlace DEF Asking
<1>. QED  BY <1>1, <1>2, <1>4, <1>5 DEF LoginStep

\* So does what is done with the files, which never goes to "asking".
LEMMA AskingFile ==
    ASSUME Asking, NEW c \in Client, FileStep(c), UNCHANGED auth
    PROVE  Asking'
<1>1. UNCHANGED <<lock, recent>>
      BY DEF auth
<1>2. CASE UNCHANGED at
      BY <1>1, <1>2 DEF Asking
<1>3. ASSUME NEW from, NEW to \in {"upload", "stat", "download"}, Request(c, from, to)
      PROVE  Asking'
      BY <1>1, <1>3, AskingKept DEF Request
<1>4. CASE Leave(c)
      BY <1>1, <1>4, AskingKept DEF Leave, Return
<1>5. CASE PutFile(c) \/ Filewrite(c)
      BY <1>3, <1>5 DEF PutFile, Filewrite
<1>6. CASE GetItem(c) \/ Fileread(c)
      BY <1>3, <1>6 DEF GetItem, Fileread
<1>7. CASE Write(c) \/ Read(c)
      BY <1>2, <1>7 DEF Write, Read, clients
<1>8. CASE UploadFails(c) \/ UploadEnds(c) \/ DownloadEnds(c)
      BY <1>4, <1>8 DEF UploadFails, UploadEnds, DownloadEnds
<1>9. CASE GetItemOpen(c)
      BY <1>1, <1>4, <1>9, AskingKept DEF GetItemOpen
<1>10. CASE Look(c) \/ CreateFolder(c) \/ DeleteItem(c) \/ Rename(c)
      BY <1>2, <1>10 DEF Look, CreateFolder, DeleteItem, Rename, Answer, clients
<1>. QED  BY <1>5, <1>6, <1>7, <1>8, <1>9, <1>10 DEF FileStep

\* So does everything.
LEMMA AskingNext ==
    ASSUME Asking, [Next]_vars
    PROVE  Asking'
<1>1. CASE UNCHANGED vars
      BY <1>1 DEF vars, clients, auth, Asking
<1>2. CASE Minute \/ Expire
      BY <1>2 DEF Minute, Expire, clients, Asking
<1>3. ASSUME NEW c \in Client, LoginStep(c)
      PROVE  Asking'
      BY <1>3, AskingLogin
<1>4. ASSUME NEW c \in Client, FileStep(c), UNCHANGED auth
      PROVE  Asking'
      BY <1>4, AskingFile
<1>5. ASSUME NEW c \in Client, SocketStep(c), UNCHANGED auth
      PROVE  Asking'
  <2>1. UNCHANGED <<lock, recent>>
        BY <1>5 DEF auth
  <2>2. CASE OpenSocket(c)
        BY <2>1, <2>2, AskingKept DEF OpenSocket, Connect
  <2>3. CASE RegisterRead(c) \/ Register(c)
        BY <2>1, <2>3 DEF RegisterRead, Register, clients, Asking
  <2>4. CASE Close(c)
        BY <2>1, <2>4 DEF Close, Asking
  <2>. QED  BY <1>5, <2>2, <2>3, <2>4 DEF SocketStep
<1>6. ASSUME NEW l \in Line, LineStep(l), UNCHANGED auth
      PROVE  Asking'
      BY <1>6 DEF LineStep, Display, WriteLock, WriteMessage, Drop, WriteUnlock, clients, auth, Asking
<1>. QED  BY <1>1, <1>2, <1>3, <1>4, <1>5, <1>6 DEF Next

(* However many logins there are at once, the panel is asked for a token     *)
(* only when the last one is at least a minute old.                          *)
THEOREM RefreshesApartCorrect == Spec => []RefreshesApart
<1>1. Asking => RefreshesApart
      BY DEF Asking, RefreshesApart
<1>. QED  BY <1>1, AskingInit, AskingNext, PTL DEF Spec

-----------------------------------------------------------------------------
(* The files                                                               *)

Places == {"idle", "session", "unread", "gone", "stale", "refresh", "asking",
           "send", "asked", "upload", "stat", "download"}
InFile == {"upload", "stat", "download"}

OpenFile == [path : Path \cup {None}, inode : Inode \cup {None}, of : 0..End,
             done : 0..End, got : Seq(Part)]

\* What the operation of a client holds.
FileUse(c) ==
    /\ at[c] = "upload" => job[c].of = Size
    /\ at[c] = "stat" => job[c].path \in Path
    /\ at[c] = "download" => job[c].inode \in Inode
    /\ at[c] \notin {"upload", "download"} => job[c].inode = None
Uploading(c, i) == at[c] = "upload" /\ job[c].inode = i
\* The only upload of an inode has written what there is.
Uploaded(c) == \A i \in Inode \ blamed : Uploading(c, i) =>
    /\ Len(data[i]) = job[c].done /\ \A k \in 1..job[c].done : data[i][k] = c
    /\ \A d \in Client : Uploading(d, i) => d = c
\* What a download has delivered, while its inode is not written to.
Downloaded(c) == at[c] = "download" /\ ~stirred[c] =>
    /\ data[job[c].inode] = first[c]
    /\ Len(job[c].got) = job[c].done /\ job[c].done <= Len(first[c])
    /\ \A k \in 1..job[c].done : job[c].got[k] = first[c][k]
\* The inode of a path is whole, or there is a reason.
Known(i) == Whole(data[i]) \/ (\E c \in Client : Uploading(c, i)) \/ i \in blamed

FilesTyped == FilesTypeOK /\ at \in [Client -> Places] /\ kind \in [Client -> Kind]
              /\ \A i \in Inode : Len(data[i]) <= Size
FilesInv == /\ FilesTyped
            /\ \A c \in Client : FileUse(c) /\ Uploaded(c) /\ Downloaded(c)
            /\ \A p \in Path : disk[p] # None => Known(disk[p])

LEMMA ImageSize ==
    ASSUME NEW S, IsFiniteSet(S), NEW f
    PROVE  /\ IsFiniteSet({f[x] : x \in S})
           /\ Cardinality({f[x] : x \in S}) <= Cardinality(S)
<1>. DEFINE T == {f[x] : x \in S}
            g == [x \in S |-> f[x]]
<1>1. g \in [S -> T] /\ \A t \in T : \E x \in S : g[x] = t
      OBVIOUS
<1>. HIDE DEF g, T
<1>2. g \in Surjection(S, T)
      BY <1>1 DEF Surjection
<1>3. IsFiniteSet(T) /\ Cardinality(T) <= Cardinality(S)
      BY <1>2, FS_Surjection
<1>. QED  BY <1>3 DEF T

\* There is an inode for a new file: the client that makes it has none open,
\* and its path has none.
LEMMA FreeInode ==
    ASSUME FilesInv, NEW c \in Client, NEW p \in Path, job[c].inode = None, disk[p] = None
    PROVE  Free \in Inode /\ ~Used(Free)
<1>. SUFFICES ASSUME \A i \in Inode : Used(i) PROVE FALSE
     BY DEF Free
<1>. DEFINE P == Path \ {p}
            C == Client \ {c}
            A == {disk[q] : q \in P}
            B == {job[d].inode : d \in C}
<1>1. Inode \subseteq A \cup B
  <2>. SUFFICES ASSUME NEW i \in Inode PROVE i \in A \cup B
       OBVIOUS
  <2>1. i # None
        BY FilesAssumption
  <2>. QED  BY <2>1 DEF Used, Open
<1>2. /\ IsFiniteSet(P) /\ Cardinality(P) = Cardinality(Path) - 1
      /\ IsFiniteSet(C) /\ Cardinality(C) = Cardinality(Client) - 1
      BY FilesAssumption, FS_RemoveElement
<1>. DEFINE inode == [d \in Client |-> job[d].inode]
<1>3. B = {inode[d] : d \in C}
      OBVIOUS
<1>. HIDE DEF P, C, A, B, inode
<1>4. IsFiniteSet(A) /\ Cardinality(A) <= Cardinality(P)
      BY <1>2, ImageSize DEF A
<1>5. IsFiniteSet(B) /\ Cardinality(B) <= Cardinality(C)
      BY <1>2, <1>3, ImageSize
<1>6. /\ IsFiniteSet(A \cup B)
      /\ Cardinality(A \cup B) = Cardinality(A) + Cardinality(B) - Cardinality(A \cap B)
      BY <1>4, <1>5, FS_Union
<1>7. Cardinality(Inode) <= Cardinality(A \cup B)
      BY <1>1, <1>6, FS_Subset
<1>8. /\ Cardinality(A) \in Nat /\ Cardinality(B) \in Nat /\ Cardinality(A \cap B) \in Nat
      /\ Cardinality(Inode) \in Nat /\ Cardinality(Path) \in Nat /\ Cardinality(Client) \in Nat
      BY <1>4, <1>5, FilesAssumption, FS_CardinalityType, FS_Intersection
<1>. QED  BY <1>2, <1>4, <1>5, <1>6, <1>7, <1>8, FilesAssumption

LEMMA FilesStart == ClientsInit /\ FilesInit => FilesInv
<1>. SUFFICES ASSUME ClientsInit, FilesInit PROVE FilesInv
     OBVIOUS
<1>. DEFINE first0 == CHOOSE j \in Inode : TRUE
<1>1. PICK q \in Path : disk = [p \in Path |-> IF p = q THEN first0 ELSE None]
      BY DEF FilesInit
<1>2. first0 \in Inode
  <2>1. Cardinality(Path) # 0 /\ Cardinality(Path) \in Nat /\ Cardinality(Client) \in Nat
        BY <1>1, FilesAssumption, FS_EmptySet, FS_CardinalityType
  <2>2. Inode # {}
        BY <2>1, FilesAssumption, FS_EmptySet
  <2>. QED  BY <2>2
<1>. HIDE DEF first0
<1>3. /\ dirs = {} /\ data = [j \in Inode |-> IF j = first0 THEN <<None>> ELSE <<>>] /\ uploads = 0
      /\ job = [c \in Client |-> NoFile] /\ blamed = {}
      /\ first = [c \in Client |-> <<>>] /\ stirred = [c \in Client |-> FALSE]
      BY DEF FilesInit, first0
<1>4. at = [c \in Client |-> "idle"] /\ kind \in [Client -> Kind]
      BY DEF ClientsInit
<1>5. <<None>> \in Seq(Part) /\ <<>> \in Seq(Part)
      BY DEF Part
<1>6. data \in [Inode -> Seq(Part)] /\ first \in [Client -> Seq(Part)]
      BY <1>3, <1>5
<1>7. FilesTypeOK
      BY <1>1, <1>2, <1>3, <1>5, <1>6, FilesAssumption DEF FilesTypeOK, NoFile, End
<1>8. FilesTyped
      BY <1>3, <1>4, <1>7 DEF FilesTyped, Places, Size
<1>9. \A c \in Client : FileUse(c) /\ Uploaded(c) /\ Downloaded(c)
      BY <1>3, <1>4 DEF FileUse, Uploaded, Uploading, Downloaded, NoFile
<1>10. \A p \in Path : disk[p] # None => Known(disk[p])
      BY <1>1, <1>2, <1>3 DEF Known, Whole
<1>. QED  BY <1>8, <1>9, <1>10 DEF FilesInv

\* A step that leaves the files alone, and that keeps each client in, or out
\* of, the middle of one.
LEMMA FilesAlone ==
    ASSUME FilesInv, UNCHANGED files, at' \in [Client -> Places], kind' = kind,
           \A c \in Client : at'[c] = at[c] \/ (at[c] \notin InFile /\ at'[c] \notin InFile)
    PROVE  FilesInv'
<1>1. /\ disk' = disk /\ dirs' = dirs /\ data' = data /\ uploads' = uploads /\ job' = job
      /\ first' = first /\ stirred' = stirred /\ blamed' = blamed
      BY DEF files
<1>2. \A c \in Client : (at'[c] = "upload" <=> at[c] = "upload")
                     /\ (at'[c] = "stat" <=> at[c] = "stat")
                     /\ (at'[c] = "download" <=> at[c] = "download")
      BY DEF InFile
<1>3. FilesTyped'
      BY <1>1 DEF FilesInv, FilesTyped, FilesTypeOK
<1>4. \A c \in Client, i \in Inode : Uploading(c, i)' = Uploading(c, i)
      BY <1>1, <1>2 DEF Uploading
<1>5. ASSUME NEW c \in Client
      PROVE  FileUse(c)' /\ Uploaded(c)' /\ Downloaded(c)'
  <2>1. FileUse(c)' /\ Downloaded(c)'
        BY <1>1, <1>2 DEF FilesInv, FileUse, Downloaded
  <2>2. Uploaded(c)'
        BY <1>1, <1>4 DEF FilesInv, Uploaded
  <2>. QED  BY <2>1, <2>2
<1>6. ASSUME NEW p \in Path, disk'[p] # None
      PROVE  Known(disk[p])'
  <2>1. Known(disk[p]) /\ disk[p] \in Inode
        BY <1>1, <1>6 DEF FilesInv, FilesTyped, FilesTypeOK
  <2>. QED  BY <1>1, <1>4, <2>1 DEF Known
<1>. QED  BY <1>1, <1>3, <1>5, <1>6 DEF FilesInv

LEMMA Numbers == Size \in 0..End
BY DEF Size, End

LEMMA NoFileType == NoFile \in OpenFile
<1>1. <<>> \in Seq(Part)
      OBVIOUS
<1>. QED  BY <1>1 DEF NoFile, OpenFile, End

\* What is known of each inode is known of each path.
LEMMA KnownPaths ==
    ASSUME FilesTyped', \A i \in Inode, p \in Path : disk'[p] = i => Known(i)'
    PROVE  \A p \in Path : disk'[p] # None => Known(disk[p])'
<1>1. \A p \in Path : disk'[p] # None => disk'[p] \in Inode
      BY DEF FilesTyped, FilesTypeOK
<1>. QED  BY <1>1

\* A client that holds nothing any longer, and what the system then forgets.
LEMMA LeaveFiles ==
    ASSUME FilesInv, NEW c \in Client, NEW more, Leave(c), UNCHANGED <<disk, dirs, uploads>>, Reclaim(more),
           \A i \in Inode \ (blamed \cup more) : Uploading(c, i) => job[c].done = Size
    PROVE  FilesInv'
<1>1. /\ at'[c] \in {"idle", "session"} /\ \A d \in Client \ {c} : at'[d] = at[d]
      /\ at' \in [Client -> Places] /\ kind' = kind
      BY DEF Leave, Return, Goto, FilesInv, FilesTyped, Places
<1>2. /\ job'[c] = NoFile /\ \A d \in Client \ {c} : job'[d] = job[d] /\ first'[d] = first[d] /\ stirred'[d] = stirred[d]
      BY DEF Leave, FilesInv, FilesTyped, FilesTypeOK
<1>3. /\ job' \in [Client -> OpenFile]
      /\ first' \in [Client -> Seq(Part)] /\ stirred' \in [Client -> BOOLEAN]
  <2>1. <<>> \in Seq(Part)
        OBVIOUS
  <2>. QED  BY <2>1, NoFileType DEF Leave, FilesInv, FilesTyped, FilesTypeOK, OpenFile
<1>4. /\ data' = [i \in Inode |-> IF Used(i)' THEN data[i] ELSE <<>>]
      /\ blamed' = {i \in Inode : i \in blamed \cup more /\ Used(i)'}
      BY DEF Reclaim
<1>5. \A i \in Inode : Used(i)' => data'[i] = data[i] /\ (i \notin blamed' => i \notin blamed \cup more)
      BY <1>4
<1>6. FilesTyped'
  <2>1. \A i \in Inode : data'[i] \in Seq(Part) /\ Len(data'[i]) <= Size
        BY <1>4 DEF FilesInv, FilesTyped, FilesTypeOK, Size
  <2>. QED  BY <1>1, <1>3, <1>4, <2>1 DEF FilesInv, FilesTyped, FilesTypeOK, OpenFile
<1>7. FileUse(c)' /\ Uploaded(c)' /\ Downloaded(c)'
      BY <1>1, <1>2 DEF FileUse, Uploaded, Uploading, Downloaded, NoFile
<1>8. ASSUME NEW d \in Client \ {c}
      PROVE  FileUse(d)' /\ Uploaded(d)' /\ Downloaded(d)'
  <2>1. \A i \in Inode : job'[d].inode = i => Used(i)'
        BY DEF Used, Open
  <2>2. FileUse(d)'
        BY <1>1, <1>2 DEF FilesInv, FileUse
  <2>3. Uploaded(d)'
    <3>. SUFFICES ASSUME NEW i \in Inode, i \notin blamed', Uploading(d, i)'
                  PROVE  /\ Len(data'[i]) = job'[d].done /\ \A k \in 1..job'[d].done : data'[i][k] = d
                         /\ \A e \in Client : Uploading(e, i)' => e = d
         BY DEF Uploaded
    <3>1. data'[i] = data[i] /\ i \notin blamed /\ Uploading(d, i)
          BY <1>1, <1>2, <1>5, <2>1 DEF Uploading
    <3>2. \A e \in Client : Uploading(e, i)' => Uploading(e, i) \/ e = c
          BY <1>1, <1>2 DEF Uploading
    <3>3. ~Uploading(c, i)'
          BY <1>1 DEF Uploading
    <3>. QED  BY <1>2, <3>1, <3>2, <3>3 DEF FilesInv, Uploaded
  <2>4. Downloaded(d)'
    <3>. SUFFICES ASSUME at'[d] = "download", ~stirred'[d]
                  PROVE  /\ data'[job'[d].inode] = first'[d]
                         /\ Len(job'[d].got) = job'[d].done /\ job'[d].done <= Len(first'[d])
                         /\ \A k \in 1..job'[d].done : job'[d].got[k] = first'[d][k]
         BY DEF Downloaded
    <3>1. at[d] = "download" /\ job'[d] = job[d] /\ ~stirred[d] /\ first'[d] = first[d] /\ job[d].inode \in Inode
          BY <1>1, <1>2 DEF FilesInv, FileUse
    <3>2. data'[job'[d].inode] = data[job[d].inode]
          BY <1>5, <2>1, <3>1
    <3>. QED  BY <3>1, <3>2 DEF FilesInv, Downloaded
  <2>. QED  BY <2>2, <2>3, <2>4
<1>9. ASSUME NEW i \in Inode, NEW p \in Path, disk[p] = i
      PROVE  Known(i)'
  <2>1. Used(i)' /\ Known(i)
        BY <1>9, FilesAssumption DEF FilesInv, Used
  <2>2. data'[i] = data[i] /\ (i \in blamed \cup more => i \in blamed')
        BY <1>4, <2>1
  <2>3. ASSUME NEW d \in Client, Uploading(d, i), d # c
        PROVE  Known(i)'
        BY <1>1, <1>2, <2>3 DEF Known, Uploading
  <2>4. CASE Uploading(c, i) /\ i \notin blamed \cup more
    <3>1. Len(data[i]) = Size /\ \A k \in 1..Size : data[i][k] = c
          BY <2>1, <2>4 DEF FilesInv, Uploaded
    <3>2. data[i] = <<c, c>>
          BY <2>1, <3>1 DEF FilesInv, FilesTyped, FilesTypeOK, Size
    <3>. QED  BY <2>2, <3>2 DEF Known, Whole
  <2>5. CASE Whole(data[i]) \/ i \in blamed \cup more
        BY <2>2, <2>5 DEF Known, Whole
  <2>. QED  BY <2>1, <2>3, <2>4, <2>5 DEF Known
<1>10. \A p \in Path : disk'[p] # None => Known(disk[p])'
      BY <1>6, <1>9, KnownPaths
<1>. QED  BY <1>6, <1>7, <1>8, <1>10 DEF FilesInv

\* An upload begins, with or without a file.
LEMMA UploadFiles ==
    ASSUME FilesInv, NEW c \in Client, at[c] \notin InFile, Goto(c, at[c], "upload"),
           \/ \E p \in Path : Truncate(c, p)
           \/ /\ job' = [job EXCEPT ![c] = [NoFile EXCEPT !.of = Size]]
              /\ UNCHANGED <<disk, dirs, data, uploads, first, stirred, blamed>>
    PROVE  FilesInv'
<1>1. /\ at'[c] = "upload" /\ \A d \in Client \ {c} : at'[d] = at[d]
      /\ at' \in [Client -> Places] /\ kind' = kind
      BY DEF Goto, FilesInv, FilesTyped, Places
<1>2. <<>> \in Seq(Part) /\ None \notin Inode /\ job[c].inode = None
      BY FilesAssumption DEF FilesInv, FileUse, InFile
<1>3. CASE /\ job' = [job EXCEPT ![c] = [NoFile EXCEPT !.of = Size]]
           /\ UNCHANGED <<disk, dirs, data, uploads, first, stirred, blamed>>
  <2>1. /\ job'[c].inode = None /\ job'[c].of = Size
        /\ \A d \in Client \ {c} : job'[d] = job[d]
        BY <1>3 DEF FilesInv, FilesTyped, FilesTypeOK, NoFile
  <2>2. [NoFile EXCEPT !.of = Size] \in OpenFile
        BY <1>2, NoFileType, Numbers DEF OpenFile
  <2>3. FilesTyped'
        BY <1>1, <1>3, <2>2 DEF FilesInv, FilesTyped, FilesTypeOK, OpenFile
  <2>4. \A d \in Client, i \in Inode : Uploading(d, i)' <=> Uploading(d, i)
        BY <1>1, <1>2, <2>1 DEF Uploading
  <2>5. ASSUME NEW d \in Client
        PROVE  FileUse(d)' /\ Uploaded(d)' /\ Downloaded(d)'
    <3>1. FileUse(d)' /\ Downloaded(d)'
          BY <1>1, <1>3, <2>1 DEF FilesInv, FileUse, Downloaded
    <3>2. CASE d = c
      <4>1. \A i \in Inode : ~Uploading(c, i)'
            BY <1>2, <2>1 DEF Uploading
      <4>. QED  BY <3>1, <3>2, <4>1 DEF Uploaded
    <3>3. CASE d # c
      <4>1. Uploaded(d) /\ job'[d] = job[d] /\ data' = data /\ blamed' = blamed
            BY <1>3, <2>1, <3>3 DEF FilesInv
      <4>. QED  BY <2>4, <3>1, <4>1 DEF Uploaded
    <3>. QED  BY <3>1, <3>2, <3>3
  <2>6. \A i \in Inode, p \in Path : disk'[p] = i => Known(i)'
        BY <1>2, <1>3, <2>4 DEF FilesInv, Known
  <2>. QED  BY <2>3, <2>5, <2>6, KnownPaths DEF FilesInv
<1>4. ASSUME NEW p \in Path, Truncate(c, p)
      PROVE  FilesInv'
  <2>1. PICK i : i = IF disk[p] = None THEN Free ELSE disk[p]
        OBVIOUS
  <2>2. i \in Inode /\ (disk[p] # i => ~Used(i))
        BY <1>2, <2>1, FreeInode DEF FilesInv, FilesTyped, FilesTypeOK
  <2>3. /\ p \notin dirs /\ uploads < MaxUploads /\ uploads' = uploads + 1 /\ dirs' = dirs /\ first' = first
        /\ disk' = [disk EXCEPT ![p] = i] /\ data' = [data EXCEPT ![i] = <<>>]
        /\ job' = [job EXCEPT ![c] = [NoFile EXCEPT !.inode = i, !.of = Size]]
        /\ stirred' = [d \in Client |-> stirred[d] \/ (job[d].inode = i /\ at[d] = "download")]
        /\ blamed' = IF Uploads(i) = {} THEN blamed \ {i} ELSE blamed \cup {i}
        BY <1>4, <2>1 DEF Truncate, Stir
  <2>4. /\ job'[c].inode = i /\ job'[c].of = Size /\ job'[c].done = 0
        /\ \A d \in Client \ {c} : job'[d] = job[d]
        BY <2>3 DEF FilesInv, FilesTyped, FilesTypeOK, NoFile
  <2>5. data'[i] = <<>> /\ \A j \in Inode \ {i} : data'[j] = data[j] /\ (j \in blamed' <=> j \in blamed)
        BY <2>2, <2>3 DEF FilesInv, FilesTyped, FilesTypeOK
  <2>6. FilesTyped'
    <3>1. [NoFile EXCEPT !.inode = i, !.of = Size] \in OpenFile
          BY <2>2, NoFileType, Numbers DEF OpenFile
    <3>2. uploads' \in 0..MaxUploads
          BY <2>3, FilesAssumption DEF FilesInv, FilesTyped, FilesTypeOK
    <3>3. /\ disk' \in [Path -> Inode \cup {None}] /\ data' \in [Inode -> Seq(Part)]
          /\ stirred' \in [Client -> BOOLEAN]
          /\ \A q \in dirs' : disk'[q] = None
          BY <1>2, <2>2, <2>3 DEF FilesInv, FilesTyped, FilesTypeOK
    <3>4. blamed' \subseteq Inode
          BY <2>2, <2>3 DEF FilesInv, FilesTyped, FilesTypeOK
    <3>5. \A j \in Inode : Len(data'[j]) <= Size
          BY <2>5 DEF FilesInv, FilesTyped, Size
    <3>. QED  BY <1>1, <2>3, <3>1, <3>2, <3>3, <3>4, <3>5 DEF FilesInv, FilesTyped, FilesTypeOK, OpenFile
  <2>7. i \notin blamed' => \A d \in Client : ~Uploading(d, i)
        BY <2>3 DEF Uploads, Open, Uploading
  <2>8. /\ \A d \in Client \ {c}, j \in Inode : Uploading(d, j)' <=> Uploading(d, j)
        /\ \A j \in Inode : Uploading(c, j)' <=> j = i
        BY <1>1, <2>2, <2>4 DEF Uploading
  <2>9. ASSUME NEW d \in Client
        PROVE  FileUse(d)' /\ Uploaded(d)' /\ Downloaded(d)'
    <3>1. FileUse(d)'
          BY <1>1, <2>4 DEF FilesInv, FileUse
    <3>2. CASE d = c
      <4>1. Uploaded(c)'
            BY <2>2, <2>4, <2>5, <2>7, <2>8 DEF Uploaded
      <4>2. Downloaded(c)'
            BY <1>1 DEF Downloaded
      <4>. QED  BY <3>1, <3>2, <4>1, <4>2
    <3>3. CASE d # c
      <4>1. Uploaded(d)'
            BY <2>2, <2>4, <2>5, <2>7, <2>8, <3>3 DEF FilesInv, Uploaded
      <4>2. Downloaded(d)'
        <5>. SUFFICES ASSUME at'[d] = "download", ~stirred'[d]
                      PROVE  /\ data'[job'[d].inode] = first'[d]
                             /\ Len(job'[d].got) = job'[d].done /\ job'[d].done <= Len(first'[d])
                             /\ \A k \in 1..job'[d].done : job'[d].got[k] = first'[d][k]
             BY DEF Downloaded
        <5>1. job'[d] = job[d] /\ at[d] = "download" /\ first' = first /\ job[d].inode \in Inode
              BY <1>1, <2>3, <2>4, <3>3 DEF FilesInv, FileUse
        <5>2. ~stirred[d] /\ job[d].inode # i
              BY <2>3, <5>1
        <5>. QED  BY <2>5, <5>1, <5>2 DEF FilesInv, Downloaded
      <4>. QED  BY <3>1, <4>1, <4>2
    <3>. QED  BY <3>2, <3>3
  <2>10. ASSUME NEW j \in Inode, NEW q \in Path, disk'[q] = j
         PROVE  Known(j)'
    <3>1. CASE j = i
          BY <2>8, <3>1 DEF Known
    <3>2. CASE j # i
      <4>1. disk[q] = j /\ j # None
            BY <1>2, <2>3, <2>10, <3>2 DEF FilesInv, FilesTyped, FilesTypeOK
      <4>2. Known(j) /\ ~Uploading(c, j)
            BY <1>2, <4>1 DEF FilesInv, Uploading
      <4>. QED  BY <2>5, <2>8, <3>2, <4>2 DEF Known
    <3>. QED  BY <3>1, <3>2
  <2>. QED  BY <2>6, <2>9, <2>10, KnownPaths DEF FilesInv
<1>. QED  BY <1>3, <1>4

LEMMA PutParts ==
    ASSUME NEW parts \in Seq(Part), NEW n \in Nat, NEW c \in Client, Len(parts) <= Size, n < Size
    PROVE  /\ Put(parts, n + 1, c) \in Seq(Part) /\ Len(Put(parts, n + 1, c)) <= Size
           /\ Len(parts) = n => /\ Len(Put(parts, n + 1, c)) = n + 1
                                /\ Put(parts, n + 1, c)[n + 1] = c
                                /\ \A k \in 1..n : Put(parts, n + 1, c)[k] = parts[k]
<1>. DEFINE m == IF n + 1 > Len(parts) THEN n + 1 ELSE Len(parts)
            el(i) == IF i = n + 1 THEN c ELSE IF i <= Len(parts) THEN parts[i] ELSE Hole
<1>1. m \in Nat /\ m <= Size /\ (Len(parts) = n => m = n + 1)
      BY DEF Size
<1>2. \A i \in 1..m : el(i) \in Part
      BY DEF Part
<1>3. Put(parts, n + 1, c) = [i \in 1..m |-> el(i)]
      BY DEF Put
<1>4. [i \in 1..m |-> el(i)] \in Seq(Part)
      BY <1>1, <1>2
<1>5. Len([i \in 1..m |-> el(i)]) = m
      BY <1>1
<1>. QED  BY <1>1, <1>3, <1>4, <1>5

\* A part of an upload arrives.
LEMMA WriteFiles ==
    ASSUME FilesInv, NEW c \in Client, Write(c)
    PROVE  FilesInv'
<1>1. PICK i : i = job[c].inode
      OBVIOUS
<1>2. PICK n : n = job[c].done
      OBVIOUS
<1>3. /\ at[c] = "upload" /\ i # None /\ n < job[c].of
      /\ data' = [data EXCEPT ![i] = Put(data[i], n + 1, c)]
      /\ job' = [job EXCEPT ![c].done = n + 1]
      /\ stirred' = [d \in Client |-> stirred[d] \/ (job[d].inode = i /\ at[d] = "download")]
      /\ at' = at /\ kind' = kind /\ disk' = disk /\ dirs' = dirs /\ uploads' = uploads
      /\ first' = first /\ blamed' = blamed
      BY <1>1, <1>2 DEF Write, Stir, clients
<1>4. i \in Inode /\ n \in Nat /\ job[c].of = Size /\ n < Size
      BY <1>1, <1>2, <1>3 DEF FilesInv, FilesTyped, FilesTypeOK, FileUse
<1>5. /\ job'[c] = [job[c] EXCEPT !.done = n + 1]
      /\ job'[c].done = n + 1 /\ job'[c].inode = i /\ job'[c].of = Size
      /\ \A d \in Client \ {c} : job'[d] = job[d]
      BY <1>1, <1>3, <1>4 DEF FilesInv, FilesTyped, FilesTypeOK
<1>6. /\ data'[i] = Put(data[i], n + 1, c) /\ \A j \in Inode \ {i} : data'[j] = data[j]
      /\ data[i] \in Seq(Part) /\ Len(data[i]) <= Size
      BY <1>3, <1>4 DEF FilesInv, FilesTyped, FilesTypeOK
<1>7. FilesTyped'
  <2>1. data' \in [Inode -> Seq(Part)] /\ \A j \in Inode : Len(data'[j]) <= Size
        BY <1>3, <1>4, <1>6, PutParts DEF FilesInv, FilesTyped, FilesTypeOK
  <2>2. n + 1 \in 0..End
        BY <1>4 DEF Size, End
  <2>3. job' \in [Client -> OpenFile]
    <3>1. job \in [Client -> OpenFile]
          BY DEF FilesInv, FilesTyped, FilesTypeOK, OpenFile
    <3>. QED  BY <1>3, <2>2, <3>1 DEF OpenFile
  <2>4. stirred' \in [Client -> BOOLEAN]
        BY <1>3 DEF FilesInv, FilesTyped, FilesTypeOK
  <2>. QED  BY <1>3, <2>1, <2>3, <2>4 DEF FilesInv, FilesTyped, FilesTypeOK, OpenFile
<1>8. \A d \in Client, j \in Inode : Uploading(d, j)' <=> Uploading(d, j)
      BY <1>1, <1>3, <1>5 DEF Uploading
<1>9. Uploading(c, i) /\ \A j \in Inode : Uploading(c, j) => j = i
      BY <1>1, <1>3 DEF Uploading
<1>10. ASSUME NEW d \in Client
       PROVE  FileUse(d)' /\ Uploaded(d)' /\ Downloaded(d)'
  <2>1. FileUse(d)'
        BY <1>1, <1>3, <1>4, <1>5 DEF FilesInv, FileUse
  <2>2. CASE d = c
    <3>1. Uploaded(c)
          BY DEF FilesInv
    <3>2. Uploaded(c)'
      <4>. SUFFICES ASSUME i \notin blamed
                    PROVE  /\ Len(data'[i]) = n + 1 /\ \A k \in 1..(n + 1) : data'[i][k] = c
                           /\ \A e \in Client : Uploading(e, i) => e = c
           BY <1>3, <1>5, <1>8, <1>9 DEF Uploaded
      <4>1. /\ Len(data[i]) = n /\ \A k \in 1..n : data[i][k] = c
            /\ \A e \in Client : Uploading(e, i) => e = c
            BY <1>2, <1>4, <1>9, <3>1 DEF Uploaded
      <4>2. PICK parts \in Seq(Part) : parts = data[i]
            BY <1>6
      <4>3. Len(parts) <= Size /\ Len(parts) = n
            BY <1>6, <4>1, <4>2
      <4>4. /\ Len(Put(parts, n + 1, c)) = n + 1 /\ Put(parts, n + 1, c)[n + 1] = c
            /\ \A k \in 1..n : Put(parts, n + 1, c)[k] = parts[k]
            BY <1>4, <4>3, PutParts
      <4>5. /\ Len(data'[i]) = n + 1 /\ data'[i][n + 1] = c
            /\ \A k \in 1..n : data'[i][k] = data[i][k]
            BY <1>6, <4>2, <4>4
      <4>. QED  BY <1>4, <4>1, <4>5
    <3>3. Downloaded(c)'
          BY <1>3 DEF Downloaded
    <3>. QED  BY <2>1, <2>2, <3>2, <3>3
  <2>3. CASE d # c
    <3>1. Uploaded(d)'
          BY <1>3, <1>4, <1>5, <1>6, <1>8, <1>9, <2>3 DEF FilesInv, Uploaded
    <3>2. Downloaded(d)'
      <4>. SUFFICES ASSUME at'[d] = "download", ~stirred'[d]
                    PROVE  /\ data'[job'[d].inode] = first'[d]
                           /\ Len(job'[d].got) = job'[d].done /\ job'[d].done <= Len(first'[d])
                           /\ \A k \in 1..job'[d].done : job'[d].got[k] = first'[d][k]
           BY DEF Downloaded
      <4>1. job'[d] = job[d] /\ at[d] = "download" /\ job[d].inode \in Inode
            BY <1>3, <1>5, <2>3 DEF FilesInv, FileUse
      <4>2. ~stirred[d] /\ job[d].inode # i
            BY <1>3, <4>1
      <4>. QED  BY <1>3, <1>6, <4>1, <4>2 DEF FilesInv, Downloaded
    <3>. QED  BY <2>1, <3>1, <3>2
  <2>. QED  BY <2>2, <2>3
<1>11. ASSUME NEW j \in Inode, NEW q \in Path, disk'[q] = j
       PROVE  Known(j)'
  <2>1. CASE j = i
        BY <1>8, <1>9, <2>1 DEF Known
  <2>2. CASE j # i
    <3>1. Known(j)
          BY <1>3, <1>11, FilesAssumption DEF FilesInv
    <3>. QED  BY <1>3, <1>6, <1>8, <2>2, <3>1 DEF Known
  <2>. QED  BY <2>1, <2>2
<1>. QED  BY <1>7, <1>10, <1>11, KnownPaths DEF FilesInv

\* A client that looks at a file, or opens it for reading.
LEMMA OpenFiles ==
    ASSUME FilesInv, NEW c \in Client, at[c] # "upload", NEW to \in {"stat", "download"},
           Goto(c, at[c], to), UNCHANGED <<disk, dirs, data, uploads, blamed>>,
           NEW f \in OpenFile, job' = [job EXCEPT ![c] = f],
           IF to = "stat" THEN f.path \in Path /\ f.inode = None /\ UNCHANGED <<first, stirred>>
           ELSE /\ f.inode \in Inode /\ f.done = 0 /\ f.got = <<>>
                /\ first' = [first EXCEPT ![c] = data[f.inode]]
                /\ stirred' = [stirred EXCEPT ![c] = FALSE]
    PROVE  FilesInv'
<1>1. /\ at'[c] = to /\ \A d \in Client \ {c} : at'[d] = at[d]
      /\ at' \in [Client -> Places] /\ kind' = kind
      BY DEF Goto, FilesInv, FilesTyped, Places
<1>2. /\ job'[c] = f /\ job' \in [Client -> OpenFile]
      /\ \A d \in Client \ {c} : job'[d] = job[d] /\ first'[d] = first[d] /\ stirred'[d] = stirred[d]
      /\ first' \in [Client -> Seq(Part)] /\ stirred' \in [Client -> BOOLEAN]
      /\ to = "download" => first'[c] = data[f.inode]
  <2>1. /\ job \in [Client -> OpenFile] /\ data \in [Inode -> Seq(Part)]
        /\ first \in [Client -> Seq(Part)] /\ stirred \in [Client -> BOOLEAN]
        BY DEF FilesInv, FilesTyped, FilesTypeOK, OpenFile
  <2>2. CASE to = "stat"
        BY <2>1, <2>2
  <2>3. CASE to = "download"
        BY <2>1, <2>3
  <2>. QED  BY <2>2, <2>3
<1>3. FilesTyped'
      BY <1>1, <1>2 DEF FilesInv, FilesTyped, FilesTypeOK, OpenFile
<1>4. \A d \in Client, i \in Inode : Uploading(d, i)' <=> Uploading(d, i)
      BY <1>1, <1>2 DEF Uploading
<1>5. ASSUME NEW d \in Client
      PROVE  FileUse(d)' /\ Uploaded(d)' /\ Downloaded(d)'
  <2>1. FileUse(d)'
    <3>1. CASE d = c
          BY <1>1, <1>2, <3>1 DEF FileUse
    <3>2. CASE d # c
      <4>1. FileUse(d) /\ at'[d] = at[d] /\ job'[d] = job[d]
            BY <1>1, <1>2, <3>2 DEF FilesInv
      <4>. QED  BY <4>1 DEF FileUse
    <3>. QED  BY <3>1, <3>2
  <2>2. Uploaded(d)'
    <3>1. CASE d = c
      <4>1. \A i \in Inode : ~Uploading(c, i)'
            BY <1>1 DEF Uploading
      <4>. QED  BY <3>1, <4>1 DEF Uploaded
    <3>2. CASE d # c
      <4>1. Uploaded(d) /\ job'[d] = job[d]
            BY <1>2, <3>2 DEF FilesInv
      <4>. QED  BY <1>4, <4>1 DEF Uploaded
    <3>. QED  BY <3>1, <3>2
  <2>3. Downloaded(d)'
    <3>1. CASE d = c
      <4>1. f.inode \in Inode => Len(data[f.inode]) \in Nat
            BY DEF FilesInv, FilesTyped, FilesTypeOK
      <4>. QED  BY <1>1, <1>2, <3>1, <4>1 DEF Downloaded
    <3>2. CASE d # c
      <4>1. Downloaded(d) /\ job'[d] = job[d] /\ first'[d] = first[d] /\ stirred'[d] = stirred[d]
            BY <1>2, <3>2 DEF FilesInv
      <4>. QED  BY <1>1, <3>2, <4>1 DEF Downloaded
    <3>. QED  BY <3>1, <3>2
  <2>. QED  BY <2>1, <2>2, <2>3
<1>6. ASSUME NEW i \in Inode, NEW q \in Path, disk'[q] = i
      PROVE  Known(i)'
  <2>1. Known(i)
        BY <1>6, FilesAssumption DEF FilesInv
  <2>. QED  BY <1>4, <2>1 DEF Known
<1>. QED  BY <1>3, <1>5, <1>6, KnownPaths DEF FilesInv

\* A part of a file is read.
LEMMA ReadFiles ==
    ASSUME FilesInv, NEW c \in Client, Read(c)
    PROVE  FilesInv'
<1>1. PICK parts : parts = data[job[c].inode]
      OBVIOUS
<1>2. PICK n : n = job[c].done
      OBVIOUS
<1>3. /\ at[c] = "download" /\ n < job[c].of /\ n < Len(parts)
      /\ job' = [job EXCEPT ![c].got = Append(@, parts[n + 1]), ![c].done = n + 1]
      /\ at' = at /\ kind' = kind /\ disk' = disk /\ dirs' = dirs /\ uploads' = uploads
      /\ data' = data /\ first' = first /\ stirred' = stirred /\ blamed' = blamed
      BY <1>1, <1>2 DEF Read, clients
<1>4. /\ job[c] \in OpenFile /\ job[c].inode \in Inode /\ parts \in Seq(Part)
      /\ n \in Nat /\ n + 1 \in 0..End /\ parts[n + 1] \in Part
  <2>1. job[c] \in OpenFile /\ job[c].inode \in Inode
        BY <1>3 DEF FilesInv, FilesTyped, FilesTypeOK, FileUse, OpenFile
  <2>2. parts \in Seq(Part)
        BY <1>1, <2>1 DEF FilesInv, FilesTyped, FilesTypeOK
  <2>3. n \in Nat /\ n + 1 \in 0..End
        BY <1>2, <1>3, <2>1 DEF OpenFile, End
  <2>. QED  BY <1>3, <2>1, <2>2, <2>3
<1>5. PICK got : got = Append(job[c].got, parts[n + 1])
      OBVIOUS
<1>6. /\ got \in Seq(Part) /\ Len(got) = Len(job[c].got) + 1 /\ Len(job[c].got) \in Nat
      /\ got[Len(got)] = parts[n + 1]
      /\ \A k \in 1..Len(job[c].got) : got[k] = job[c].got[k]
      BY <1>4, <1>5 DEF OpenFile
<1>7. /\ job'[c] = [job[c] EXCEPT !.got = got, !.done = n + 1]
      /\ \A d \in Client \ {c} : job'[d] = job[d]
      BY <1>3, <1>5 DEF FilesInv, FilesTyped, FilesTypeOK
<1>8. /\ job'[c] \in OpenFile /\ job'[c].got = got /\ job'[c].done = n + 1
      /\ job'[c].inode = job[c].inode /\ job'[c].of = job[c].of /\ job'[c].path = job[c].path
      BY <1>4, <1>6, <1>7 DEF OpenFile
<1>9. FilesTyped'
  <2>1. job' \in [Client -> OpenFile]
        BY <1>3, <1>7, <1>8 DEF FilesInv, FilesTyped, FilesTypeOK, OpenFile
  <2>. QED  BY <1>3, <2>1 DEF FilesInv, FilesTyped, FilesTypeOK, OpenFile
<1>10. \A d \in Client, i \in Inode : Uploading(d, i)' <=> Uploading(d, i)
       BY <1>3, <1>7, <1>8 DEF Uploading
<1>11. ASSUME NEW d \in Client
       PROVE  FileUse(d)' /\ Uploaded(d)' /\ Downloaded(d)'
  <2>1. FileUse(d)'
        BY <1>3, <1>7, <1>8 DEF FilesInv, FileUse
  <2>2. Uploaded(d)'
    <3>1. CASE d = c
      <4>1. \A i \in Inode : ~Uploading(c, i)'
            BY <1>3 DEF Uploading
      <4>. QED  BY <3>1, <4>1 DEF Uploaded
    <3>2. CASE d # c
      <4>1. Uploaded(d) /\ job'[d] = job[d]
            BY <1>7, <3>2 DEF FilesInv
      <4>. QED  BY <1>3, <1>10, <4>1 DEF Uploaded
    <3>. QED  BY <3>1, <3>2
  <2>3. Downloaded(d)'
    <3>1. CASE d = c
      <4>1. Downloaded(c)
            BY DEF FilesInv
      <4>2. ~stirred[c] => /\ parts = first[c] /\ Len(job[c].got) = n
                           /\ \A k \in 1..n : job[c].got[k] = first[c][k]
            BY <1>1, <1>2, <1>3, <4>1 DEF Downloaded
      <4>3. ~stirred[c] => /\ data[job'[c].inode] = first[c] /\ Len(got) = n + 1 /\ n + 1 <= Len(first[c])
                           /\ \A k \in 1..(n + 1) : got[k] = first[c][k]
        <5>1. CASE ~stirred[c]
          <6>1. parts = first[c] /\ Len(got) = n + 1 /\ Len(first[c]) \in Nat
                BY <1>4, <1>6, <4>2, <5>1
          <6>2. \A k \in 1..(n + 1) : k = n + 1 \/ k \in 1..n
                BY <1>4
          <6>3. \A k \in 1..(n + 1) : got[k] = first[c][k]
                BY <1>6, <4>2, <5>1, <6>1, <6>2
          <6>4. n + 1 <= Len(first[c])
                BY <1>3, <1>4, <6>1
          <6>5. data[job'[c].inode] = first[c]
                BY <1>1, <1>8, <6>1
          <6>. QED  BY <6>1, <6>3, <6>4, <6>5
        <5>. QED  BY <5>1
      <4>. QED  BY <1>3, <1>8, <3>1, <4>3 DEF Downloaded
    <3>2. CASE d # c
      <4>1. Downloaded(d) /\ job'[d] = job[d]
            BY <1>7, <3>2 DEF FilesInv
      <4>. QED  BY <1>3, <4>1 DEF Downloaded
    <3>. QED  BY <3>1, <3>2
  <2>. QED  BY <2>1, <2>2, <2>3
<1>12. ASSUME NEW i \in Inode, NEW q \in Path, disk'[q] = i
       PROVE  Known(i)'
  <2>1. Known(i)
        BY <1>3, <1>12, FilesAssumption DEF FilesInv
  <2>. QED  BY <1>3, <1>10, <2>1 DEF Known
<1>. QED  BY <1>9, <1>11, <1>12, KnownPaths DEF FilesInv

\* Files and directories come and go, but nobody's operation.
LEMMA MoveFiles ==
    ASSUME FilesInv, UNCHANGED <<clients, uploads, job, first, stirred>>,
           disk' \in [Path -> Inode \cup {None}], dirs' \subseteq Path, \A p \in dirs' : disk'[p] = None,
           \A p \in Path : disk'[p] \in {disk[q] : q \in Path} \cup {None},
           UNCHANGED <<data, blamed>> \/ Reclaim({})
    PROVE  FilesInv'
<1>1. /\ at' = at /\ kind' = kind /\ uploads' = uploads /\ job' = job /\ first' = first /\ stirred' = stirred
      BY DEF clients
<1>2. ASSUME NEW i \in Inode, Used(i)'
      PROVE  data'[i] = data[i] /\ (i \in blamed' <=> i \in blamed)
      BY <1>2 DEF Reclaim
<1>3. FilesTyped'
  <2>1. \A i \in Inode : data'[i] \in {data[i], <<>>}
        BY DEF Reclaim, FilesInv, FilesTyped, FilesTypeOK
  <2>2. \A i \in Inode : data'[i] \in Seq(Part) /\ Len(data'[i]) <= Size
    <3>1. <<>> \in Seq(Part) /\ Len(<<>>) <= Size
          BY DEF Size
    <3>. QED  BY <2>1, <3>1 DEF FilesInv, FilesTyped, FilesTypeOK
  <2>3. blamed' \subseteq Inode
        BY DEF Reclaim, FilesInv, FilesTyped, FilesTypeOK
  <2>4. data' \in [Inode -> Seq(Part)]
    <3>1. CASE data' = data
          BY <3>1 DEF FilesInv, FilesTyped, FilesTypeOK
    <3>2. CASE Reclaim({})
      <4>1. \A i \in Inode : (IF Used(i)' THEN data[i] ELSE <<>>) \in Seq(Part)
            BY <2>2, <3>2 DEF Reclaim
      <4>. QED  BY <3>2, <4>1 DEF Reclaim
    <3>. QED  BY <3>1, <3>2
  <2>. QED  BY <1>1, <2>2, <2>3, <2>4 DEF FilesInv, FilesTyped, FilesTypeOK
<1>4. \A d \in Client, i \in Inode : Uploading(d, i)' <=> Uploading(d, i)
      BY <1>1 DEF Uploading
<1>5. \A d \in Client, i \in Inode : job[d].inode = i => Used(i)'
      BY <1>1 DEF Used, Open
<1>6. ASSUME NEW d \in Client
      PROVE  FileUse(d)' /\ Uploaded(d)' /\ Downloaded(d)'
  <2>1. FileUse(d)' /\ Uploaded(d) /\ Downloaded(d) /\ FileUse(d)
        BY <1>1 DEF FilesInv, FileUse
  <2>2. \A i \in Inode : Uploading(d, i) => data'[i] = data[i] /\ (i \in blamed' <=> i \in blamed)
        BY <1>2, <1>5 DEF Uploading
  <2>3. Uploaded(d)'
        BY <1>1, <1>4, <2>1, <2>2 DEF Uploaded
  <2>4. at[d] = "download" => data'[job[d].inode] = data[job[d].inode]
        BY <1>2, <1>5, <2>1 DEF FileUse
  <2>5. Downloaded(d)'
        BY <1>1, <2>1, <2>4 DEF Downloaded
  <2>. QED  BY <2>1, <2>3, <2>5
<1>7. ASSUME NEW i \in Inode, NEW p \in Path, disk'[p] = i
      PROVE  Known(i)'
  <2>1. Used(i)'
        BY <1>7 DEF Used
  <2>2. data'[i] = data[i] /\ (i \in blamed' <=> i \in blamed)
        BY <1>2, <2>1
  <2>3. Known(i)
        BY <1>7, FilesAssumption DEF FilesInv
  <2>. QED  BY <1>4, <2>2, <2>3 DEF Known
<1>. QED  BY <1>3, <1>6, <1>7, KnownPaths DEF FilesInv

\* What is done with the files keeps the invariant.
LEMMA FilesStep ==
    ASSUME FilesInv, NEW c \in Client, FileStep(c)
    PROVE  FilesInv'
<1>0. /\ job[c] \in OpenFile /\ FileUse(c) /\ at[c] \in Places
      /\ disk \in [Path -> Inode \cup {None}] /\ dirs \subseteq Path /\ \A p \in dirs : disk[p] = None
      BY DEF FilesInv, FilesTyped, FilesTypeOK, OpenFile
<1>1. ASSUME NEW from, NEW to, Request(c, from, to)
      PROVE  at[c] \notin InFile /\ Goto(c, at[c], to)
      BY <1>1 DEF Request, Asks, InFile
<1>2. CASE PutFile(c) \/ Filewrite(c)
      BY <1>1, <1>2, UploadFiles DEF PutFile, Filewrite
<1>3. CASE Write(c)
      BY <1>3, WriteFiles
<1>4. CASE UploadFails(c)
  <2>1. \A i \in Inode \ (blamed \cup {job[c].inode}) : ~Uploading(c, i)
        BY DEF Uploading
  <2>. QED  BY <1>4, <2>1, LeaveFiles DEF UploadFails
<1>5. CASE UploadEnds(c)
  <2>1. job[c].done = Size
        BY <1>0, <1>5 DEF UploadEnds, FileUse
  <2>. QED  BY <1>5, <2>1, LeaveFiles DEF UploadEnds
<1>6. CASE DownloadEnds(c)
  <2>1. \A i \in Inode : ~Uploading(c, i)
        BY <1>6 DEF DownloadEnds, Uploading
  <2>. QED  BY <1>6, <2>1, LeaveFiles DEF DownloadEnds
<1>7. CASE GetItem(c)
  <2>0. PICK p \in Path : disk[p] # None /\ \E n \in {End, Len(data[disk[p]])} :
                              job' = [job EXCEPT ![c] = [NoFile EXCEPT !.path = p, !.of = n]]
        BY <1>7 DEF GetItem
  <2>1. PICK n \in {End, Len(data[disk[p]])} :
                 disk[p] # None /\ job' = [job EXCEPT ![c] = [NoFile EXCEPT !.path = p, !.of = n]]
        BY <2>0
  <2>2. n \in 0..End
    <3>1. disk[p] \in Inode
          BY <1>0, <2>1
    <3>2. Len(data[disk[p]]) \in Nat /\ Len(data[disk[p]]) <= Size
          BY <3>1 DEF FilesInv, FilesTyped, FilesTypeOK
    <3>. QED  BY <2>1, <3>2 DEF Size, End
  <2>. DEFINE f == [NoFile EXCEPT !.path = p, !.of = n]
  <2>3. f \in OpenFile /\ f.path = p /\ f.inode = None
        BY <2>2, NoFileType DEF OpenFile, NoFile
  <2>4. Goto(c, at[c], "stat") /\ at[c] # "upload" /\ UNCHANGED <<disk, dirs, data, uploads, first, stirred, blamed>>
        BY <1>1, <1>7 DEF GetItem, InFile
  <2>5. job' = [job EXCEPT ![c] = f]
        BY <2>1
  <2>. HIDE DEF f
  <2>. QED  BY <2>3, <2>4, <2>5, OpenFiles
<1>8. ASSUME NEW p \in Path, NEW n \in 0..End, Goto(c, at[c], "download"), at[c] # "upload",
             OpenForRead(c, p, n), uploads' = uploads
      PROVE  FilesInv'
  <2>. DEFINE f == [NoFile EXCEPT !.path = p, !.inode = disk[p], !.of = n]
  <2>1. disk[p] \in Inode
        BY <1>0, <1>8 DEF OpenForRead
  <2>2. f \in OpenFile /\ f.inode = disk[p] /\ f.done = 0 /\ f.got = <<>>
        BY <2>1, NoFileType DEF OpenFile, NoFile
  <2>3. /\ job' = [job EXCEPT ![c] = f] /\ UNCHANGED <<disk, dirs, data, uploads, blamed>>
        /\ stirred' = [stirred EXCEPT ![c] = FALSE] /\ first' = [first EXCEPT ![c] = data[disk[p]]]
        BY <1>8 DEF OpenForRead
  <2>. HIDE DEF f
  <2>. QED  BY <1>8, <2>1, <2>2, <2>3, OpenFiles
<1>9. CASE GetItemOpen(c)
  <2>1. at[c] = "stat" /\ job[c].path \in Path /\ job[c].of \in 0..End
        BY <1>0, <1>9 DEF GetItemOpen, FileUse, OpenFile
  <2>2. CASE Leave(c) /\ UNCHANGED <<disk, dirs, uploads>> /\ Reclaim({})
    <3>1. \A i \in Inode : ~Uploading(c, i)
          BY <2>1 DEF Uploading
    <3>. QED  BY <2>2, <3>1, LeaveFiles
  <2>. QED  BY <1>8, <1>9, <2>1, <2>2 DEF GetItemOpen, OpenForRead
<1>10. CASE Fileread(c)
  <2>1. End \in 0..End /\ at[c] # "upload" /\ Goto(c, at[c], "download")
        BY <1>1, <1>10 DEF Fileread, End, InFile
  <2>. QED  BY <1>8, <1>10, <2>1 DEF Fileread, OpenForRead
<1>11. CASE Read(c)
       BY <1>11, ReadFiles
<1>12. CASE Look(c) \/ CreateFolder(c)
       BY <1>0, <1>12, MoveFiles DEF Look, CreateFolder, Answer, Missing
<1>13. CASE DeleteItem(c)
       BY <1>0, <1>13, MoveFiles DEF DeleteItem, Answer
<1>14. CASE Rename(c)
       BY <1>0, <1>14, MoveFiles DEF Rename, Answer
<1>. QED  BY <1>2, <1>3, <1>4, <1>5, <1>6, <1>7, <1>9, <1>10, <1>11, <1>12, <1>13, <1>14 DEF FileStep

-----------------------------------------------------------------------------
(* The token                                                               *)

\* Who holds the lock asks the panel.
TokenInv == TokenTypeOK /\ Asking /\ at \in [Client -> Places] /\ kind \in [Client -> Kind]

\* A login, and a websocket, are never in the middle of a file.
LEMMA LoginApart ==
    ASSUME NEW c \in Client, LoginStep(c)
    PROVE  \E to \in Places \ InFile : Goto(c, at[c], to) /\ at[c] \notin InFile
<1>. USE DEF Places, InFile, Goto
<1>1. CASE HandleConn(c) \/ RefreshIfStale(c) \/ Send(c) \/ Hangup(c)
      BY <1>1 DEF HandleConn, RefreshIfStale, Send, Hangup, Connect
<1>2. CASE validateSSH(c)
      BY <1>2 DEF validateSSH, Leaves
<1>3. CASE RefreshToken(c) \/ RefreshAnswer(c)
      BY <1>3 DEF RefreshToken, RefreshAnswer, Continue, Leaves
<1>. QED  BY <1>1, <1>2, <1>3 DEF LoginStep

LEMMA SocketApart ==
    ASSUME at \in [Client -> Places], kind \in [Client -> Kind], NEW c \in Client, SocketStep(c)
    PROVE  /\ at' \in [Client -> Places] /\ kind' = kind
           /\ \A d \in Client : at'[d] = at[d] \/ (at[d] \notin InFile \cup {"asking"} /\ at'[d] \notin InFile \cup {"asking"})
<1>. USE DEF Places, InFile, Goto
<1>1. CASE OpenSocket(c)
      BY <1>1 DEF OpenSocket, Connect
<1>2. CASE RegisterRead(c) \/ Register(c)
      BY <1>2 DEF RegisterRead, Register, clients
<1>3. CASE Close(c)
      BY <1>3 DEF Close
<1>. QED  BY <1>1, <1>2, <1>3 DEF SocketStep

LEMMA LineApart ==
    ASSUME NEW l \in Line, LineStep(l)
    PROVE  UNCHANGED clients
BY DEF LineStep, Display, WriteLock, WriteMessage, Drop, WriteUnlock

LEMMA FileApart ==
    ASSUME at \in [Client -> Places], kind \in [Client -> Kind], NEW c \in Client, FileStep(c)
    PROVE  /\ at' \in [Client -> Places] /\ kind' = kind
           /\ \A d \in Client : at'[d] = at[d] \/ (at[d] # "asking" /\ at'[d] # "asking")
<1>. USE DEF Places, Goto, Request, Asks, Leave, Return, clients
<1>1. CASE PutFile(c) \/ Filewrite(c)
      BY <1>1 DEF PutFile, Filewrite
<1>2. CASE Write(c) \/ Read(c)
      BY <1>2 DEF Write, Read
<1>3. CASE UploadFails(c) \/ UploadEnds(c) \/ DownloadEnds(c)
      BY <1>3 DEF UploadFails, UploadEnds, DownloadEnds
<1>4. CASE GetItem(c) \/ Fileread(c)
      BY <1>4 DEF GetItem, Fileread
<1>5. CASE GetItemOpen(c)
      BY <1>5 DEF GetItemOpen
<1>6. CASE Look(c) \/ CreateFolder(c) \/ DeleteItem(c) \/ Rename(c)
      BY <1>6 DEF Look, CreateFolder, DeleteItem, Rename, Answer
<1>. QED  BY <1>1, <1>2, <1>3, <1>4, <1>5, <1>6 DEF FileStep

LEMMA TokenStart == ClientsInit /\ TokenInit => TokenInv
<1>. SUFFICES ASSUME ClientsInit, TokenInit PROVE TokenInv
     OBVIOUS
<1>1. kind \in [Client -> Kind] /\ at = [c \in Client |-> "idle"]
      BY DEF ClientsInit
<1>2. TokenTypeOK
      BY DEF TokenInit, TokenTypeOK, Token, NoLogin
<1>3. Asking
      BY <1>1 DEF Asking
<1>. QED  BY <1>1, <1>2, <1>3 DEF TokenInv, Places

LoginRecord == [sent : Token, recurse : BOOLEAN, retry : BOOLEAN]

\* A step that leaves the token alone, and nobody to or from the panel.
LEMMA TokenAlone ==
    ASSUME TokenInv, UNCHANGED auth, at' \in [Client -> Places], kind' = kind,
           \A d \in Client : at'[d] = at[d] \/ (at[d] # "asking" /\ at'[d] # "asking")
    PROVE  TokenInv'
<1>1. token' = token /\ recent' = recent /\ lock' = lock /\ login' = login
      BY DEF auth
<1>2. TokenTypeOK'
      BY <1>1 DEF TokenInv, TokenTypeOK
<1>3. Asking'
      BY <1>1 DEF TokenInv, Asking
<1>. QED  BY <1>2, <1>3 DEF TokenInv

LEMMA TokenStep ==
    ASSUME TokenInv, NEW c \in Client, LoginStep(c)
    PROVE  TokenInv'
<1>0. login \in [Client -> LoginRecord] /\ token \in Token /\ recent \in BOOLEAN /\ NoLogin \in LoginRecord
      BY DEF TokenInv, TokenTypeOK, LoginRecord, NoLogin, Token
<1>1. PICK to \in Places \ InFile : Goto(c, at[c], to)
      BY LoginApart
<1>2. /\ at'[c] = to /\ \A d \in Client \ {c} : at'[d] = at[d]
      /\ at' \in [Client -> Places] /\ kind' = kind
      BY <1>1 DEF Goto, TokenInv
<1>3. Asking'
      BY AskingLogin DEF TokenInv
<1>4. /\ token' \in Token /\ recent' \in BOOLEAN /\ login' \in [Client -> LoginRecord]
      /\ lock' \in {lock, None} \/ (lock' = c /\ at'[c] = "asking")
      /\ at[c] = "asking" => lock' = None
  <2>. USE DEF LoginRecord, Token, Leaves, Continue
  <2>1. CASE HandleConn(c) \/ RefreshIfStale(c) \/ Hangup(c)
        BY <1>0, <2>1 DEF HandleConn, RefreshIfStale, Hangup, Connect, Goto, auth
  <2>2. CASE Send(c)
        BY <1>0, <2>2 DEF Send, Goto
  <2>3. CASE validateSSH(c)
    <3>1. /\ UNCHANGED <<token, recent, lock>> /\ at[c] = "asked"
          /\ \/ login' = [login EXCEPT ![c] = NoLogin]
             \/ login' = [login EXCEPT ![c].retry = TRUE]
          BY <2>3 DEF validateSSH, Goto
    <3>2. login' \in [Client -> LoginRecord]
      <4>1. [login[c] EXCEPT !.retry = TRUE] \in LoginRecord
        <5>1. login[c] \in LoginRecord
              BY <1>0
        <5>. QED  BY <5>1
      <4>. QED  BY <1>0, <3>1, <4>1
    <3>. QED  BY <1>0, <3>1, <3>2
  <2>4. CASE RefreshToken(c)
        BY <1>0, <1>2, <2>4 DEF RefreshToken, Goto, TokenInv
  <2>5. CASE RefreshAnswer(c)
    <3>1. [NoLogin EXCEPT !.recurse = FALSE] \in LoginRecord
          BY DEF NoLogin
    <3>2. ASSUME NEW ok \in BOOLEAN, Continue(c, ok)
          PROVE  login' \in [Client -> LoginRecord]
          BY <1>0, <3>1, <3>2
    <3>. HIDE DEF Continue, LoginRecord
    <3>. QED  BY <1>0, <2>5, <3>2 DEF RefreshAnswer
  <2>. QED  BY <2>1, <2>2, <2>3, <2>4, <2>5 DEF LoginStep
<1>5. lock' \in {None} \cup {d \in Client : at'[d] = "asking"}
      BY <1>2, <1>4 DEF TokenInv, TokenTypeOK
<1>. QED  BY <1>2, <1>3, <1>4, <1>5 DEF TokenInv, TokenTypeOK, LoginRecord

LEMMA TokenNext == TokenInv /\ [Next]_vars => TokenInv'
<1>. SUFFICES ASSUME TokenInv, [Next]_vars PROVE TokenInv'
     OBVIOUS
<1>1. CASE UNCHANGED vars
      BY <1>1, TokenAlone DEF vars, clients, TokenInv
<1>2. CASE Minute \/ Expire
  <2>1. Asking'
        BY <1>2 DEF Minute, Expire, clients, TokenInv, Asking
  <2>2. /\ token' \in Token /\ recent' \in BOOLEAN /\ lock' = lock /\ at' = at /\ kind' = kind
        BY <1>2 DEF Minute, Expire, clients, TokenInv, TokenTypeOK, Token
  <2>3. login' \in [Client -> LoginRecord]
    <3>1. CASE Minute
          BY <3>1 DEF Minute, TokenInv, TokenTypeOK, LoginRecord
    <3>2. CASE Expire
      <4>1. login \in [Client -> LoginRecord]
            BY DEF TokenInv, TokenTypeOK, LoginRecord
      <4>2. ASSUME NEW c \in Client
            PROVE  [login[c] EXCEPT !.sent = IF @ = "good" THEN "dead" ELSE @] \in LoginRecord
            BY <4>1 DEF LoginRecord, Token
      <4>3. login' = [c \in Client |-> [login[c] EXCEPT !.sent = IF @ = "good" THEN "dead" ELSE @]]
            BY <3>2 DEF Expire
      <4>. QED  BY <4>2, <4>3
    <3>. QED  BY <1>2, <3>1, <3>2
  <2>. QED  BY <2>1, <2>2, <2>3 DEF TokenInv, TokenTypeOK, LoginRecord
<1>3. ASSUME NEW c \in Client, LoginStep(c)
      PROVE  TokenInv'
      BY <1>3, TokenStep
<1>4. ASSUME NEW c \in Client, FileStep(c), UNCHANGED auth
      PROVE  TokenInv'
      BY <1>4, FileApart, TokenAlone DEF TokenInv
<1>5. ASSUME NEW c \in Client, SocketStep(c), UNCHANGED auth
      PROVE  TokenInv'
      BY <1>5, SocketApart, TokenAlone DEF TokenInv
<1>6. ASSUME NEW l \in Line, LineStep(l), UNCHANGED auth
      PROVE  TokenInv'
      BY <1>6, LineApart, TokenAlone DEF TokenInv, clients
<1>. QED  BY <1>1, <1>2, <1>3, <1>4, <1>5, <1>6 DEF Next

LEMMA FilesNext == FilesInv /\ [Next]_vars => FilesInv'
<1>. SUFFICES ASSUME FilesInv, [Next]_vars PROVE FilesInv'
     OBVIOUS
<1>0. at \in [Client -> Places] /\ kind \in [Client -> Kind]
      BY DEF FilesInv, FilesTyped
<1>1. CASE UNCHANGED vars
      BY <1>0, <1>1, FilesAlone DEF vars, clients
<1>2. CASE (Minute \/ Expire) /\ UNCHANGED files
      BY <1>0, <1>2, FilesAlone DEF Minute, Expire, clients
<1>3. ASSUME NEW c \in Client, LoginStep(c), UNCHANGED files
      PROVE  FilesInv'
  <2>1. PICK to \in Places \ InFile : Goto(c, at[c], to) /\ at[c] \notin InFile
        BY <1>3, LoginApart
  <2>2. /\ at' \in [Client -> Places] /\ kind' = kind
        /\ \A d \in Client : at'[d] = at[d] \/ (at[d] \notin InFile /\ at'[d] \notin InFile)
        BY <1>0, <2>1 DEF Goto
  <2>. QED  BY <1>3, <2>2, FilesAlone
<1>4. ASSUME NEW c \in Client, FileStep(c)
      PROVE  FilesInv'
      BY <1>4, FilesStep
<1>5. ASSUME NEW c \in Client, SocketStep(c), UNCHANGED files
      PROVE  FilesInv'
  <2>1. /\ at' \in [Client -> Places] /\ kind' = kind
        /\ \A d \in Client : at'[d] = at[d] \/ (at[d] \notin InFile /\ at'[d] \notin InFile)
        BY <1>0, <1>5, SocketApart
  <2>. QED  BY <1>5, <2>1, FilesAlone
<1>6. ASSUME NEW l \in Line, LineStep(l), UNCHANGED files
      PROVE  FilesInv'
      BY <1>0, <1>6, LineApart, FilesAlone DEF clients
<1>. QED  BY <1>1, <1>2, <1>3, <1>4, <1>5, <1>6 DEF Next

(* A file at a path is all of one upload, unless one is under way, or its    *)
(* last upload failed with an error to its client, or two have overlapped.   *)
THEOREM TornIsKnownCorrect == Spec => []TornIsKnown
<1>1. FilesInv => TornIsKnown
  <2>. SUFFICES ASSUME FilesInv, NEW p \in Path, disk[p] # None, NEW c \in Client, Uploading(c, disk[p])
                PROVE  Uploads(disk[p]) # {}
       BY DEF FilesInv, Known, TornIsKnown
  <2>. QED  BY DEF Uploading, Uploads, Open
<1>. QED  BY <1>1, FilesStart, FilesNext, PTL DEF Spec, Init

(* What a download delivers is of the file it opened, whatever becomes of    *)
(* its path, as long as no upload writes into it.                            *)
THEOREM OneFileCorrect == Spec => []OneFile
<1>1. FilesInv => OneFile
  <2>. SUFFICES ASSUME FilesInv, NEW c \in Client, at[c] = "download", ~stirred[c]
                PROVE  job[c].got = SubSeq(first[c], 1, Len(job[c].got))
       BY DEF OneFile
  <2>1. job[c].got \in Seq(Part) /\ first[c] \in Seq(Part)
        BY DEF FilesInv, FilesTyped, FilesTypeOK
  <2>2. /\ Len(job[c].got) <= Len(first[c])
        /\ \A k \in 1..Len(job[c].got) : job[c].got[k] = first[c][k]
        BY DEF FilesInv, Downloaded
  <2>. QED  BY <2>1, <2>2
<1>. QED  BY <1>1, FilesStart, FilesNext, PTL DEF Spec, Init

-----------------------------------------------------------------------------
(* The console                                                             *)

\* The sockets that are to hear of every line from now on.
In(c) == c \notin raced /\ reg[c] = "in" /\ at[c] # "gone"
Knows(c, l) == l \in settled[c]
Has(s, c, from) == \E k \in from..s.len : arrays[s.array][k] = c
Pending == {d \in Client : reg[d] = "store"}
Dropping == {l \in Line : line[l] = "drop"}
\* The slices that somebody will still use.
Slices == {sockets} \cup {old[d] : d \in Pending} \cup {old[None] : l \in Dropping}

\* A client with a websocket had none before.
SocketPlace(c) == /\ kind[c] = "socket" => at[c] \in {"idle", "session", "unread", "gone", "stat", "download"}
                  /\ reg[c] # "no" => kind[c] = "socket" /\ at[c] # "idle"
SocketsInv == at \in [Client -> Places] /\ kind \in [Client -> Kind] /\ \A c \in Client : SocketPlace(c)
Fits  == \A s \in Slices : s.len <= Len(arrays[s.array])
\* The array a registration is to make is no slice's yet.
Apart == \A c \in Client, s \in Slices : reg[c] # "in" => s.array # c
\* A socket is in every slice, as far as the shortest of the same array goes.
Keeps == \A c \in Client, s \in Slices : In(c) => Has(s, c, 1)
Locking == /\ next >= 1
           /\ \A l \in Line : (line[l] \in {"send", "drop"} <=> locker = l) /\ (line[l] # "new" => l \in shown)
\* What is removed is gone, or was written over by a registration.
Removes == \A l \in Dropping :
    /\ next <= old[None].len
    /\ arrays[old[None].array][next] \in raced \/ at[arrays[old[None].array][next]] = "gone"
    /\ Pending \subseteq raced
\* A registration that met no other change has read what it will replace.
Alone == /\ \A d \in Pending \ raced : old[d] = sockets
         /\ \A d, e \in Pending : d # e => d \in raced
\* So while a line is sent that meets none.
Sends == \A l \in Line \ raced : locker = l =>
    /\ \A d, e \in Pending : old[d] = sockets /\ d = e
    /\ line[l] = "drop" => old[None] = sockets /\ Pending = {}
    /\ \A c \in Client : In(c) => Knows(c, l) \/ Has(sockets, c, next)
Told == \A c \in Client, l \in Line :
    /\ In(c) /\ line[l] = "done" /\ l \notin raced => Knows(c, l)
    /\ reg[c] \in {"read", "store"} /\ line[l] \in {"send", "drop", "done"} => Knows(c, l)

ConsoleInv == /\ ConsoleTypeOK /\ SocketsInv /\ Fits /\ Apart /\ Keeps
              /\ Locking /\ Removes /\ Alone /\ Sends /\ Told

LEMMA SliceType == ConsoleTypeOK => \A s \in Slices : s \in Slice
BY DEF ConsoleTypeOK, Slices, Pending

\* Any slice, and the one a socket is to be removed from.
LEMMA SliceOf ==
    ASSUME ConsoleInv, NEW s \in Slices
    PROVE  /\ s.array \in Client \cup {None} /\ s.len \in Nat
           /\ arrays[s.array] \in Seq(Client) /\ s.len <= Len(arrays[s.array])
           /\ \A k \in 1..s.len : arrays[s.array][k] \in Client
<1>1. s.array \in Client \cup {None} /\ s.len \in Nat
      BY SliceType DEF ConsoleInv, Slice
<1>2. arrays[s.array] \in Seq(Client) /\ s.len <= Len(arrays[s.array])
      BY <1>1 DEF ConsoleInv, ConsoleTypeOK, Fits
<1>. QED  BY <1>1, <1>2

LEMMA Removed ==
    ASSUME ConsoleInv, NEW l \in Dropping
    PROVE  /\ old[None] \in Slices /\ next \in 1..old[None].len
           /\ arrays[old[None].array][next] \in Client
           /\ ~In(arrays[old[None].array][next])
<1>1. old[None] \in Slices
      BY DEF Slices
<1>2. next \in 1..old[None].len
      BY <1>1, SliceOf DEF ConsoleInv, ConsoleTypeOK, Locking, Removes
<1>. QED  BY <1>1, <1>2, SliceOf DEF ConsoleInv, Removes, In

LEMMA ConsoleStart == ClientsInit /\ ConsoleInit => ConsoleInv
<1>. SUFFICES ASSUME ClientsInit, ConsoleInit PROVE ConsoleInv
     OBVIOUS
<1>1. /\ at = [c \in Client |-> "idle"] /\ kind \in [Client -> Kind]
      BY DEF ClientsInit
<1>2. /\ \/ line = [l \in Line |-> "new"] /\ shown = {}
         \/ line = [l \in Line |-> "done"] /\ shown = Line
      /\ locker = None /\ sockets = Empty /\ next = 1
      /\ arrays = [a \in Client \cup {None} |-> <<>>]
      /\ reg = [c \in Client |-> "no"] /\ old = [c \in Client \cup {None} |-> Empty]
      /\ settled = [c \in Client |-> {}] /\ raced = {}
      BY DEF ConsoleInit
<1>3. <<>> \in Seq(Client) /\ Empty \in Slice
      BY DEF Empty, Slice
<1>4. ConsoleTypeOK
      BY <1>2, <1>3 DEF ConsoleTypeOK, Empty
<1>5. Pending = {} /\ Dropping = {} /\ Slices = {Empty}
      BY <1>2 DEF Pending, Dropping, Slices
<1>6. SocketsInv
      BY <1>1, <1>2 DEF SocketsInv, SocketPlace, Places
<1>7. Fits /\ Apart /\ Keeps /\ Removes /\ Alone
      BY <1>2, <1>5, ClientsAssumption DEF Fits, Apart, Keeps, In, Removes, Alone, Empty
<1>8. Locking
      BY <1>2, ConsoleAssumption DEF Locking
<1>9. Sends /\ Told
      BY <1>2, ConsoleAssumption DEF Sends, Told, In
<1>. QED  BY <1>4, <1>6, <1>7, <1>8, <1>9 DEF ConsoleInv

\* A step that changes no array and makes no slice.
LEMMA SlicesKept ==
    ASSUME ConsoleInv, arrays' = arrays, Slices' \subseteq Slices,
           \A c \in Client : (In(c)' => In(c)) /\ (reg'[c] # "in" => reg[c] # "in")
    PROVE  Fits' /\ Apart' /\ Keeps'
<1>1. Fits' /\ Apart'
      BY DEF ConsoleInv, Fits, Apart
<1>2. \A s, c : Has(s, c, 1)' <=> Has(s, c, 1)
      BY DEF Has
<1>3. Keeps'
      BY <1>2 DEF ConsoleInv, Keeps
<1>. QED  BY <1>1, <1>3

\* A step of the others, which leaves the console alone and nobody gone.
LEMMA ConsoleAlone ==
    ASSUME ConsoleInv, UNCHANGED console, SocketsInv',
           \A c \in Client : at'[c] = "gone" <=> at[c] = "gone"
    PROVE  ConsoleInv'
<1>1. /\ line' = line /\ shown' = shown /\ locker' = locker /\ arrays' = arrays /\ sockets' = sockets
      /\ next' = next /\ reg' = reg /\ old' = old /\ settled' = settled
      /\ raced' = raced
      BY DEF console
<1>2. Pending' = Pending /\ Dropping' = Dropping /\ Slices' = Slices
      BY <1>1 DEF Pending, Dropping, Slices
<1>3. \A c \in Client : In(c)' <=> In(c)
      BY <1>1 DEF In
<1>4. /\ \A c \in Client, l \in Line : Knows(c, l)' <=> Knows(c, l)
      /\ \A c \in Client : Has(sockets, c, next)' <=> Has(sockets, c, next)
      BY <1>1 DEF Knows, Has
<1>5. Fits' /\ Apart' /\ Keeps'
      BY <1>1, <1>2, <1>3, SlicesKept
<1>6. Removes'
  <2>1. \A l \in Dropping : arrays[old[None].array][next] \in Client
        BY Removed
  <2>. QED  BY <1>1, <1>2, <2>1 DEF ConsoleInv, Removes
<1>7. ConsoleTypeOK' /\ Locking' /\ Alone'
      BY <1>1, <1>2 DEF ConsoleInv, ConsoleTypeOK, Locking, Alone
<1>8. Sends'
      BY <1>1, <1>2, <1>3, <1>4 DEF ConsoleInv, Sends
<1>9. Told'
      BY <1>1, <1>3, <1>4 DEF ConsoleInv, Told
<1>. QED  BY <1>5, <1>6, <1>7, <1>8, <1>9 DEF ConsoleInv

\* A websocket comes, with the lines so far.
LEMMA ConsoleOpen ==
    ASSUME ConsoleInv, NEW c \in Client, OpenSocket(c)
    PROVE  ConsoleInv'
<1>0. ConsoleTypeOK /\ at \in [Client -> Places] /\ kind \in [Client -> Kind]
      BY DEF ConsoleInv, SocketsInv
<1>1. /\ kind[c] = "socket" /\ at[c] = "idle" /\ reg[c] = "no" /\ kind' = kind
      /\ at'[c] \in {"session", "unread"} /\ \A d \in Client \ {c} : at'[d] = at[d]
      /\ at' \in [Client -> Places]
  <2>1. kind[c] = "socket" /\ at[c] = "idle" /\ kind' = kind
        BY DEF OpenSocket, Connect, Goto
  <2>2. reg[c] = "no"
        BY <2>1 DEF ConsoleInv, SocketsInv, SocketPlace
  <2>. QED  BY <1>0, <2>1, <2>2 DEF OpenSocket, Connect, Goto, Places
<1>2. /\ line' = line /\ shown' = shown /\ locker' = locker /\ arrays' = arrays /\ sockets' = sockets
      /\ next' = next /\ old' = old /\ raced' = raced
      /\ settled' = [settled EXCEPT ![c] = shown] /\ reg' = [reg EXCEPT ![c] = "read"]
      BY DEF OpenSocket
<1>3. /\ reg'[c] = "read" /\ \A d \in Client \ {c} : reg'[d] = reg[d]
      /\ settled'[c] = shown /\ \A d \in Client \ {c} : settled'[d] = settled[d]
      BY <1>0, <1>2 DEF ConsoleTypeOK
<1>4. Pending' = Pending /\ Dropping' = Dropping /\ Slices' = Slices
  <2>1. Pending' = Pending /\ Dropping' = Dropping
        BY <1>1, <1>2, <1>3 DEF Pending, Dropping
  <2>. QED  BY <1>2, <2>1 DEF Slices
<1>5. /\ \A d \in Client : In(d)' <=> In(d)
      /\ \A d \in Client : at'[d] = "gone" <=> at[d] = "gone"
      BY <1>1, <1>2, <1>3 DEF In
<1>6. /\ \A d \in Client \ {c}, l \in Line : Knows(d, l)' <=> Knows(d, l)
      /\ \A d \in Client : Has(sockets, d, next)' <=> Has(sockets, d, next)
      BY <1>2, <1>3 DEF Knows, Has
<1>7. ConsoleTypeOK'
      BY <1>0, <1>2 DEF ConsoleTypeOK
<1>8. SocketsInv'
      BY <1>1, <1>3 DEF ConsoleInv, SocketsInv, SocketPlace
<1>9. Fits' /\ Apart' /\ Keeps'
      BY <1>1, <1>2, <1>3, <1>4, <1>5, SlicesKept
<1>10. Locking' /\ Alone'
       BY <1>2, <1>4 DEF ConsoleInv, Locking, Alone
<1>11. Removes'
       BY <1>2, <1>4, <1>5, Removed DEF ConsoleInv, Removes
<1>12. Sends'
  <2>1. \A d \in Client : In(d) => d # c
        BY <1>1 DEF In
  <2>. QED  BY <1>2, <1>4, <1>5, <1>6, <2>1 DEF ConsoleInv, Sends
<1>13. Told'
  <2>1. \A l \in Line : line[l] # "new" => Knows(c, l)'
        BY <1>3 DEF ConsoleInv, Locking, Knows
  <2>2. ~In(c)
        BY <1>1 DEF In
  <2>. QED  BY <1>2, <1>3, <1>5, <1>6, <2>1, <2>2 DEF ConsoleInv, Told
<1>. QED  BY <1>7, <1>8, <1>9, <1>10, <1>11, <1>12, <1>13 DEF ConsoleInv

\* A browser closes its websocket.
LEMMA ConsoleClose ==
    ASSUME ConsoleInv, NEW c \in Client, Close(c)
    PROVE  ConsoleInv'
<1>0. ConsoleTypeOK /\ at \in [Client -> Places] /\ kind \in [Client -> Kind]
      BY DEF ConsoleInv, SocketsInv
<1>1. /\ kind' = kind /\ at'[c] = "gone" /\ \A d \in Client \ {c} : at'[d] = at[d]
      /\ at' \in [Client -> Places]
      BY <1>0 DEF Close, Places
<1>2. /\ line' = line /\ shown' = shown /\ locker' = locker /\ arrays' = arrays /\ sockets' = sockets
      /\ next' = next /\ reg' = reg /\ old' = old /\ settled' = settled
      /\ raced' = raced
      BY DEF Close, console
<1>3. Pending' = Pending /\ Dropping' = Dropping /\ Slices' = Slices
      BY <1>2 DEF Pending, Dropping, Slices
<1>4. \A d \in Client : /\ In(d)' => In(d)
                        /\ at[d] = "gone" => at'[d] = "gone"
      BY <1>1, <1>2 DEF In
<1>5. /\ \A d \in Client, l \in Line : Knows(d, l)' <=> Knows(d, l)
      /\ \A d \in Client : Has(sockets, d, next)' <=> Has(sockets, d, next)
      BY <1>2 DEF Knows, Has
<1>6. SocketsInv'
      BY <1>1, <1>2 DEF ConsoleInv, SocketsInv, SocketPlace
<1>7. Fits' /\ Apart' /\ Keeps'
      BY <1>2, <1>3, <1>4, SlicesKept
<1>8. ConsoleTypeOK' /\ Locking' /\ Alone'
      BY <1>2, <1>3 DEF ConsoleInv, ConsoleTypeOK, Locking, Alone
<1>9. Removes'
      BY <1>2, <1>3, <1>4, Removed DEF ConsoleInv, Removes
<1>10. Sends'
       BY <1>2, <1>3, <1>4, <1>5 DEF ConsoleInv, Sends
<1>11. Told'
       BY <1>2, <1>4, <1>5 DEF ConsoleInv, Told
<1>. QED  BY <1>6, <1>7, <1>8, <1>9, <1>10, <1>11 DEF ConsoleInv

\* A registration reads the slice.
LEMMA ConsoleRead ==
    ASSUME ConsoleInv, NEW c \in Client, RegisterRead(c)
    PROVE  ConsoleInv'
<1>0. ConsoleTypeOK
      BY DEF ConsoleInv
<1>1. /\ reg[c] = "read" /\ at' = at /\ kind' = kind
      /\ line' = line /\ shown' = shown /\ locker' = locker /\ arrays' = arrays /\ sockets' = sockets
      /\ next' = next /\ settled' = settled
      /\ reg' = [reg EXCEPT ![c] = "store"] /\ old' = [old EXCEPT ![c] = sockets]
      BY DEF RegisterRead, clients
<1>2. /\ reg'[c] = "store" /\ \A d \in Client \ {c} : reg'[d] = reg[d]
      /\ old'[c] = sockets /\ old'[None] = old[None] /\ \A d \in Client \ {c} : old'[d] = old[d]
      BY <1>0, <1>1, ClientsAssumption DEF ConsoleTypeOK
<1>3. /\ raced \subseteq raced' /\ raced' \subseteq Client \cup Line
      /\ Pending # {} \/ Dropping # {} => Pending \cup Dropping \cup Sending \cup {c} \subseteq raced'
      BY <1>0 DEF RegisterRead, Changing, Pending, Dropping, Sending, ConsoleTypeOK
<1>4. Pending' = Pending \cup {c} /\ Dropping' = Dropping /\ c \notin Pending
      BY <1>1, <1>2 DEF Pending, Dropping
<1>5. Slices' = Slices
      BY <1>1, <1>2, <1>4 DEF Slices
<1>6. \A d \in Client : In(d)' => In(d)
      BY <1>1, <1>2, <1>3 DEF In
<1>7. /\ \A d \in Client, l \in Line : Knows(d, l)' <=> Knows(d, l)
      /\ \A d \in Client : Has(sockets, d, next)' <=> Has(sockets, d, next)
      BY <1>1 DEF Knows, Has
<1>8. ConsoleTypeOK'
      BY <1>0, <1>1, <1>3 DEF ConsoleTypeOK
<1>9. SocketsInv'
      BY <1>1, <1>2 DEF ConsoleInv, SocketsInv, SocketPlace
<1>10. Fits' /\ Apart' /\ Keeps'
       BY <1>1, <1>2, <1>5, <1>6, SlicesKept
<1>11. Locking'
       BY <1>1 DEF ConsoleInv, Locking
<1>12. Removes'
       BY <1>1, <1>2, <1>3, <1>4, Removed DEF ConsoleInv, Removes
<1>13. Alone'
       BY <1>1, <1>2, <1>3, <1>4 DEF ConsoleInv, Alone, Pending
<1>14. Sends'
  <2>. SUFFICES ASSUME NEW l \in Line \ raced', locker' = l
                PROVE  /\ \A d, e \in Pending' : old'[d] = sockets' /\ d = e
                       /\ line'[l] = "drop" => old'[None] = sockets' /\ Pending' = {}
                       /\ \A d \in Client : In(d)' => Knows(d, l)' \/ Has(sockets, d, next)'
       BY DEF Sends
  <2>1. Pending = {} /\ Dropping = {}
        BY <1>1, <1>3 DEF Sending
  <2>2. line'[l] # "drop"
        BY <1>1, <2>1 DEF Dropping
  <2>3. \A d \in Client : In(d)' => Knows(d, l)' \/ Has(sockets, d, next)'
        BY <1>1, <1>3, <1>6, <1>7 DEF ConsoleInv, Sends
  <2>. QED  BY <1>1, <1>2, <1>4, <2>1, <2>2, <2>3
<1>15. Told'
       BY <1>1, <1>2, <1>3, <1>6, <1>7 DEF ConsoleInv, Told
<1>. QED  BY <1>8, <1>9, <1>10, <1>11, <1>12, <1>13, <1>14, <1>15 DEF ConsoleInv

\* What a registration stores: the slice as it has read it, and the socket
\* behind.  Any other slice in use keeps what it held, but for that place.
LEMMA Registered ==
    ASSUME ConsoleInv, NEW c \in Client, Register(c)
    PROVE  /\ old[c].len \in Nat /\ arrays' \in [Client \cup {None} -> Seq(Client)]
           /\ sockets'.array \in Client \cup {None} /\ sockets'.array \in {c, old[c].array}
           /\ sockets' \in Slice /\ sockets'.len = old[c].len + 1
           /\ sockets'.len <= Len(arrays'[sockets'.array])
           /\ arrays'[sockets'.array][sockets'.len] = c
           /\ \A k \in 1..old[c].len : arrays'[sockets'.array][k] = arrays[old[c].array][k]
           /\ \A s \in Slices :
                 /\ arrays'[s.array] = arrays[s.array] \/ (s.array = old[c].array /\ s.array = sockets'.array)
                 /\ Len(arrays[s.array]) <= Len(arrays'[s.array])
                 /\ \A k \in 1..Len(arrays[s.array]) :
                       arrays'[s.array][k] = arrays[s.array][k] \/ (k = sockets'.len /\ arrays'[s.array][k] = c)
<1>0. ConsoleTypeOK /\ reg[c] = "store" /\ old[c] \in Slices
      BY DEF ConsoleInv, Register, Slices, Pending
<1>1. PICK A \in Client \cup {None}, n \in Nat : old[c] = [array |-> A, len |-> n]
      BY <1>0, SliceType DEF Slice
<1>2. arrays[A] \in Seq(Client) /\ n <= Len(arrays[A]) /\ \A k \in 1..n : arrays[A][k] \in Client
      BY <1>0, <1>1, SliceOf
<1>3. \A s \in Slices : s.array \in Client \cup {None} /\ s.array # c
      BY <1>0, SliceOf DEF ConsoleInv, Apart
<1>4. CASE /\ arrays' = [arrays EXCEPT ![c] = Append(Held(old[c]), c)]
           /\ sockets' = [array |-> c, len |-> old[c].len + 1]
  <2>1. Held(old[c]) \in Seq(Client) /\ Len(Held(old[c])) = n /\ \A k \in 1..n : Held(old[c])[k] = arrays[A][k]
        BY <1>1, <1>2 DEF Held
  <2>2. PICK h \in Seq(Client) : h = Held(old[c])
        BY <2>1
  <2>3. PICK g \in Seq(Client) : /\ g = Append(h, c) /\ Len(g) = n + 1
                                 /\ g[n + 1] = c /\ \A k \in 1..n : g[k] = arrays[A][k]
    <3>1. /\ Append(h, c) \in Seq(Client) /\ Len(Append(h, c)) = n + 1
          /\ Append(h, c)[n + 1] = c /\ \A k \in 1..n : Append(h, c)[k] = arrays[A][k]
          BY <2>1, <2>2
    <3>. QED  BY <3>1
  <2>4. /\ arrays'[c] = g /\ \A a \in Client \cup {None} : a # c => arrays'[a] = arrays[a]
        /\ arrays' \in [Client \cup {None} -> Seq(Client)]
        BY <1>0, <1>4, <2>2, <2>3 DEF ConsoleTypeOK
  <2>5. sockets' \in Slice /\ sockets'.array = c /\ sockets'.len = n + 1 /\ old[c].len = n /\ old[c].array = A
        BY <1>1, <1>4 DEF Slice
  <2>6. \A s \in Slices : arrays'[s.array] = arrays[s.array] /\ Len(arrays[s.array]) \in Nat
    <3>. SUFFICES ASSUME NEW s \in Slices PROVE arrays'[s.array] = arrays[s.array] /\ Len(arrays[s.array]) \in Nat
         OBVIOUS
    <3>1. s.array \in Client \cup {None} /\ s.array # c /\ Len(arrays[s.array]) \in Nat
          BY <1>3, SliceOf
    <3>. QED  BY <2>4, <3>1
  <2>7. /\ arrays'[sockets'.array][sockets'.len] = c /\ sockets'.len <= Len(arrays'[sockets'.array])
        /\ \A k \in 1..old[c].len : arrays'[sockets'.array][k] = arrays[old[c].array][k]
    <3>1. arrays'[sockets'.array] = g /\ sockets'.len = n + 1 /\ old[c].len = n /\ old[c].array = A
          BY <2>4, <2>5
    <3>. QED  BY <2>3, <3>1
  <2>8. /\ old[c].len \in Nat /\ sockets'.array \in Client \cup {None}
        /\ sockets'.array \in {c, old[c].array} /\ sockets'.len = old[c].len + 1
        BY <2>5
  <2>9. ASSUME NEW s \in Slices
        PROVE  /\ arrays'[s.array] = arrays[s.array]
               /\ Len(arrays[s.array]) <= Len(arrays'[s.array])
               /\ \A k \in 1..Len(arrays[s.array]) : arrays'[s.array][k] = arrays[s.array][k]
    <3>1. arrays'[s.array] = arrays[s.array] /\ Len(arrays[s.array]) \in Nat
          BY <2>6
    <3>. QED  BY <3>1
  <2>10. sockets' \in Slice /\ arrays' \in [Client \cup {None} -> Seq(Client)]
         BY <2>4, <2>5
  <2>. QED  BY <2>7, <2>8, <2>9, <2>10
<1>5. CASE /\ arrays' = [arrays EXCEPT ![old[c].array] = Store(@, old[c].len + 1, c)]
           /\ sockets' = [old[c] EXCEPT !.len = @ + 1]
  <2>1. arrays' = [arrays EXCEPT ![A] = Store(arrays[A], n + 1, c)] /\ sockets' = [array |-> A, len |-> n + 1]
        BY <1>1, <1>5
  <2>2. PICK m \in Nat : m = Len(arrays[A]) /\ n <= m
        BY <1>2
  <2>3. PICK h : h = Store(arrays[A], n + 1, c)
        OBVIOUS
  <2>4. h = [k \in 1..(IF n + 1 > m THEN n + 1 ELSE m) |-> IF k = n + 1 THEN c ELSE arrays[A][k]]
        BY <2>2, <2>3 DEF Store
  <2>5. /\ h \in Seq(Client) /\ m <= Len(h) /\ n + 1 <= Len(h)
        /\ h[n + 1] = c /\ \A k \in 1..m : h[k] = IF k = n + 1 THEN c ELSE arrays[A][k]
    <3>1. \A k \in 1..(IF n + 1 > m THEN n + 1 ELSE m) : k # n + 1 => arrays[A][k] \in Client
          BY <1>2, <2>2
    <3>. QED  BY <2>2, <2>4, <3>1
  <2>6. /\ arrays'[A] = h /\ \A a \in Client \cup {None} : a # A => arrays'[a] = arrays[a]
        /\ arrays' \in [Client \cup {None} -> Seq(Client)]
        BY <1>0, <2>1, <2>3, <2>5 DEF ConsoleTypeOK
  <2>7. sockets' \in Slice /\ sockets'.array = A /\ sockets'.len = n + 1 /\ old[c].len = n /\ old[c].array = A
        BY <1>1, <2>1 DEF Slice
  <2>8. \A k \in 1..n : h[k] = arrays[A][k]
        BY <2>2, <2>5
  <2>9. ASSUME NEW s \in Slices
        PROVE  /\ arrays'[s.array] = arrays[s.array] \/ (s.array = old[c].array /\ s.array = sockets'.array)
               /\ Len(arrays[s.array]) <= Len(arrays'[s.array])
               /\ \A k \in 1..Len(arrays[s.array]) :
                     arrays'[s.array][k] = arrays[s.array][k] \/ (k = sockets'.len /\ arrays'[s.array][k] = c)
    <3>1. s.array \in Client \cup {None} /\ Len(arrays[s.array]) \in Nat
          BY <1>3, SliceOf
    <3>2. CASE s.array = A
      <4>1. arrays'[s.array] = h /\ Len(arrays[s.array]) = m /\ arrays[s.array] = arrays[A]
            BY <2>2, <2>6, <3>2
      <4>2. m <= Len(h) /\ \A k \in 1..m : h[k] = arrays[A][k] \/ (k = n + 1 /\ h[k] = c)
        <5>. SUFFICES ASSUME NEW k \in 1..m PROVE h[k] = arrays[A][k] \/ (k = n + 1 /\ h[k] = c)
             BY <2>5
        <5>1. h[k] = IF k = n + 1 THEN c ELSE arrays[A][k]
              BY <2>5
        <5>. QED  BY <5>1
      <4>. QED  BY <2>7, <3>2, <4>1, <4>2
    <3>3. CASE s.array # A
      <4>1. arrays'[s.array] = arrays[s.array]
            BY <2>6, <3>1, <3>3
      <4>2. \A k \in 1..Len(arrays[s.array]) : arrays'[s.array][k] = arrays[s.array][k]
            BY <4>1
      <4>. QED  BY <3>1, <4>1, <4>2
    <3>. QED  BY <3>2, <3>3
  <2>10. /\ arrays'[sockets'.array][sockets'.len] = c /\ sockets'.len <= Len(arrays'[sockets'.array])
         /\ \A k \in 1..old[c].len : arrays'[sockets'.array][k] = arrays[old[c].array][k]
         BY <2>5, <2>6, <2>7, <2>8
  <2>. QED  BY <2>6, <2>7, <2>9, <2>10
<1>. QED  BY <1>4, <1>5 DEF Register

\* A registration stores it.
LEMMA ConsoleRegister ==
    ASSUME ConsoleInv, NEW c \in Client, Register(c)
    PROVE  ConsoleInv'
<1>0. ConsoleTypeOK
      BY DEF ConsoleInv
<1>1. /\ reg[c] = "store" /\ at' = at /\ kind' = kind
      /\ line' = line /\ shown' = shown /\ locker' = locker
      /\ next' = next /\ settled' = settled /\ raced' = raced
      /\ reg' = [reg EXCEPT ![c] = "in"] /\ old' = [old EXCEPT ![c] = Empty]
      BY DEF Register, clients
<1>2. /\ reg'[c] = "in" /\ \A d \in Client \ {c} : reg'[d] = reg[d]
      /\ old'[None] = old[None] /\ \A d \in Client \ {c} : old'[d] = old[d]
      BY <1>0, <1>1, ClientsAssumption DEF ConsoleTypeOK
<1>3. Pending' = Pending \ {c} /\ Dropping' = Dropping /\ c \in Pending
      BY <1>1, <1>2 DEF Pending, Dropping
<1>4. old[c] \in Slices /\ old[c].len \in Nat /\ Slices' \subseteq Slices \cup {sockets'}
      /\ sockets' \in Slice
  <2>1. old[c] \in Slices
        BY <1>3 DEF Slices
  <2>2. old[c].len \in Nat /\ sockets' \in Slice
        BY Registered
  <2>3. ASSUME NEW s \in Slices' PROVE s \in Slices \cup {sockets'}
    <3>. SUFFICES ASSUME s # sockets' PROVE s \in Slices
         OBVIOUS
    <3>1. CASE \E d \in Pending' : s = old'[d]
          BY <1>2, <1>3, <3>1 DEF Slices, Pending
    <3>2. CASE \E l \in Dropping' : s = old'[None]
          BY <1>2, <1>3, <3>2 DEF Slices
    <3>. QED  BY <2>3, <3>1, <3>2 DEF Slices
  <2>. QED  BY <2>1, <2>2, <2>3
<1>5. \A d \in Client : d # c => (In(d)' <=> In(d))
      BY <1>1, <1>2 DEF In
<1>6. c \notin raced => Pending = {c} /\ Dropping = {} /\ Slices' = {sockets'}
  <2>. SUFFICES ASSUME c \notin raced PROVE Pending = {c} /\ Dropping = {}
       BY <1>3 DEF Slices
  <2>. QED  BY <1>3 DEF ConsoleInv, Alone, Removes
<1>7. \A d \in Client, l \in Line : Knows(d, l)' <=> Knows(d, l)
      BY <1>1 DEF Knows
<1>8. ConsoleTypeOK'
  <2>1. old' \in [Client \cup {None} -> Slice]
        BY <1>0, <1>1 DEF ConsoleTypeOK, Empty, Slice
  <2>. QED  BY <1>0, <1>1, <2>1, Registered DEF ConsoleTypeOK
<1>9. SocketsInv'
      BY <1>1, <1>2 DEF ConsoleInv, SocketsInv, SocketPlace
<1>10. Fits'
  <2>. SUFFICES ASSUME NEW s \in Slices' PROVE s.len <= Len(arrays'[s.array])
       BY DEF Fits
  <2>1. CASE s = sockets'
        BY <2>1, Registered
  <2>2. CASE s \in Slices
    <3>1. s.len \in Nat /\ arrays[s.array] \in Seq(Client) /\ s.len <= Len(arrays[s.array])
          BY <2>2, SliceOf
    <3>2. arrays'[s.array] \in Seq(Client)
          BY <2>2, SliceOf, Registered
    <3>3. Len(arrays[s.array]) <= Len(arrays'[s.array])
          BY <2>2, Registered
    <3>. QED  BY <3>1, <3>2, <3>3
  <2>. QED  BY <1>4, <2>1, <2>2
<1>11. Apart'
  <2>. SUFFICES ASSUME NEW d \in Client, NEW s \in Slices', reg'[d] # "in" PROVE s.array # d
       BY DEF Apart
  <2>1. reg[d] # "in" /\ d # c
        BY <1>2
  <2>2. sockets'.array \in {c, old[c].array}
        BY Registered
  <2>. QED  BY <1>4, <2>1, <2>2 DEF ConsoleInv, Apart
<1>12. Keeps'
  <2>. SUFFICES ASSUME NEW d \in Client, NEW s \in Slices', In(d)'
                PROVE  \E k \in 1..s.len : arrays'[s.array][k] = d
       BY DEF Keeps, Has
  <2>1. CASE d = c
    <3>1. s = sockets'
          BY <1>1, <1>6, <2>1 DEF In
    <3>2. sockets'.len \in 1..sockets'.len /\ arrays'[sockets'.array][sockets'.len] = c
          BY <1>4, Registered
    <3>. QED  BY <2>1, <3>1, <3>2
  <2>2. CASE d # c
    <3>1. PICK k \in 1..old[c].len : arrays[old[c].array][k] = d
          BY <1>4, <1>5, <2>2 DEF ConsoleInv, Keeps, Has
    <3>2. CASE s = sockets'
      <4>1. sockets'.len = old[c].len + 1 /\ arrays'[sockets'.array][k] = d
            BY <3>1, Registered
      <4>. QED  BY <1>4, <3>2, <4>1
    <3>3. CASE s \in Slices
      <4>0. s.len \in Nat /\ Len(arrays[s.array]) \in Nat /\ s.len <= Len(arrays[s.array])
            BY <3>3, SliceOf
      <4>1. PICK i \in 1..s.len : arrays[s.array][i] = d
            BY <1>5, <2>2, <3>3 DEF ConsoleInv, Keeps, Has
      <4>2. CASE arrays'[s.array][i] = d
            BY <4>1, <4>2
      <4>3. CASE arrays'[s.array][i] # d
        <5>1. i \in 1..Len(arrays[s.array])
              BY <4>0
        <5>2. i = sockets'.len /\ s.array = sockets'.array
              BY <3>3, <4>1, <4>3, <5>1, Registered
        <5>3. arrays'[s.array][k] = d /\ k < i
          <6>1. arrays'[sockets'.array][k] = d /\ sockets'.len = old[c].len + 1
                BY <3>1, Registered
          <6>. QED  BY <1>4, <5>2, <6>1
        <5>. QED  BY <4>0, <5>3
      <4>. QED  BY <4>2, <4>3
    <3>. QED  BY <1>4, <3>2, <3>3
  <2>. QED  BY <2>1, <2>2
<1>13. Locking'
       BY <1>1 DEF ConsoleInv, Locking
<1>14. Removes'
  <2>. SUFFICES ASSUME NEW l \in Dropping
                PROVE  /\ next <= old[None].len /\ Pending' \subseteq raced
                       /\ \/ arrays'[old[None].array][next] \in raced
                          \/ at[arrays'[old[None].array][next]] = "gone"
       BY <1>1, <1>2, <1>3 DEF Removes
  <2>1. /\ next <= old[None].len /\ Pending \subseteq raced
        /\ \/ arrays[old[None].array][next] \in raced
           \/ at[arrays[old[None].array][next]] = "gone"
        BY DEF ConsoleInv, Removes
  <2>2. old[None] \in Slices /\ next \in 1..Len(arrays[old[None].array])
        BY Removed, SliceOf
  <2>3. arrays'[old[None].array][next] \in {c, arrays[old[None].array][next]}
        BY <2>2, Registered
  <2>. QED  BY <1>3, <2>1, <2>3
<1>15. Alone'
       BY <1>1, <1>2, <1>3 DEF ConsoleInv, Alone
<1>16. Sends'
  <2>. SUFFICES ASSUME NEW l \in Line \ raced, locker = l
                PROVE  /\ Pending' = {} /\ line[l] # "drop"
                       /\ \A d \in Client : In(d)' => Knows(d, l) \/ Has(sockets, d, next)'
       BY <1>1, <1>7 DEF Sends
  <2>1. Pending = {c} /\ old[c] = sockets /\ line[l] # "drop"
        BY <1>3 DEF ConsoleInv, Sends
  <2>2. ASSUME NEW d \in Client, In(d)' PROVE Knows(d, l) \/ Has(sockets, d, next)'
    <3>1. CASE d = c
      <4>1. line[l] \in {"send", "drop"}
            BY DEF ConsoleInv, Locking
      <4>. QED  BY <1>1, <3>1, <4>1 DEF ConsoleInv, Told
    <3>2. CASE d # c /\ ~Knows(d, l)
      <4>1. PICK k \in next..old[c].len : arrays[old[c].array][k] = d
            BY <1>5, <2>1, <2>2, <3>2 DEF ConsoleInv, Sends, Has
      <4>2. k \in 1..old[c].len /\ k \in next..(sockets'.len)
        <5>1. next \in Nat /\ next >= 1 /\ sockets'.len = old[c].len + 1
              BY <1>0, Registered DEF ConsoleInv, Locking, ConsoleTypeOK
        <5>. QED  BY <1>4, <4>1, <5>1
      <4>3. arrays'[sockets'.array][k] = d
            BY <4>1, <4>2, Registered
      <4>. QED  BY <1>1, <4>2, <4>3 DEF Has
    <3>. QED  BY <3>1, <3>2
  <2>. QED  BY <1>3, <2>1, <2>2
<1>17. Told'
  <2>1. \A l \in Line : line[l] \in {"send", "drop", "done"} => Knows(c, l)
        BY <1>1 DEF ConsoleInv, Told
  <2>. QED  BY <1>1, <1>2, <1>5, <1>7, <2>1 DEF ConsoleInv, Told
<1>. QED  BY <1>8, <1>9, <1>10, <1>11, <1>12, <1>13, <1>14, <1>15, <1>16, <1>17 DEF ConsoleInv

\* What a removal does to the array it has read: every element but the one
\* removed stays or moves up by one.
LEMMA MovedUp ==
    ASSUME ConsoleInv, NEW l \in Line, Drop(l)
    PROVE  /\ old[None] \in Slices /\ arrays' \in [Client \cup {None} -> Seq(Client)]
           /\ sockets' \in Slice /\ sockets'.array = old[None].array /\ sockets'.len = old[None].len - 1
           /\ \A a \in Client \cup {None} : a # old[None].array => arrays'[a] = arrays[a]
           /\ Len(arrays'[old[None].array]) = Len(arrays[old[None].array])
           /\ \A k \in 1..Len(arrays[old[None].array]) : k # next =>
                 \E j \in 1..k : /\ arrays'[old[None].array][j] = arrays[old[None].array][k]
                                 /\ k >= next => j >= next
                                 /\ k <= old[None].len => j <= old[None].len - 1
<1>0. ConsoleTypeOK /\ l \in Dropping
      BY DEF ConsoleInv, Drop, Dropping
<1>1. old[None] \in Slices /\ next \in 1..old[None].len
      BY <1>0, Removed
<1>2. PICK A \in Client \cup {None}, n \in Nat : old[None] = [array |-> A, len |-> n]
      BY <1>0, <1>1, SliceType DEF Slice
<1>3. arrays[A] \in Seq(Client) /\ n <= Len(arrays[A]) /\ next \in 1..n
      BY <1>1, <1>2, SliceOf
<1>4. PICK h : h = [i \in DOMAIN arrays[A] |-> IF next <= i /\ i < n THEN arrays[A][i + 1] ELSE arrays[A][i]]
      OBVIOUS
<1>5. PICK m \in Nat : m = Len(arrays[A])
      BY <1>3
<1>6. h = [i \in 1..m |-> IF next <= i /\ i < n THEN arrays[A][i + 1] ELSE arrays[A][i]]
      BY <1>3, <1>4, <1>5
<1>7. h \in Seq(Client) /\ Len(h) = m
  <2>1. \A i \in 1..m : (IF next <= i /\ i < n THEN arrays[A][i + 1] ELSE arrays[A][i]) \in Client
        BY <1>3, <1>5
  <2>. QED  BY <1>6, <2>1
<1>8. arrays' = [arrays EXCEPT ![A] = h] /\ sockets' = [array |-> A, len |-> n - 1]
      BY <1>2, <1>4 DEF Drop, RemoveSocket
<1>9. /\ arrays'[A] = h /\ \A a \in Client \cup {None} : a # A => arrays'[a] = arrays[a]
      /\ arrays' \in [Client \cup {None} -> Seq(Client)]
      BY <1>0, <1>7, <1>8 DEF ConsoleTypeOK
<1>10. sockets' \in Slice /\ sockets'.array = A /\ sockets'.len = n - 1 /\ old[None].len = n /\ old[None].array = A
       BY <1>2, <1>3, <1>8 DEF Slice
<1>11. ASSUME NEW k \in 1..m, k # next
       PROVE  \E j \in 1..k : /\ h[j] = arrays[A][k]
                              /\ k >= next => j >= next
                              /\ k <= n => j <= n - 1
  <2>1. CASE k < next \/ n < k
    <3>1. h[k] = arrays[A][k]
          BY <1>3, <1>6, <2>1
    <3>. QED  BY <1>3, <1>5, <2>1, <3>1
  <2>2. CASE next < k /\ k <= n
    <3>1. h[k - 1] = arrays[A][k] /\ k - 1 \in 1..k
          BY <1>3, <1>5, <1>6, <2>2
    <3>. QED  BY <1>3, <1>5, <2>2, <3>1
  <2>. QED  BY <1>3, <1>11, <2>1, <2>2
<1>. QED  BY <1>1, <1>5, <1>7, <1>9, <1>10, <1>11

\* A socket that is gone is removed.
LEMMA ConsoleDrop ==
    ASSUME ConsoleInv, NEW l \in Line, Drop(l)
    PROVE  ConsoleInv'
<1>0. ConsoleTypeOK /\ l \in Dropping /\ locker = l
      BY DEF ConsoleInv, Drop, Dropping, Locking
<1>1. /\ line[l] = "drop" /\ at' = at /\ kind' = kind /\ shown' = shown /\ locker' = locker
      /\ next' = next /\ settled' = settled /\ raced' = raced /\ reg' = reg
      /\ line' = [line EXCEPT ![l] = "send"] /\ old' = [old EXCEPT ![None] = Empty]
      BY DEF Drop, RemoveSocket, clients
<1>2. /\ line'[l] = "send" /\ \A x \in Line \ {l} : line'[x] = line[x]
      /\ \A d \in Client : old'[d] = old[d]
      BY <1>0, <1>1, ClientsAssumption DEF ConsoleTypeOK
<1>3. Pending' = Pending /\ Dropping' = {}
  <2>1. \A x \in Line : line[x] = "drop" => x = l
        BY <1>0 DEF ConsoleInv, Locking
  <2>. QED  BY <1>1, <1>2, <2>1 DEF Pending, Dropping
<1>4. Slices' = {sockets'} \cup {old[d] : d \in Pending}
      BY <1>2, <1>3 DEF Slices, Pending
<1>5. Slices' \subseteq Slices \cup {sockets'}
      BY <1>4 DEF Slices
<1>6. PICK o \in Slices : o = old[None] /\ o.len \in Nat /\ o.array \in Client \cup {None}
      BY MovedUp, SliceOf
<1>7. /\ \A d \in Client : In(d)' <=> In(d)
      /\ \A d \in Client, x \in Line : Knows(d, x)' <=> Knows(d, x)
      BY <1>1 DEF In, Knows
<1>8. next \in 1..o.len /\ ~In(arrays[o.array][next]) /\ o.len <= Len(arrays[o.array]) /\ Len(arrays[o.array]) \in Nat
      BY <1>0, <1>6, Removed, SliceOf
<1>9. ConsoleTypeOK'
  <2>1. old' \in [Client \cup {None} -> Slice]
        BY <1>0, <1>1 DEF ConsoleTypeOK, Empty, Slice
  <2>2. line' \in [Line -> {"new", "shown", "send", "drop", "done"}]
        BY <1>0, <1>1 DEF ConsoleTypeOK
  <2>3. sockets'.len <= Len(arrays'[sockets'.array])
        BY <1>6, <1>8, MovedUp
  <2>. QED  BY <1>0, <1>1, <2>1, <2>2, <2>3, MovedUp DEF ConsoleTypeOK
<1>10. SocketsInv'
       BY <1>1 DEF ConsoleInv, SocketsInv, SocketPlace
<1>11. Fits'
  <2>. SUFFICES ASSUME NEW s \in Slices' PROVE s.len <= Len(arrays'[s.array])
       BY DEF Fits
  <2>1. CASE s = sockets'
        BY <1>6, <1>8, <2>1, MovedUp
  <2>2. CASE s \in Slices
    <3>1. s.array \in Client \cup {None} /\ s.len <= Len(arrays[s.array])
          BY <2>2, SliceOf
    <3>2. Len(arrays'[s.array]) = Len(arrays[s.array])
          BY <3>1, MovedUp
    <3>. QED  BY <3>1, <3>2
  <2>. QED  BY <1>5, <2>1, <2>2
<1>12. Apart'
  <2>1. sockets'.array = o.array
        BY <1>6, MovedUp
  <2>. QED  BY <1>1, <1>5, <1>6, <2>1 DEF ConsoleInv, Apart
<1>13. Keeps'
  <2>. SUFFICES ASSUME NEW d \in Client, NEW s \in Slices', In(d)
                PROVE  \E k \in 1..s.len : arrays'[s.array][k] = d
       BY <1>7 DEF Keeps, Has
  <2>1. CASE s = sockets'
    <3>1. PICK k \in 1..o.len : arrays[o.array][k] = d
          BY <1>6 DEF ConsoleInv, Keeps, Has
    <3>2. k \in 1..Len(arrays[o.array]) /\ k # next /\ k <= o.len
          BY <1>6, <1>8, <3>1
    <3>3. PICK j \in 1..k : arrays'[o.array][j] = d /\ j <= o.len - 1
          BY <1>6, <3>1, <3>2, MovedUp
    <3>4. sockets'.array = o.array /\ sockets'.len = o.len - 1
          BY <1>6, MovedUp
    <3>. QED  BY <1>6, <2>1, <3>3, <3>4
  <2>2. CASE s \in Slices
    <3>1. PICK k \in 1..s.len : arrays[s.array][k] = d
          BY <2>2 DEF ConsoleInv, Keeps, Has
    <3>2. s.array \in Client \cup {None} /\ s.len \in Nat /\ s.len <= Len(arrays[s.array])
          BY <2>2, SliceOf
    <3>3. CASE s.array # o.array
          BY <1>6, <3>1, <3>2, <3>3, MovedUp
    <3>4. CASE s.array = o.array
      <4>1. k \in 1..Len(arrays[o.array]) /\ k # next
            BY <1>8, <3>1, <3>2, <3>4
      <4>2. PICK j \in 1..k : arrays'[o.array][j] = d
            BY <1>6, <3>1, <3>4, <4>1, MovedUp
      <4>. QED  BY <3>2, <3>4, <4>2
    <3>. QED  BY <3>3, <3>4
  <2>. QED  BY <1>5, <2>1, <2>2
<1>14. Locking'
       BY <1>0, <1>1, <1>2 DEF ConsoleInv, Locking
<1>15. Removes'
       BY <1>3 DEF Removes
<1>16. Alone'
       BY <1>0, <1>1, <1>3 DEF ConsoleInv, Alone, Removes
<1>17. Sends'
  <2>. SUFFICES ASSUME l \notin raced
                PROVE  /\ Pending' = {}
                       /\ \A d \in Client : In(d) => Knows(d, l) \/ Has(sockets, d, next)'
       BY <1>0, <1>1, <1>2, <1>7 DEF Sends
  <2>1. sockets = o /\ Pending = {}
        BY <1>0, <1>1, <1>6 DEF ConsoleInv, Sends
  <2>2. ASSUME NEW d \in Client, In(d), ~Knows(d, l) PROVE Has(sockets, d, next)'
    <3>1. PICK k \in next..o.len : arrays[o.array][k] = d
          BY <1>0, <2>1, <2>2 DEF ConsoleInv, Sends, Has
    <3>2. k \in 1..Len(arrays[o.array]) /\ k # next /\ k <= o.len /\ k >= next
          BY <1>6, <1>8, <2>2, <3>1
    <3>3. PICK j \in 1..k : arrays'[o.array][j] = d /\ j <= o.len - 1 /\ j >= next
          BY <1>6, <3>1, <3>2, MovedUp
    <3>4. sockets'.array = o.array /\ sockets'.len = o.len - 1
          BY <1>6, MovedUp
    <3>. QED  BY <1>1, <1>6, <1>8, <3>3, <3>4 DEF Has
  <2>. QED  BY <1>3, <2>1, <2>2
<1>18. Told'
       BY <1>1, <1>2, <1>7 DEF ConsoleInv, Told
<1>. QED  BY <1>9, <1>10, <1>11, <1>12, <1>13, <1>14, <1>15, <1>16, <1>17, <1>18 DEF ConsoleInv

\* A line is put into the buffer.
LEMMA ConsoleDisplay ==
    ASSUME ConsoleInv, NEW l \in Line, Display(l)
    PROVE  ConsoleInv'
<1>0. ConsoleTypeOK
      BY DEF ConsoleInv
<1>1. /\ line[l] = "new" /\ at' = at /\ kind' = kind /\ shown' = shown \cup {l} /\ locker' = locker
      /\ arrays' = arrays /\ sockets' = sockets /\ next' = next /\ settled' = settled
      /\ raced' = raced /\ reg' = reg /\ old' = old /\ line' = [line EXCEPT ![l] = "shown"]
      BY DEF Display, clients
<1>2. line'[l] = "shown" /\ \A x \in Line \ {l} : line'[x] = line[x]
      BY <1>0, <1>1 DEF ConsoleTypeOK
<1>3. Pending' = Pending /\ Dropping' = Dropping
      BY <1>1, <1>2 DEF Pending, Dropping
<1>4. Slices' = Slices
      BY <1>1, <1>3 DEF Slices
<1>5. /\ \A d \in Client : In(d)' <=> In(d)
      /\ \A d \in Client, x \in Line : Knows(d, x)' <=> Knows(d, x)
      /\ \A d \in Client : Has(sockets, d, next)' <=> Has(sockets, d, next)
      BY <1>1 DEF In, Knows, Has
<1>6. ConsoleTypeOK' /\ SocketsInv'
      BY <1>0, <1>1 DEF ConsoleInv, ConsoleTypeOK, SocketsInv, SocketPlace
<1>7. Fits' /\ Apart' /\ Keeps'
      BY <1>1, <1>4, <1>5, SlicesKept
<1>8. Locking' /\ Removes' /\ Alone'
      BY <1>0, <1>1, <1>2, <1>3 DEF ConsoleInv, Locking, Removes, Alone
<1>9. Sends'
      BY <1>1, <1>2, <1>3, <1>5 DEF ConsoleInv, Sends, Locking
<1>10. Told'
       BY <1>1, <1>2, <1>5 DEF ConsoleInv, Told
<1>. QED  BY <1>6, <1>7, <1>8, <1>9, <1>10 DEF ConsoleInv

\* Write begins to send it.
LEMMA ConsoleLock ==
    ASSUME ConsoleInv, NEW l \in Line, WriteLock(l)
    PROVE  ConsoleInv'
<1>0. ConsoleTypeOK
      BY DEF ConsoleInv
<1>1. /\ line[l] = "shown" /\ locker = None /\ at' = at /\ kind' = kind /\ shown' = shown /\ locker' = l
      /\ arrays' = arrays /\ sockets' = sockets /\ next' = 1
      /\ reg' = reg /\ old' = old /\ line' = [line EXCEPT ![l] = "send"]
      /\ settled' = [c \in Client |-> IF reg[c] \in {"read", "store"} THEN settled[c] \cup {l}
                                                                ELSE settled[c]]
      BY DEF WriteLock, clients
<1>2. line'[l] = "send" /\ \A x \in Line \ {l} : line'[x] = line[x]
      BY <1>0, <1>1 DEF ConsoleTypeOK
<1>3. \A x \in Line : line[x] \notin {"send", "drop"}
      BY <1>1, ConsoleAssumption DEF ConsoleInv, Locking
<1>4. Pending' = Pending /\ Dropping = {} /\ Dropping' = {}
  <2>1. Dropping' = {}
        BY <1>2, <1>3 DEF Dropping
  <2>. QED  BY <1>1, <1>3, <2>1 DEF Pending, Dropping
<1>5. Slices' = Slices
      BY <1>1, <1>4 DEF Slices
<1>6. raced \subseteq raced' /\ raced' \subseteq raced \cup {l} /\ (Pending \cap raced # {} => l \in raced')
  <2>1. Changing = Pending \cup Dropping
        BY DEF Changing, Pending, Dropping
  <2>. QED  BY <1>4, <2>1 DEF WriteLock
<1>7. /\ \A d \in Client : In(d)' => In(d)
      /\ \A d \in Client, x \in Line : Knows(d, x) => Knows(d, x)'
      /\ \A d \in Client : reg[d] \in {"read", "store"} => Knows(d, l)'
      BY <1>1, <1>6 DEF In, Knows
<1>8. ConsoleTypeOK'
  <2>1. settled' \in [Client -> SUBSET Line]
        BY <1>0, <1>1 DEF ConsoleTypeOK
  <2>. QED  BY <1>0, <1>1, <1>6, <2>1 DEF ConsoleTypeOK
<1>9. SocketsInv'
      BY <1>1 DEF ConsoleInv, SocketsInv, SocketPlace
<1>10. Fits' /\ Apart' /\ Keeps'
       BY <1>1, <1>5, <1>7, SlicesKept
<1>11. Locking'
       BY <1>1, <1>2, <1>3 DEF ConsoleInv, Locking
<1>12. Removes'
       BY <1>4 DEF Removes
<1>13. Alone'
       BY <1>1, <1>4, <1>6 DEF ConsoleInv, Alone
<1>14. Sends'
  <2>. SUFFICES ASSUME l \notin raced'
                PROVE  /\ \A d, e \in Pending : old[d] = sockets /\ d = e
                       /\ \A d \in Client : In(d) => Has(sockets, d, next)'
       BY <1>1, <1>2, <1>4, <1>7 DEF Sends
  <2>1. \A d, e \in Pending : old[d] = sockets /\ d = e
        BY <1>6 DEF ConsoleInv, Alone
  <2>2. \A d \in Client : In(d) => Has(sockets, d, 1)
        BY DEF ConsoleInv, Keeps, Slices
  <2>. QED  BY <1>1, <2>1, <2>2 DEF Has
<1>15. Told'
  <2>1. \A d \in Client, x \in Line : In(d)' /\ line'[x] = "done" /\ x \notin raced' => Knows(d, x)'
        BY <1>2, <1>6, <1>7 DEF ConsoleInv, Told
  <2>2. \A d \in Client, x \in Line :
           reg'[d] \in {"read", "store"} /\ line'[x] \in {"send", "drop", "done"} => Knows(d, x)'
        BY <1>1, <1>2, <1>7 DEF ConsoleInv, Told
  <2>. QED  BY <2>1, <2>2 DEF Told
<1>. QED  BY <1>8, <1>9, <1>10, <1>11, <1>12, <1>13, <1>14, <1>15 DEF ConsoleInv

\* A line goes to the next socket, or the socket is found gone.
LEMMA ConsoleMessage ==
    ASSUME ConsoleInv, NEW l \in Line, WriteMessage(l)
    PROVE  ConsoleInv'
<1>0. ConsoleTypeOK /\ sockets \in Slices
      BY DEF ConsoleInv, Slices
<1>1. /\ line[l] = "send" /\ next <= sockets.len /\ at' = at /\ kind' = kind /\ shown' = shown /\ locker' = locker
      /\ arrays' = arrays /\ sockets' = sockets /\ reg' = reg
      BY DEF WriteMessage, clients
<1>2. /\ locker = l /\ next \in Nat /\ next >= 1 /\ sockets.len \in Nat
      /\ \A x \in Line : line[x] \in {"send", "drop"} => x = l
      BY <1>0, <1>1, SliceOf DEF ConsoleInv, Locking, ConsoleTypeOK
<1>3. PICK c \in Client : c = arrays[sockets.array][next]
      BY <1>0, <1>1, <1>2, SliceOf
<1>4. Pending' = Pending /\ Dropping = {}
      BY <1>1, <1>2 DEF Pending, Dropping
<1>5. Changing = Pending
      BY <1>4 DEF Changing, Pending, Dropping
<1>6. SocketsInv'
      BY <1>1 DEF ConsoleInv, SocketsInv, SocketPlace
<1>7. CASE settled' = [settled EXCEPT ![c] = @ \cup {l}] /\ next' = next + 1 /\ UNCHANGED <<line, old, raced>>
  <2>1. line' = line /\ old' = old /\ raced' = raced /\ Dropping' = Dropping /\ Slices' = Slices
        BY <1>1, <1>4, <1>7 DEF Dropping, Slices
  <2>2. settled'[c] = settled[c] \cup {l} /\ \A d \in Client : settled[d] \subseteq settled'[d]
        BY <1>0, <1>7 DEF ConsoleTypeOK
  <2>3. /\ \A d \in Client : In(d)' <=> In(d)
        /\ \A d \in Client, x \in Line : Knows(d, x) => Knows(d, x)'
        /\ Knows(c, l)'
        BY <1>1, <2>1, <2>2 DEF In, Knows
  <2>4. ConsoleTypeOK'
        BY <1>0, <1>1, <1>2, <1>7, <2>1 DEF ConsoleTypeOK
  <2>5. Fits' /\ Apart' /\ Keeps'
        BY <1>1, <2>1, <2>3, SlicesKept
  <2>6. Locking' /\ Removes' /\ Alone'
        BY <1>1, <1>2, <1>4, <1>7, <2>1 DEF ConsoleInv, Locking, Removes, Alone
  <2>7. Sends'
    <3>. SUFFICES ASSUME l \notin raced, NEW d \in Client, In(d), ~Knows(d, l), d # c
                  PROVE  Has(sockets, d, next)'
         BY <1>1, <1>2, <1>4, <2>1, <2>3 DEF ConsoleInv, Sends
    <3>1. PICK k \in next..sockets.len : arrays[sockets.array][k] = d
          BY <1>2 DEF ConsoleInv, Sends, Has
    <3>2. k # next
          BY <1>3, <3>1
    <3>. QED  BY <1>1, <1>2, <1>7, <3>1, <3>2 DEF Has
  <2>8. Told'
        BY <1>1, <2>1, <2>3 DEF ConsoleInv, Told
  <2>. QED  BY <1>6, <2>4, <2>5, <2>6, <2>7, <2>8 DEF ConsoleInv
<1>8. CASE /\ at[c] = "gone" /\ line' = [line EXCEPT ![l] = "drop"] /\ old' = [old EXCEPT ![None] = sockets]
           /\ raced' = IF Changing = {} THEN raced ELSE raced \cup Changing \cup {l}
           /\ UNCHANGED <<settled, next>>
  <2>1. /\ line'[l] = "drop" /\ \A x \in Line \ {l} : line'[x] = line[x]
        /\ old'[None] = sockets /\ \A d \in Client : old'[d] = old[d]
        /\ settled' = settled /\ next' = next
        BY <1>0, <1>8, ClientsAssumption DEF ConsoleTypeOK
  <2>2. Dropping' = {l}
        BY <1>2, <2>1 DEF Dropping
  <2>3. Slices' \subseteq Slices
    <3>1. Slices' = {sockets} \cup {old[d] : d \in Pending}
          BY <1>1, <1>4, <2>1, <2>2 DEF Slices, Pending
    <3>. QED  BY <3>1 DEF Slices
  <2>4. raced \subseteq raced' /\ Pending \subseteq raced' /\ (Pending # {} => l \in raced')
        BY <1>5, <1>8
  <2>5. /\ \A d \in Client : In(d)' => In(d)
        /\ \A d \in Client, x \in Line : Knows(d, x)' <=> Knows(d, x)
        /\ \A d \in Client : Has(sockets, d, next)' <=> Has(sockets, d, next)
        BY <1>1, <2>1, <2>4 DEF In, Knows, Has
  <2>6. ConsoleTypeOK'
    <3>1. raced' \subseteq Client \cup Line
          BY <1>0, <1>5, <1>8 DEF ConsoleTypeOK, Pending
    <3>2. /\ line' \in [Line -> {"new", "shown", "send", "drop", "done"}]
          /\ old' \in [Client \cup {None} -> Slice]
          BY <1>0, <1>8 DEF ConsoleTypeOK
    <3>. QED  BY <1>0, <1>1, <2>1, <3>1, <3>2 DEF ConsoleTypeOK
  <2>7. Fits' /\ Apart' /\ Keeps'
        BY <1>1, <2>3, <2>5, SlicesKept
  <2>8. Locking'
        BY <1>1, <2>1 DEF ConsoleInv, Locking
  <2>9. Removes'
        BY <1>1, <1>3, <1>4, <1>8, <2>1, <2>2, <2>4 DEF Removes
  <2>10. Alone'
         BY <1>1, <1>4, <2>1, <2>4 DEF ConsoleInv, Alone, Pending
  <2>11. Sends'
    <3>. SUFFICES ASSUME l \notin raced'
                  PROVE  /\ Pending = {}
                         /\ \A d \in Client : In(d) => Knows(d, l) \/ Has(sockets, d, next)
         BY <1>1, <1>2, <1>4, <2>1, <2>5 DEF Sends
    <3>. QED  BY <1>2, <2>4 DEF ConsoleInv, Sends
  <2>12. Told'
         BY <1>1, <2>1, <2>4, <2>5 DEF ConsoleInv, Told
  <2>. QED  BY <1>6, <2>6, <2>7, <2>8, <2>9, <2>10, <2>11, <2>12 DEF ConsoleInv
<1>. QED  BY <1>3, <1>7, <1>8 DEF WriteMessage

\* A line has been sent.
LEMMA ConsoleUnlock ==
    ASSUME ConsoleInv, NEW l \in Line, WriteUnlock(l)
    PROVE  ConsoleInv'
<1>0. ConsoleTypeOK /\ sockets \in Slices
      BY DEF ConsoleInv, Slices
<1>1. /\ line[l] = "send" /\ next > sockets.len /\ at' = at /\ kind' = kind /\ shown' = shown /\ locker' = None
      /\ arrays' = arrays /\ sockets' = sockets /\ next' = next /\ settled' = settled
      /\ raced' = raced /\ reg' = reg /\ old' = old /\ line' = [line EXCEPT ![l] = "done"]
      BY DEF WriteUnlock, clients
<1>2. line'[l] = "done" /\ \A x \in Line \ {l} : line'[x] = line[x]
      BY <1>0, <1>1 DEF ConsoleTypeOK
<1>3. locker = l /\ \A x \in Line : line[x] \in {"send", "drop"} => x = l
      BY <1>1 DEF ConsoleInv, Locking
<1>4. Pending' = Pending /\ Dropping' = {} /\ Dropping = {}
      BY <1>1, <1>2, <1>3 DEF Pending, Dropping
<1>5. Slices' = Slices
      BY <1>1, <1>4 DEF Slices
<1>6. /\ \A d \in Client : In(d)' <=> In(d)
      /\ \A d \in Client, x \in Line : Knows(d, x)' <=> Knows(d, x)
      BY <1>1 DEF In, Knows
<1>7. ConsoleTypeOK' /\ SocketsInv'
      BY <1>0, <1>1 DEF ConsoleInv, ConsoleTypeOK, SocketsInv, SocketPlace
<1>8. Fits' /\ Apart' /\ Keeps'
      BY <1>1, <1>5, <1>6, SlicesKept
<1>9. Locking'
      BY <1>1, <1>2, <1>3, ConsoleAssumption DEF ConsoleInv, Locking
<1>10. Removes' /\ Alone'
       BY <1>1, <1>4 DEF ConsoleInv, Removes, Alone
<1>11. Sends'
       BY <1>1, ConsoleAssumption DEF Sends
<1>12. Told'
  <2>1. ASSUME NEW d \in Client, In(d), l \notin raced PROVE Knows(d, l)
    <3>1. Knows(d, l) \/ Has(sockets, d, next)
          BY <1>3, <2>1 DEF ConsoleInv, Sends
    <3>2. ~Has(sockets, d, next)
          BY <1>0, <1>1, SliceOf DEF Has, ConsoleTypeOK
    <3>. QED  BY <3>1, <3>2
  <2>. QED  BY <1>1, <1>2, <1>6, <2>1 DEF ConsoleInv, Told
<1>. QED  BY <1>7, <1>8, <1>9, <1>10, <1>11, <1>12 DEF ConsoleInv

\* A login is of no websocket, and makes nobody gone.
LEMMA LoginPlace ==
    ASSUME SocketsInv, NEW c \in Client, LoginStep(c), UNCHANGED console
    PROVE  SocketsInv' /\ \A d \in Client : at'[d] = "gone" <=> at[d] = "gone"
<1>1. kind[c] = "sftp" \/ at[c] \in {"stale", "refresh", "asking", "send", "asked"}
  <2>. USE DEF Goto, Leaves
  <2>1. CASE HandleConn(c) \/ RefreshIfStale(c) \/ Send(c) \/ Hangup(c)
        BY <2>1 DEF HandleConn, RefreshIfStale, Send, Hangup, Connect
  <2>2. CASE validateSSH(c) \/ RefreshToken(c) \/ RefreshAnswer(c)
        BY <2>2 DEF validateSSH, RefreshToken, RefreshAnswer
  <2>. QED  BY <2>1, <2>2 DEF LoginStep
<1>2. PICK to \in Places \ InFile : Goto(c, at[c], to)
      BY LoginApart
<1>3. at[c] # "gone" /\ to # "gone"
  <2>. USE DEF Goto, Leaves
  <2>1. CASE HandleConn(c) \/ RefreshIfStale(c) \/ Send(c) \/ Hangup(c)
        BY <1>2, <2>1 DEF HandleConn, RefreshIfStale, Send, Hangup, Connect, SocketsInv
  <2>2. CASE validateSSH(c)
        BY <1>2, <2>2 DEF validateSSH, SocketsInv
  <2>3. CASE RefreshToken(c) \/ RefreshAnswer(c)
        BY <1>2, <2>3 DEF RefreshToken, RefreshAnswer, Continue, SocketsInv
  <2>. QED  BY <2>1, <2>2, <2>3 DEF LoginStep
<1>4. kind[c] # "socket" /\ reg[c] = "no"
      BY <1>1 DEF SocketsInv, SocketPlace
<1>5. /\ at'[c] = to /\ \A d \in Client \ {c} : at'[d] = at[d]
      /\ at' \in [Client -> Places] /\ kind' = kind /\ reg' = reg
      BY <1>2 DEF Goto, SocketsInv, console
<1>. QED  BY <1>3, <1>4, <1>5 DEF SocketsInv, SocketPlace

\* Nor does a step on the files: a websocket that asks for a file stays one.
LEMMA FilePlace ==
    ASSUME SocketsInv, NEW c \in Client, FileStep(c), UNCHANGED console
    PROVE  SocketsInv' /\ \A d \in Client : at'[d] = "gone" <=> at[d] = "gone"
<1>0. at \in [Client -> Places] /\ kind \in [Client -> Kind] /\ reg' = reg
      BY DEF SocketsInv, console
<1>1. /\ at' \in [Client -> Places] /\ kind' = kind /\ \A d \in Client \ {c} : at'[d] = at[d]
      /\ \/ at'[c] = at[c]
         \/ at[c] # "gone" /\ at'[c] \in {"idle", "session", "upload", "stat", "download"}
      /\ kind[c] = "socket" /\ at[c] # "upload" => at'[c] \in {at[c], "session", "stat", "download"}
  <2>. USE DEF Goto, Request, Asks, Leave, Return, clients
  <2>0. at' \in [Client -> Places] /\ kind' = kind
        BY <1>0, FileApart
  <2>1. CASE PutFile(c) \/ Filewrite(c)
        BY <1>0, <2>0, <2>1 DEF PutFile, Filewrite
  <2>2. CASE Write(c) \/ Read(c)
        BY <1>0, <2>0, <2>2 DEF Write, Read
  <2>3. CASE UploadFails(c) \/ UploadEnds(c) \/ DownloadEnds(c)
        BY <1>0, <2>0, <2>3 DEF UploadFails, UploadEnds, DownloadEnds
  <2>4. CASE GetItem(c) \/ Fileread(c)
        BY <1>0, <2>0, <2>4 DEF GetItem, Fileread
  <2>5. CASE GetItemOpen(c)
        BY <1>0, <2>0, <2>5 DEF GetItemOpen
  <2>6. CASE Look(c) \/ CreateFolder(c) \/ DeleteItem(c) \/ Rename(c)
        BY <1>0, <2>0, <2>6 DEF Look, CreateFolder, DeleteItem, Rename, Answer
  <2>. QED  BY <2>1, <2>2, <2>3, <2>4, <2>5, <2>6 DEF FileStep
<1>. QED  BY <1>0, <1>1 DEF SocketsInv, SocketPlace

LEMMA ConsoleNext == ConsoleInv /\ [Next]_vars => ConsoleInv'
<1>. SUFFICES ASSUME ConsoleInv, [Next]_vars PROVE ConsoleInv'
     OBVIOUS
<1>0. SocketsInv
      BY DEF ConsoleInv
<1>1. ASSUME UNCHANGED <<clients, console>>
      PROVE  ConsoleInv'
  <2>1. SocketsInv'
        BY <1>0, <1>1 DEF SocketsInv, SocketPlace, clients, console
  <2>. QED  BY <1>1, <2>1, ConsoleAlone DEF clients
<1>2. CASE UNCHANGED vars
      BY <1>1, <1>2 DEF vars
<1>3. CASE (Minute \/ Expire) /\ UNCHANGED console
      BY <1>1, <1>3 DEF Minute, Expire
<1>4. ASSUME NEW c \in Client, LoginStep(c), UNCHANGED console
      PROVE  ConsoleInv'
      BY <1>0, <1>4, LoginPlace, ConsoleAlone
<1>5. ASSUME NEW c \in Client, FileStep(c), UNCHANGED console
      PROVE  ConsoleInv'
      BY <1>0, <1>5, FilePlace, ConsoleAlone
<1>6. ASSUME NEW c \in Client, SocketStep(c)
      PROVE  ConsoleInv'
      BY <1>6, ConsoleOpen, ConsoleRead, ConsoleRegister, ConsoleClose DEF SocketStep
<1>7. ASSUME NEW l \in Line, LineStep(l)
      PROVE  ConsoleInv'
      BY <1>7, ConsoleDisplay, ConsoleLock, ConsoleMessage, ConsoleDrop, ConsoleUnlock DEF LineStep
<1>. QED  BY <1>2, <1>3, <1>4, <1>5, <1>6, <1>7 DEF Next

(* A websocket that stays open gets every line, in the buffer or on its own  *)
(* (but for those sent between its two): whatever registers, closes and is   *)
(* removed meanwhile, unless its registration, or the line while it is sent, *)
(* meets another change of the slice.                                        *)
THEOREM HeardCorrect == Spec => []Heard
<1>1. ConsoleInv => Heard
      BY DEF ConsoleInv, Told, Heard, In, Knows
<1>. QED  BY <1>1, ConsoleStart, ConsoleNext, PTL DEF Spec, Init

(* The state of a server's clients, their token, their files and the console *)
(* has its type.                                                             *)
THEOREM TypeCorrect == Spec => []TypeOK
<1>1. TokenInv /\ FilesInv /\ ConsoleInv => TypeOK
      BY DEF TokenInv, FilesInv, FilesTyped, ConsoleInv, TypeOK, Places
<1>. QED  BY <1>1, TokenStart, TokenNext, FilesStart, FilesNext, ConsoleStart, ConsoleNext, PTL DEF Spec, Init
=============================================================================
