------------------------------ MODULE Console ------------------------------
(***************************************************************************)
(* The console of a server: DisplayToConsole (envs/environment.go) puts a  *)
(* line into the buffer and then sends it to every websocket the manager   *)
(* (utils/websockettracker.go) holds; OpenSocket and GetConsole (routing/  *)
(* server/server.go) send the buffer and then register.  Register does not *)
(* take the lock that Write holds, so its reading of the slice and its     *)
(* storing of it are two steps.  A slice is an array and a length, and a   *)
(* removal moves what the array holds under every slice of it.             *)
(***************************************************************************)
EXTENDS Clients, Naturals, Sequences

CONSTANT Line       \* the lines displayed, each by a goroutine of its own

VARIABLES line,     \* where the display of each line is
          shown,    \* ConsoleBuffer
          locker,   \* the line whose Write holds it
          arrays,   \* what each holds: each is named after the registration
                    \* that made it, the empty one of CreateWSManager None
          sockets, next,    \* the slice, and the loop's place in it
          reg,      \* where the registration of each socket is
          old,      \* the slice as a registration, or the loop (None), has read it
          settled,  \* the lines each socket was sent, in the buffer or since; and
                    \* (history) those Write began to send between the two
          raced     \* history: the registrations, and the lines while they
                    \* were sent, that met another change of the slice

console == <<line, shown, locker, arrays, sockets, next, reg, old, settled, raced>>

ASSUME ConsoleAssumption == None \notin Line

Empty   == [array |-> None, len |-> 0]
Held(s) == SubSeq(arrays[s.array], 1, s.len)

\* Where no client has a websocket, the lines have been displayed before.
ConsoleInit ==
    /\ IF \E c \in Client : kind[c] = "socket" THEN line = [l \in Line |-> "new"] /\ shown = {}
                                             ELSE line = [l \in Line |-> "done"] /\ shown = Line
    /\ locker = None /\ sockets = Empty /\ next = 1
    /\ arrays = [a \in Client \cup {None} |-> <<>>]
    /\ reg = [c \in Client |-> "no"]
    /\ old = [c \in Client \cup {None} |-> Empty]
    /\ settled = [c \in Client |-> {}] /\ raced = {}

-----------------------------------------------------------------------------
\* Upgrade, and the buffer as it is.  OpenSocket also starts listenOnSocket,
\* GetConsole leaves the connection unread.
OpenSocket(c) ==
    /\ Connect(c, "socket", "session") \/ Connect(c, "socket", "unread")
    /\ settled' = [settled EXCEPT ![c] = shown]
    /\ reg' = [reg EXCEPT ![c] = "read"]
    /\ UNCHANGED <<line, shown, locker, arrays, sockets, next, old, raced>>

\* Those in the middle of changing the slice.
Changing == {c \in Client : reg[c] = "store"} \cup {l \in Line : line[l] = "drop"}
\* The line that is being sent.
Sending  == {l \in Line : locker = l}

\* append reads the slice...
RegisterRead(c) ==
    /\ reg[c] = "read"
    /\ reg' = [reg EXCEPT ![c] = "store"]
    /\ old' = [old EXCEPT ![c] = sockets]
    /\ raced' = IF Changing = {} THEN raced ELSE raced \cup Changing \cup Sending \cup {c}
    /\ UNCHANGED <<clients, line, shown, locker, arrays, sockets, next, settled>>

\* The array with c at place n, which may be the first that is free.
Store(array, n, c) == [i \in 1..(IF n > Len(array) THEN n ELSE Len(array)) |->
                          IF i = n THEN c ELSE array[i]]

\* ... and stores it with the socket, in an array of its own or, where there is
\* room, in the array it has read.
Register(c) ==
    /\ reg[c] = "store"
    /\ reg' = [reg EXCEPT ![c] = "in"]
    /\ \/ /\ arrays' = [arrays EXCEPT ![c] = Append(Held(old[c]), c)]
          /\ sockets' = [array |-> c, len |-> old[c].len + 1]
       \/ /\ old[c].array # None
          /\ arrays' = [arrays EXCEPT ![old[c].array] = Store(@, old[c].len + 1, c)]
          /\ sockets' = [old[c] EXCEPT !.len = @ + 1]
    /\ old' = [old EXCEPT ![c] = Empty]
    /\ UNCHANGED <<clients, line, shown, locker, next, settled, raced>>

\* The browser is gone.
Close(c) ==
    /\ kind[c] = "socket" /\ at[c] \in {"session", "unread"}
    /\ at' = [at EXCEPT ![c] = "gone"]
    /\ UNCHANGED <<kind, console>>

-----------------------------------------------------------------------------
\* DisplayToConsole: the buffer first.
Display(l) ==
    /\ line[l] = "new"
    /\ line' = [line EXCEPT ![l] = "shown"]
    /\ shown' = shown \cup {l}
    /\ UNCHANGED <<clients, locker, arrays, sockets, next, reg, old, settled, raced>>

WriteLock(l) ==
    /\ line[l] = "shown" /\ locker = None
    /\ line' = [line EXCEPT ![l] = "send"]
    /\ locker' = l /\ next' = 1
    /\ settled' = [c \in Client |-> IF reg[c] \in {"read", "store"} THEN settled[c] \cup {l}
                                                              ELSE settled[c]]
    /\ raced' = IF Changing \cap raced = {} THEN raced ELSE raced \cup {l}
    /\ UNCHANGED <<clients, shown, arrays, sockets, reg, old>>

\* A socket that is gone fails, and the removal reads the slice.
WriteMessage(l) ==
    /\ line[l] = "send" /\ next <= sockets.len
    /\ LET c == arrays[sockets.array][next] IN
       \/ /\ at[c] # "gone"
          /\ settled' = [settled EXCEPT ![c] = @ \cup {l}]
          /\ next' = next + 1
          /\ UNCHANGED <<line, old, raced>>
       \/ /\ at[c] = "gone"
          /\ line' = [line EXCEPT ![l] = "drop"]
          /\ old' = [old EXCEPT ![None] = sockets]
          /\ raced' = IF Changing = {} THEN raced ELSE raced \cup Changing \cup {l}
          /\ UNCHANGED <<settled, next>>
    /\ UNCHANGED <<clients, shown, locker, arrays, sockets, reg>>

\* The slice s without its place n: what lies behind moves up, and the array
\* still ends as it did.
RemoveSocket(s, n) ==
    /\ arrays' = [arrays EXCEPT ![s.array] =
                      [i \in DOMAIN @ |-> IF n <= i /\ i < s.len THEN @[i + 1] ELSE @[i]]]
    /\ sockets' = [s EXCEPT !.len = @ - 1]
    /\ old' = [old EXCEPT ![None] = Empty]

\* Mutant: the loop goes on behind the removed socket.
DropSkips(l) ==
    /\ line[l] = "drop"
    /\ RemoveSocket(old[None], next)
    /\ next' = next + 1
    /\ line' = [line EXCEPT ![l] = "send"]
    /\ UNCHANGED <<clients, shown, locker, reg, settled, raced>>

\* The slice without it; i-- keeps the loop at the one that took its place.
Drop(l) ==
    /\ line[l] = "drop"
    /\ RemoveSocket(old[None], next)
    /\ line' = [line EXCEPT ![l] = "send"]
    /\ UNCHANGED <<clients, shown, locker, next, reg, settled, raced>>

WriteUnlock(l) ==
    /\ line[l] = "send" /\ next > sockets.len
    /\ line' = [line EXCEPT ![l] = "done"]
    /\ locker' = None
    /\ UNCHANGED <<clients, shown, arrays, sockets, next, reg, old, settled, raced>>

SocketStep(c) == OpenSocket(c) \/ RegisterRead(c) \/ Register(c) \/ Close(c)
LineStep(l) == Display(l) \/ WriteLock(l) \/ WriteMessage(l) \/ Drop(l) \/ WriteUnlock(l)

-----------------------------------------------------------------------------
Slice == [array : Client \cup {None}, len : Nat]

ConsoleTypeOK ==
    /\ line \in [Line -> {"new", "shown", "send", "drop", "done"}]
    /\ shown \subseteq Line /\ locker \in Line \cup {None}
    /\ arrays \in [Client \cup {None} -> Seq(Client)]
    /\ sockets \in Slice /\ next \in Nat
    /\ reg \in [Client -> {"no", "read", "store", "in"}]
    /\ old \in [Client \cup {None} -> Slice]
    /\ settled \in [Client -> SUBSET Line] /\ raced \subseteq Client \cup Line
    /\ sockets.len <= Len(arrays[sockets.array])

(* An open socket has been sent every line that was displayed, in its      *)
(* first message or afterwards, except those that went to the sockets      *)
(* between the two: unless its registration, or the line while it was      *)
(* sent, met another change of the slice than its own.                     *)
Heard == \A c \in Client \ raced, l \in Line \ raced :
    reg[c] = "in" /\ at[c] # "gone" /\ line[l] = "done" => l \in settled[c]
=============================================================================
