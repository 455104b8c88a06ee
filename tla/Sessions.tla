------------------------------ MODULE Sessions ------------------------------
(***************************************************************************)
(* What the daemon serves to the clients of one server: SFTP sessions,     *)
(* which log in with the daemon's token and then work on the files, HTTP   *)
(* requests and websockets on the same files, and the console that the     *)
(* websockets listen to.                                                   *)
(***************************************************************************)
EXTENDS DaemonToken, ServerFiles, Console

vars == <<clients, auth, files, console>>

Init == ClientsInit /\ TokenInit /\ FilesInit /\ ConsoleInit

Next == \/ (Minute \/ Expire \/ \E c \in Client : LoginStep(c)) /\ UNCHANGED <<files, console>>
        \/ (\E c \in Client : FileStep(c)) /\ UNCHANGED <<auth, console>>
        \/ ((\E c \in Client : SocketStep(c)) \/ \E l \in Line : LineStep(l)) /\ UNCHANGED <<auth, files>>

Spec == Init /\ [][Next]_vars

\* Every part of the state has its type.
TypeOK == /\ at \in [Client -> {"idle", "session", "unread", "gone", "stale", "refresh", "asking",
                                "send", "asked", "upload", "stat", "download"}]
          /\ kind \in [Client -> Kind]
          /\ TokenTypeOK /\ FilesTypeOK /\ ConsoleTypeOK
=============================================================================
