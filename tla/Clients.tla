------------------------------ MODULE Clients ------------------------------
(***************************************************************************)
(* The clients of one server, as the modules of what the daemon serves     *)
(* share them.  A client has one connection at a time, and all of its      *)
(* connections are of one kind: SFTP sessions, HTTP requests or websockets.*)
(***************************************************************************)
CONSTANTS Client, None,
          Scenes    \* bound: the kinds of connection there are at once

VARIABLES at,       \* where the goroutine of each client's connection is
          kind      \* what its connections are

clients == <<at, kind>>
Kind == {"sftp", "http", "socket"}

ASSUME ClientsAssumption == Scenes \subseteq SUBSET Kind /\ None \notin Client

ClientsInit == /\ at = [c \in Client |-> "idle"]
               /\ kind \in {k \in [Client -> Kind] : {k[c] : c \in Client} \in Scenes}

Goto(c, from, to) == at[c] = from /\ at' = [at EXCEPT ![c] = to] /\ UNCHANGED kind

\* A connection comes in.
Connect(c, k, place) == kind[c] = k /\ Goto(c, "idle", place)

\* One operation is over: a session goes on, a request has been answered.
Return(c) == Goto(c, at[c], IF kind[c] = "http" THEN "idle" ELSE "session")
=============================================================================
