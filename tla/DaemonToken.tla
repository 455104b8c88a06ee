---------------------------- MODULE DaemonToken ----------------------------
(***************************************************************************)
(* The daemon's own token (oauth2/shared.go) and the login of an SFTP      *)
(* session (oauth2/ssh.go, sftp/server.go), which sends that token to the  *)
(* panel along with the user's password.                                   *)
(*                                                                         *)
(* expires_in is a number of seconds decoded as nanoseconds, so the token  *)
(* counts as stale as soon as it has been had; what limits the requests is *)
(* the minute that RefreshToken leaves between two of them.                *)
(***************************************************************************)
EXTENDS Clients

VARIABLES token,    \* daemonToken: what the panel thinks of it
          recent,   \* lastRefresh is less than a minute ago
          lock,     \* who holds atLocker across its request
          login     \* what each validateSSH holds

auth == <<token, recent, lock, login>>

Token == {"none", "dead", "good"}
NoLogin == [sent |-> "none", recurse |-> TRUE, retry |-> FALSE]

TokenInit == token = "none" /\ recent = FALSE /\ lock = None /\ login = [c \in Client |-> NoLogin]

\* handleConn accepts; NewServerConn calls the PasswordCallback.
HandleConn(c) ==
    /\ Connect(c, "sftp", "stale")
    /\ UNCHANGED auth

\* The read lock is had once nobody refreshes.
RefreshIfStale(c) ==
    /\ lock = None
    /\ Goto(c, "stale", "refresh") \/ (recent /\ Goto(c, "stale", "send"))
    /\ UNCHANGED auth

\* The login is decided.
Leaves(c, from, to) == Goto(c, from, to) /\ login' = [login EXCEPT ![c] = NoLogin]

\* Where RefreshToken returns to: RefreshIfStale ignores what it says, and
\* after a 401 TRUE is a second and last attempt.
Continue(c, ok) ==
    IF ~login[c].retry THEN Goto(c, at[c], "send") /\ UNCHANGED login
    ELSE IF ok THEN /\ Goto(c, at[c], "stale")
                    /\ login' = [login EXCEPT ![c] = [NoLogin EXCEPT !.recurse = FALSE]]
    ELSE Leaves(c, at[c], "idle")

\* Mutant: the last refresh is not looked at again once the lock is had.
RefreshUnchecked(c) ==
    /\ at[c] = "refresh" /\ lock = None
    /\ Goto(c, "refresh", "asking") /\ lock' = c /\ UNCHANGED login
    /\ UNCHANGED <<token, recent>>

RefreshToken(c) ==
    /\ at[c] = "refresh" /\ lock = None
    /\ \/ recent /\ Continue(c, FALSE) /\ UNCHANGED lock
       \/ ~recent /\ Goto(c, "refresh", "asking") /\ lock' = c /\ UNCHANGED login
    /\ UNCHANGED <<token, recent>>

\* Mutant: an error returns without the lock being given back.
RefreshAnswerKeepsLock(c) ==
    /\ at[c] = "asking"
    /\ \/ Continue(c, FALSE) /\ UNCHANGED <<token, recent, lock>>
       \/ /\ Continue(c, TRUE)
          /\ token' \in {"good", "none"}
          /\ recent' = TRUE
          /\ lock' = None

\* No answer or an error is FALSE.  An answer that cannot be decoded is not
\* told apart from a token: it is the empty one.
RefreshAnswer(c) ==
    /\ at[c] = "asking"
    /\ lock' = None
    /\ \/ Continue(c, FALSE) /\ UNCHANGED <<token, recent>>
       \/ /\ Continue(c, TRUE)
          /\ token' \in {"good", "none"}
          /\ recent' = TRUE

Send(c) ==
    /\ lock = None
    /\ Goto(c, "send", "asked")
    /\ login' = [login EXCEPT ![c].sent = token]
    /\ UNCHANGED <<token, recent, lock>>

\* 200 with a scope is a session; a wrong password, any other answer or none
\* is a refusal.  401 is taken to be about the token, which is refreshed, once.
validateSSH(c) ==
    /\ \/ Leaves(c, "asked", "idle")
       \/ login[c].sent = "good" /\ Leaves(c, "asked", "session")
       \/ /\ login[c].recurse
          /\ Goto(c, "asked", "refresh")
          /\ login' = [login EXCEPT ![c].retry = TRUE]
    /\ UNCHANGED <<token, recent, lock>>

\* The session ends, whatever the requests it had open.
Hangup(c) == kind[c] = "sftp" /\ Goto(c, "session", "idle") /\ UNCHANGED auth

\* A minute goes by.
Minute == recent /\ recent' = FALSE /\ UNCHANGED <<clients, token, lock, login>>

\* The panel does not accept its tokens any longer.
Expire ==
    /\ token' = IF token = "good" THEN "dead" ELSE token
    /\ login' = [c \in Client |-> [login[c] EXCEPT !.sent = IF @ = "good" THEN "dead" ELSE @]]
    /\ <<token, login>>' # <<token, login>>
    /\ UNCHANGED <<clients, recent, lock>>

LoginStep(c) == \/ HandleConn(c) \/ RefreshIfStale(c) \/ RefreshToken(c) \/ RefreshAnswer(c)
                \/ Send(c) \/ validateSSH(c) \/ Hangup(c)

-----------------------------------------------------------------------------
TokenTypeOK ==
    /\ token \in Token /\ recent \in BOOLEAN
    /\ lock \in {None} \cup {c \in Client : at[c] = "asking"}
    /\ login \in [Client -> [sent : Token, recurse : BOOLEAN, retry : BOOLEAN]]

(* However many logins find the token stale or refused at once, the panel  *)
(* is asked for a new one only when the last is a minute old: shared.go:44 *)
(* looks again under the lock.                                             *)
RefreshesApart == \A c \in Client : at[c] = "asking" => ~recent
=============================================================================
