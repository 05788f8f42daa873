------------------------------ MODULE Sessions -------------------------------
(***************************************************************************)
(* Refresh tokens: internal/services/auth_service.go and the token helpers *)
(* of internal/auth/auth.go, over the table refresh_tokens.                *)
(*                                                                         *)
(* A refresh token is a JWT that names its user and carries an id made of  *)
(* the user and the clock in nanoseconds; two tokens with the same id are  *)
(* the same string, and token_hash is UNIQUE.  Replicas read different     *)
(* clocks, so any tick may come up when a token is made.                   *)
(*                                                                         *)
(* Refresh checks the stored token, revokes it and stores its successor in *)
(* three statements without a transaction: other calls come in between,    *)
(* and each statement may fail.  The answer to a call may be lost.         *)
(*                                                                         *)
(* A session is what a registration or a login starts: its first token and *)
(* the successors of that token.  It goes by the name of its first token.  *)
(* Passwords, and the checks of the input that come before any statement,  *)
(* are left out; access tokens are not stored anywhere.                    *)
(***************************************************************************)
EXTENDS Naturals, FiniteSets

CONSTANTS Users, Calls,
          Ticks       \* bound: the clock readings that can come up

Tokens == Users \X Ticks

VARIABLES
  accounts,    \* table users
  rows,        \* table refresh_tokens, by token
  held,        \* tokens that some browser was given
  pc, job,     \* pc[c], job[c]: the call that goroutine c serves
  loggedOut,   \* history: sessions of which Logout revoked a usable token
  outdated,    \* history: sessions of which some token expired
  broken,      \* history: sessions whose next token did not reach the browser
  overlapped,  \* history: sessions refreshed by two calls at a time
  ended        \* history: sessions that Logout ended with nothing in flight

history == <<loggedOut, outdated, broken, overlapped, ended>>
vars == <<accounts, rows, held, pc, job, history>>

Row == [session : Tokens, revoked : BOOLEAN, expired : BOOLEAN]

NoJob == [kind |-> "none"]

\* revoked_at IS NULL AND expires_at > NOW()
Live(t) == t \in DOMAIN rows /\ ~rows[t].revoked /\ ~rows[t].expired

LiveTokens(s) == {t \in DOMAIN rows : rows[t].session = s /\ Live(t)}

\* The calls that are refreshing session s, or are about to answer with its
\* first token.
Serving(s) ==
  {c \in Calls : /\ pc[c] # "idle"
                 /\ job[c].session = s
                 /\ job[c].kind = "refresh" \/ pc[c] = "reply"}

Goto(c, label) == pc' = [pc EXCEPT ![c] = label]

Finish(c) == /\ Goto(c, "idle")
             /\ job' = [job EXCEPT ![c] = NoJob]

NewRow(t, s) ==
  [x \in DOMAIN rows \cup {t} |->
     IF x = t THEN [session |-> s, revoked |-> FALSE, expired |-> FALSE] ELSE rows[x]]

\* UPDATE refresh_tokens SET revoked_at = NOW() WHERE token_hash = t
RevokeRefreshToken(t) == rows' = [rows EXCEPT ![t].revoked = TRUE]

------------------------------------------------------------------------------
\* Register and Login make the first token of a session.  Register inserts the
\* account and stores the token in one transaction.
Start(c, u, kind) ==
  /\ pc[c] = "idle"
  /\ kind = "login" => u \in accounts
  /\ \E tick \in Ticks :
       job' = [job EXCEPT ![c] = [kind |-> kind, new |-> <<u, tick>>, session |-> <<u, tick>>]]
  /\ Goto(c, "store")
  /\ UNCHANGED <<accounts, rows, held, history>>

Refresh(c, t) ==
  /\ pc[c] = "idle"
  /\ t \in held
  /\ job' = [job EXCEPT ![c] = [kind |-> "refresh", token |-> t,
                               session |-> rows[t].session]]
  /\ Goto(c, "check")
  /\ overlapped' = IF Serving(rows[t].session) # {}
                   THEN overlapped \cup {rows[t].session} ELSE overlapped
  /\ UNCHANGED <<accounts, rows, held, loggedOut, outdated, broken, ended>>

\* Mutant: only the expiry is tested.
ValidateExpiryOnly(c) ==
  /\ pc[c] = "check"
  /\ IF ~rows[job[c].token].expired
     THEN Goto(c, "revoke") /\ UNCHANGED job
     ELSE Finish(c)
  /\ UNCHANGED <<accounts, rows, held, history>>

\* ValidateRefreshTokenStorage, and the SELECT of the user after it.
ValidateRefreshTokenStorage(c) ==
  /\ pc[c] = "check"
  /\ IF Live(job[c].token)
     THEN Goto(c, "revoke") /\ UNCHANGED job
     ELSE Finish(c)
  /\ UNCHANGED <<accounts, rows, held, history>>

\* Mutant: the old token stays valid.
RevokeNothing(c) ==
  /\ pc[c] = "revoke"
  /\ \E tick \in Ticks :
       job' = [job EXCEPT ![c] = [kind |-> "refresh", token |-> @.token,
                                  new |-> <<@.token[1], tick>>, session |-> @.session]]
  /\ Goto(c, "store")
  /\ UNCHANGED <<accounts, rows, held, history>>

\* Refresh revokes the token it was given and makes the successor.
Revoke(c) ==
  /\ pc[c] = "revoke"
  /\ RevokeRefreshToken(job[c].token)
  /\ \E tick \in Ticks :
       job' = [job EXCEPT ![c] = [kind |-> "refresh", token |-> @.token,
                                  new |-> <<@.token[1], tick>>, session |-> @.session]]
  /\ Goto(c, "store")
  /\ UNCHANGED <<accounts, held, history>>

\* Mutant: storing a token that exists brings it back.
StoreOrRenew(c) ==
  LET j == job[c] IN
  /\ pc[c] = "store"
  /\ j.kind = "register" => j.new[1] \notin accounts
  /\ accounts' = accounts \cup {j.new[1]}
  /\ rows' = NewRow(j.new, j.session)
  /\ Goto(c, "reply")
  /\ UNCHANGED <<held, job, history>>

\* execStoreRefreshToken: the INSERT fails on a token that exists, and Register
\* on an account that exists.
StoreRefreshToken(c) ==
  LET j == job[c] IN
  /\ pc[c] = "store"
  /\ j.new \notin DOMAIN rows
  /\ j.kind = "register" => j.new[1] \notin accounts
  /\ accounts' = accounts \cup {j.new[1]}
  /\ rows' = NewRow(j.new, j.session)
  /\ Goto(c, "reply")
  /\ UNCHANGED <<held, job, history>>

\* The browser gets the new token.
Reply(c) ==
  /\ pc[c] = "reply"
  /\ held' = held \cup {job[c].new}
  /\ Finish(c)
  /\ UNCHANGED <<accounts, rows, history>>

\* Mutant: every token of the user is revoked.
LogoutEverywhere(t) ==
  LET s == rows[t].session IN
  /\ t \in held
  /\ rows' = [x \in DOMAIN rows |-> [rows[x] EXCEPT !.revoked = @ \/ x[1] = t[1]]]
  /\ loggedOut' = IF Live(t) THEN loggedOut \cup {s} ELSE loggedOut
  /\ ended' = IF Serving(s) = {} /\ LiveTokens(s) \subseteq {t}
              THEN ended \cup {s} ELSE ended
  /\ UNCHANGED <<accounts, held, pc, job, outdated, broken, overlapped>>

\* Logout is one statement; a call with an unknown token changes nothing.
Logout(t) ==
  LET s == rows[t].session IN
  /\ t \in held
  /\ RevokeRefreshToken(t)
  /\ loggedOut' = IF Live(t) THEN loggedOut \cup {s} ELSE loggedOut
  /\ ended' = IF Serving(s) = {} /\ LiveTokens(s) \subseteq {t}
              THEN ended \cup {s} ELSE ended
  /\ UNCHANGED <<accounts, held, pc, job, outdated, broken, overlapped>>

\* A statement fails, the answer is lost or the process dies.
GiveUp(c) ==
  /\ pc[c] # "idle"
  /\ broken' = IF pc[c] \in {"store", "reply"} /\ c \in Serving(job[c].session)
               THEN broken \cup {job[c].session} ELSE broken
  /\ Finish(c)
  /\ UNCHANGED <<accounts, rows, held, loggedOut, outdated, overlapped, ended>>

\* refreshTokenTTL has passed.
Expire(t) ==
  /\ Live(t)
  /\ rows' = [rows EXCEPT ![t].expired = TRUE]
  /\ outdated' = outdated \cup {rows[t].session}
  /\ UNCHANGED <<accounts, held, pc, job, loggedOut, broken, overlapped, ended>>

------------------------------------------------------------------------------
Init ==
  /\ accounts = {}
  /\ rows = << >>
  /\ held = {}
  /\ pc = [c \in Calls |-> "idle"]
  /\ job = [c \in Calls |-> NoJob]
  /\ loggedOut = {} /\ outdated = {} /\ broken = {} /\ overlapped = {} /\ ended = {}

Next ==
  \/ \E c \in Calls :
       \/ \E u \in Users, kind \in {"register", "login"} : Start(c, u, kind)
       \/ \E t \in held : Refresh(c, t)
       \/ ValidateRefreshTokenStorage(c) \/ Revoke(c) \/ StoreRefreshToken(c)
       \/ Reply(c) \/ GiveUp(c)
  \/ \E t \in held : Logout(t)
  \/ \E t \in DOMAIN rows : Expire(t)

Spec == Init /\ [][Next]_vars
------------------------------------------------------------------------------
Sessions == {rows[t].session : t \in DOMAIN rows}

TypeOK ==
  /\ accounts \subseteq Users
  /\ rows \in [DOMAIN rows -> Row] /\ DOMAIN rows \subseteq Tokens
  /\ held \subseteq DOMAIN rows
  /\ pc \in [Calls -> {"idle", "check", "revoke", "store", "reply"}]
  /\ \A c \in Calls :
       CASE pc[c] = "idle" -> job[c] = NoJob
         [] pc[c] \in {"check", "revoke"} ->
              job[c] \in [kind : {"refresh"}, token : DOMAIN rows, session : Tokens]
         [] OTHER -> /\ job[c].session \in Tokens
                     /\ job[c].new \in IF pc[c] = "reply" THEN DOMAIN rows ELSE Tokens
  /\ loggedOut \cup outdated \cup broken \cup overlapped \cup ended \subseteq Tokens

\* Rotation: a session never has two usable tokens, unless two calls refresh it
\* at the same time (both pass the check before either revokes).
OneTokenPerSession ==
  \A s \in Sessions \ overlapped : Cardinality(LiveTokens(s)) <= 1

\* A logout is final: when the session's usable token is revoked while no
\* refresh of the session is in flight, the session has no usable token again.
LogoutIsFinal == \A s \in ended : LiveTokens(s) = {}

\* Nobody is logged out for nothing: a session without a usable token in some
\* browser was logged out, has expired, is being served, or lost its next token
\* to a failed statement or a lost answer.
SessionsEndForAReason ==
  \A s \in Sessions :
    \/ LiveTokens(s) \cap held # {}
    \/ s \in loggedOut \cup outdated \cup broken
    \/ Serving(s) # {}

\* A browser is never given a token that belongs to a session of another call:
\* two calls about to reply hold different tokens, which no browser has yet.
RepliesAreUnique ==
  \A c \in Calls : pc[c] = "reply" =>
    /\ job[c].new \notin held
    /\ rows[job[c].new].session = job[c].session
    /\ \A d \in Calls \ {c} : pc[d] = "reply" => job[d].new # job[c].new
==============================================================================
