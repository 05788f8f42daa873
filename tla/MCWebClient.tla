----------------------------- MODULE MCWebClient -----------------------------
(***************************************************************************)
(* Instance of WebClient for TLC.                                          *)
(***************************************************************************)
EXTENDS WebClient, TLC

\* Users and slots are interchangeable, the requests of a load are not: one is Stats.
Alike == Permutations(Users) \cup Permutations(Slots)

\* The access tokens that somebody may still use.
Used ==
  {tokens, refresh.pair} \cup logins
    \cup {t \in {socket.pair} : socket.at = "connecting"}
    \cup UNION {{jobs[s][p].pair : p \in {q \in DOMAIN jobs[s] : jobs[s][q].at = "sent"}} :
                  s \in Slots}

\* The server looks at the token of a socket when it connects, and then only at
\* whose it is.
SocketOf == IF socket.at = "open" THEN <<issued[socket.pair]>> ELSE <<socket>>

\* After a failed load nothing has to be current before another load, which
\* replaces what the page shows: then it matters whose the lists are, and not their
\* versions.
AnswerOf(r) == IF "user" \in DOMAIN r THEN <<r.user>> ELSE <<r>>
LoadsOf ==
  IF missed
  THEN [s \in Slots |-> <<{<<p, AnswerOf(jobs[s][p])>> : p \in DOMAIN jobs[s]},
                          s \in Loading /\ since[s] = data>>]
  ELSE <<jobs, [s \in Loading |-> since[s]], due, lists>>

\* States that differ only in what no step and no property looks at are one.
Relevant ==
  <<Len(issued), {<<n, issued[n]>> : n \in Used \ {0}}, fresh \cap Used,
    live \cap ({tokens, refresh.pair} \cup logins), data, signIn, refresh,
    LoadsOf, [p \in Parts |-> lists[p].user], SocketOf, closing, timers, inbox,
    leftover, excuse, missed, hasty>>

\* The requests of this tab that have not been answered.
Pending ==
  {<<s, p>> \in Slots \X (Parts \cup {"put"}) :
     p \in DOMAIN jobs[s] /\ jobs[s][p].at # "done"}

\* Once work of an earlier sign-in is left over, or a sign-in came before the
\* last socket had closed, the properties promise nothing: no need to go on.  Bound:
\* two requests and logouts unanswered.
Orderly ==
  ~leftover /\ ~hasty /\ Cardinality(Pending) + leaving <= 2
==============================================================================
