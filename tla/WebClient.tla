------------------------------ MODULE WebClient ------------------------------
(***************************************************************************)
(* The browser's side (frontend/app.js): one tab, from page load to page   *)
(* load.  It keeps a pair of tokens and the signed-in user, loads the      *)
(* dashboard with parallel requests, refreshes the tokens when a request   *)
(* is refused, and keeps a WebSocket whose events make it load again.      *)
(*                                                                         *)
(* Pair n is access token n and refresh token n; 0 is "no token".  The     *)
(* local storage always equals tokens and user.  Every request goes its    *)
(* way alone: it is answered, its answer arrives, and anything of the tab  *)
(* happens in between.  An answer that changes nothing until others have   *)
(* arrived too (a list before the last of its load) arrives at once.       *)
(* JavaScript runs a handler to its next await without interruption: that  *)
(* is one action here.                                                     *)
(*                                                                         *)
(* The server is what the tab sees of it: Sessions and Hub have its        *)
(* details.  The data go by a version, the number of changes so far.        *)
(***************************************************************************)
EXTENDS Naturals, Sequences, FiniteSets

CONSTANTS Users, NoUser,
          Parts,      \* the requests that a load of the dashboard sends
          Stats,      \* the one of them for state.stats
          Slots,      \* bound: loads and changes of this tab in flight
          MaxLogouts, \* bound: logouts that wait for their answers
          MaxPairs,   \* bound: token pairs issued
          MaxChanges  \* bound: changes of the data

ASSUME UserAssumption == NoUser \notin Users
ASSUME PartAssumption == Stats \in Parts /\ "put" \notin Parts
ASSUME BoundAssumption == MaxLogouts \in Nat /\ MaxPairs \in Nat /\ MaxChanges \in Nat

VARIABLES
  issued,    \* server: the owner of each token pair
  live,      \* server: refresh tokens that are stored, not revoked, not expired
  fresh,     \* server: access tokens that have not expired
  data,      \* server: how many changes were made
  user,      \* state.user
  tokens,    \* state.accessToken and state.refreshToken
  shown,     \* the page shows the dashboard, else the login form
  refresh,   \* state.refreshInFlight and what became of it
  logins,    \* token pairs whose login has not been answered yet
  leaving,   \* how many logouts wait for their answers
  jobs,      \* jobs[s]: the requests of a load, or of a change, in flight
  lists,     \* lists[p]: what part p of the dashboard shows
  socket,    \* state.ws
  closing,   \* other sockets whose onclose is still to come
  timers,    \* reconnects that are scheduled
  inbox,     \* events on their way to the socket
  leftover,  \* history: work of an earlier sign-in outlived it
  excuse,    \* history: there is a reason for being signed out
  due,       \* history: the version when the tab last had to load
  since,     \* history: since[s], the version when load s started
  missed,    \* history: a load failed since then, or an older one was in flight
  hasty      \* history: somebody signed in while sockets or timers were left

server == <<issued, live, fresh, data>>
sockets == <<socket, closing, timers, inbox>>
signIn == <<user, tokens, shown, logins, leaving>>
history == <<leftover, excuse, due, since, missed, hasty>>
vars == <<server, signIn, refresh, jobs, lists, sockets, history>>

NoRefresh == [at |-> "none", pair |-> 0]
NoSocket == [at |-> "none", pair |-> 0]
NoList == [user |-> NoUser, version |-> 0]

\* isAuthed of renderAuthState, which runs when the user is set and when a load
\* has landed, and not when tokens are.
Authed == user # NoUser /\ tokens # 0

One(b) == IF b THEN 1 ELSE 0

------------------------------------------------------------------------------
(* Requests                                                                 *)

Sent(n, retry) == [at |-> "sent", pair |-> n, retry |-> retry]
Failed == [at |-> "failed"]

\* A load, or a change, is over when its last request has failed or been
\* answered and one of them failed.
Settle(job) ==
  IF /\ \A p \in DOMAIN job : job[p].at \in {"done", "failed"}
     /\ \E p \in DOMAIN job : job[p].at = "failed"
  THEN << >> ELSE job

Become(s, p, r) == [jobs EXCEPT ![s] = Settle([@ EXCEPT ![p] = r])]

Flying == {s \in Slots : jobs[s] # << >>}
Loading == {s \in Flying : DOMAIN jobs[s] = Parts}

\* loadDashboard with access token n.
Load(s, n) ==
  /\ jobs' = [jobs EXCEPT ![s] = [p \in Parts |-> Sent(n, TRUE)]]
  /\ due' = data
  /\ since' = [since EXCEPT ![s] = data]
  /\ missed' = (\E x \in Loading \ {s} : since[x] < data)

\* connectWebSocket with access token n.
Connect(n) ==
  /\ socket' = [at |-> "connecting", pair |-> n]
  /\ closing' = closing + One(socket.at # "none")
  /\ inbox' = 0

\* Mutant: what was loaded stays on the page.
ClearKeepsLists ==
  /\ user' = NoUser /\ tokens' = 0 /\ shown' = FALSE
  /\ socket' = NoSocket
  /\ closing' = closing + One(socket.at # "none")
  /\ inbox' = 0 /\ due' = 0
  /\ UNCHANGED <<lists, timers>>

\* logout, after the call to the server.  It does not reset state.stats.
Clear ==
  /\ user' = NoUser /\ tokens' = 0 /\ shown' = FALSE
  /\ lists' = [p \in Parts |-> IF p = Stats THEN lists[p] ELSE NoList]
  /\ socket' = NoSocket
  /\ closing' = closing + One(socket.at # "none")
  /\ inbox' = 0 /\ due' = 0
  /\ UNCHANGED timers

\* A change of what u sees, and the events of it that reach u's open socket: two
\* of an update of a collection, one of a trade that the other user has made or
\* answered, none of u's own trade or answer and of a notification marked read.
Change(u) ==
  /\ data < MaxChanges
  /\ data' = data + 1
  /\ IF socket.at = "open" /\ issued[socket.pair] = u
     THEN \E events \in 0 .. 2 : inbox' = inbox + events
     ELSE UNCHANGED inbox

------------------------------------------------------------------------------
(* Signing in and out                                                       *)

\* The server makes a new pair for u.
Issue(u) ==
  /\ Len(issued) < MaxPairs
  /\ issued' = Append(issued, u)
  /\ fresh' = fresh \cup {Len(issued')}

\* login and register: the call to the server succeeds.  (Bound: one at a time.)
Login(u) ==
  /\ ~shown /\ logins = {}
  /\ Issue(u)
  /\ live' = live \cup {Len(issued')}
  /\ logins' = logins \cup {Len(issued')}
  /\ UNCHANGED <<data, user, tokens, shown, leaving, refresh, jobs, lists, sockets,
                 history>>

\* setUser, which renders before setTokens; connectWebSocket, and the first load,
\* which shows the dashboard when it lands.
LoginDone(n, s) ==
  /\ n \in logins /\ s \notin Flying
  /\ logins' = logins \ {n}
  /\ user' = issued[n] /\ tokens' = n
  /\ shown' = (tokens # 0)
  /\ Connect(n)
  /\ Load(s, n)
  /\ excuse' = FALSE
  /\ leftover' = (leftover \/ user # NoUser)
  /\ hasty' = (hasty \/ socket.at # "none" \/ closing + timers > 0)
  /\ UNCHANGED <<server, leaving, refresh, lists, timers>>

\* The user clicks on logout, maybe once more before the answer comes.  The server
\* revokes the token, unless the call fails.
Logout ==
  /\ shown /\ leaving < MaxLogouts
  /\ leaving' = leaving + 1
  /\ live' \in {live, live \ {tokens}}
  /\ excuse' = TRUE
  /\ UNCHANGED <<issued, fresh, data, user, tokens, shown, logins, refresh, jobs, lists,
                 sockets, leftover, due, since, missed, hasty>>

\* Mutant: a refresh in flight is forgotten.
LogoutDoneForgets ==
  /\ leaving > 0
  /\ Clear
  /\ leaving' = leaving - 1
  /\ refresh' = NoRefresh
  /\ excuse' = TRUE
  /\ leftover' = (leaving' > 0 \/ Flying # {} \/ logins # {})
  /\ UNCHANGED <<server, logins, jobs, since, missed, hasty>>

\* The call has returned, or failed: what is in flight goes on, another logout too,
\* whose answer then signs out whoever has signed in.
LogoutDone ==
  /\ leaving > 0
  /\ Clear
  /\ leaving' = leaving - 1
  /\ excuse' = TRUE
  /\ leftover' = (leaving' > 0 \/ Flying # {} \/ logins # {} \/ refresh # NoRefresh)
  /\ UNCHANGED <<server, logins, refresh, jobs, since, missed, hasty>>

------------------------------------------------------------------------------
(* Requests on their way, and the refresh of the tokens                     *)

\* A list of the dashboard is answered.
ServeList(s, p) ==
  LET r == jobs[s][p] IN
  /\ p # "put" /\ r.at = "sent" /\ r.pair \in fresh
  /\ jobs' = Become(s, p, [at |-> "done", user |-> issued[r.pair],
                           version |-> data])
  /\ UNCHANGED <<server, signIn, refresh, lists, sockets, history>>

\* A change is made; its answer arrives or is lost.
ServePut(s, p) ==
  LET r == jobs[s][p] IN
  /\ p = "put" /\ r.at = "sent" /\ r.pair \in fresh
  /\ Change(issued[r.pair])
  /\ \E answer \in {[at |-> "done"], Failed} : jobs' = Become(s, p, answer)
  /\ UNCHANGED <<issued, live, fresh, signIn, refresh, lists, socket, closing, timers,
                 history>>

\* The access token has expired.  A request that was sent again is not sent a
\* third time.
Refuse(s, p) ==
  LET r == jobs[s][p] IN
  /\ r.at = "sent" /\ r.pair \notin fresh
  /\ jobs' = Become(s, p, IF r.retry THEN [at |-> "refused", pair |-> r.pair] ELSE Failed)
  /\ missed' = (missed \/ ~r.retry)
  /\ UNCHANGED <<server, signIn, refresh, lists, sockets, leftover, excuse, due, since, hasty>>

\* A request fails, before or after it has reached the server.
Fail(s, p) ==
  /\ jobs[s][p].at = "sent"
  /\ jobs' = Become(s, p, Failed)
  /\ missed' = TRUE
  /\ UNCHANGED <<server, signIn, refresh, lists, sockets, leftover, excuse, due, since, hasty>>

\* Mutant: the refresh uses the token of the time when the request was sent.
RetryStale(s, p) ==
  /\ jobs[s][p].at = "refused"
  /\ IF tokens = 0
     THEN /\ jobs' = Become(s, p, Failed)
          /\ missed' = TRUE
          /\ UNCHANGED refresh
     ELSE /\ jobs' = Become(s, p, [at |-> "waiting"])
          /\ refresh' = IF refresh = NoRefresh
                        THEN [at |-> "sent", pair |-> jobs[s][p].pair] ELSE refresh
          /\ UNCHANGED missed
  /\ UNCHANGED <<server, signIn, lists, sockets, leftover, excuse, due, since, hasty>>

\* The 401 arrives: the request waits for the refresh that is in flight, or
\* starts one.
Retry(s, p) ==
  /\ jobs[s][p].at = "refused"
  /\ IF tokens = 0
     THEN /\ jobs' = Become(s, p, Failed)
          /\ missed' = TRUE
          /\ UNCHANGED refresh
     ELSE /\ jobs' = Become(s, p, [at |-> "waiting"])
          /\ refresh' = IF refresh = NoRefresh
                        THEN [at |-> "sent", pair |-> tokens] ELSE refresh
          /\ UNCHANGED missed
  /\ UNCHANGED <<server, signIn, lists, sockets, leftover, excuse, due, since, hasty>>

\* The server replaces the pair; the answer arrives or is lost.
Rotate ==
  /\ refresh.at = "sent" /\ refresh.pair \in live
  /\ Issue(issued[refresh.pair])
  /\ live' = (live \ {refresh.pair}) \cup {Len(issued')}
  /\ \/ /\ refresh' = [at |-> "rotated", pair |-> Len(issued')]
        /\ UNCHANGED excuse
     \/ /\ refresh' = [at |-> "failed", pair |-> 0]
        /\ excuse' = TRUE
  /\ UNCHANGED <<data, signIn, jobs, lists, sockets, leftover, due, since, missed, hasty>>

\* The server refuses a token that is not live; or the call fails.
RefuseRefresh ==
  /\ refresh.at = "sent"
  /\ refresh' = [at |-> "failed", pair |-> 0]
  /\ excuse' \in {excuse, TRUE}
  /\ refresh.pair \in live => excuse'
  /\ UNCHANGED <<server, signIn, jobs, lists, sockets, leftover, due, since, missed, hasty>>

\* What becomes of the requests that waited for the refresh.
Awoken(r) ==
  [s \in Slots |->
     Settle([p \in DOMAIN jobs[s] |-> IF jobs[s][p].at = "waiting" THEN r ELSE jobs[s][p]])]

\* The tokens are stored and the requests that waited are sent again.
Refreshed ==
  /\ refresh.at = "rotated"
  /\ tokens' = refresh.pair
  /\ jobs' = Awoken(Sent(refresh.pair, FALSE))
  /\ refresh' = NoRefresh
  /\ UNCHANGED <<server, user, shown, logins, leaving, lists, sockets, history>>

\* logout(false), and the requests that waited fail.  (The refresh of an earlier
\* sign-in that fails late signs out the next one.)
RefreshFailed ==
  /\ refresh.at = "failed"
  /\ Clear
  /\ jobs' = Awoken(Failed)
  /\ refresh' = NoRefresh
  /\ excuse' = (excuse \/ leftover)
  /\ leftover' = (logins # {} \/ leaving > 0 \/ \E s \in Slots : jobs'[s] # << >>)
  /\ missed' = TRUE
  /\ UNCHANGED <<server, logins, leaving, since, hasty>>

\* The last part of a load arrives: all lists are replaced and rendered.
Land(s) ==
  /\ s \in Loading
  /\ \A p \in Parts : jobs[s][p].at = "done"
  /\ lists' = [p \in Parts |-> [user |-> jobs[s][p].user, version |-> jobs[s][p].version]]
  /\ jobs' = [jobs EXCEPT ![s] = << >>]
  /\ shown' = Authed
  /\ UNCHANGED <<server, user, tokens, logins, leaving, refresh, sockets, history>>

------------------------------------------------------------------------------
(* The user and the page                                                    *)

\* updateCollection, createTrade, respondTrade, markNotificationRead: the
\* change, and a load when it has been answered.
Put(s) ==
  /\ shown /\ s \notin Flying
  /\ jobs' = [jobs EXCEPT ![s] = [p \in {"put"} |-> Sent(tokens, TRUE)]]
  /\ UNCHANGED <<server, signIn, refresh, lists, sockets, history>>

PutDone(s) ==
  /\ jobs[s] = [p \in {"put"} |-> [at |-> "done"]]
  /\ Load(s, tokens)
  /\ UNCHANGED <<server, signIn, refresh, lists, sockets, leftover, excuse, hasty>>

\* The reload button of the dashboard.
ReloadButton(s) ==
  /\ shown /\ s \notin Flying
  /\ Load(s, tokens)
  /\ UNCHANGED <<server, signIn, refresh, lists, sockets, leftover, excuse, hasty>>

\* The page is loaded anew: user and tokens come from the local storage, and
\* whatever was in flight is lost, a refresh before or after it was served.
ReloadPage ==
  /\ user # NoUser \/ leftover
  /\ refresh' = NoRefresh /\ logins' = {} /\ leaving' = 0 /\ shown' = Authed
  /\ live' \in {live, live \ {refresh.pair}}
  /\ excuse' = (excuse \/ refresh # NoRefresh)
  /\ lists' = [p \in Parts |-> NoList]
  /\ closing' = 0 /\ timers' = 0 /\ inbox' = 0 /\ hasty' = FALSE
  /\ \E s \in Slots :
       IF Authed
       THEN /\ jobs' = [x \in Slots |-> IF x = s THEN [p \in Parts |-> Sent(tokens, TRUE)]
                                        ELSE << >>]
            /\ socket' = [at |-> "connecting", pair |-> tokens]
            /\ due' = data /\ since' = [since EXCEPT ![s] = data] /\ missed' = FALSE
       ELSE /\ jobs' = [x \in Slots |-> << >>]
            /\ socket' = NoSocket
            /\ due' = 0 /\ UNCHANGED <<since, missed>>
  /\ UNCHANGED <<issued, fresh, data, user, tokens, leftover>>

------------------------------------------------------------------------------
(* The socket                                                               *)

\* The server tests the access token when a socket connects, and only then.
Open ==
  /\ socket.at = "connecting" /\ socket.pair \in fresh
  /\ socket' = [socket EXCEPT !.at = "open"]
  /\ UNCHANGED <<server, signIn, refresh, jobs, lists, closing, timers, inbox, history>>

\* Mutant: onerror schedules a reconnect as well.
SocketClosesTwice ==
  /\ socket.at # "none"
  /\ socket' = NoSocket /\ inbox' = 0
  /\ timers' = timers + 2 * One(tokens # 0)
  /\ UNCHANGED <<server, signIn, refresh, jobs, lists, closing, history>>

\* onclose of the current socket, which was refused, cut or evicted.
SocketCloses ==
  /\ socket.at # "none"
  /\ socket' = NoSocket /\ inbox' = 0
  /\ timers' = timers + One(tokens # 0)
  /\ UNCHANGED <<server, signIn, refresh, jobs, lists, closing, history>>

\* onclose of a socket that the tab closed itself.  It is the same handler.
OldSocketCloses ==
  /\ closing > 0
  /\ closing' = closing - 1
  /\ timers' = timers + One(tokens # 0)
  /\ UNCHANGED <<server, signIn, refresh, jobs, lists, socket, inbox, history>>

\* Two seconds later: connectWebSocket, if there is a token.
Reconnect ==
  /\ timers > 0
  /\ timers' = timers - 1
  /\ IF tokens = 0 THEN UNCHANGED <<socket, closing, inbox>> ELSE Connect(tokens)
  /\ UNCHANGED <<server, signIn, refresh, jobs, lists, history>>

\* Mutant: an event is dropped while a load is in flight.
OnMessageUnlessLoading(s) ==
  /\ inbox > 0
  /\ inbox' = inbox - 1
  /\ IF Loading = {}
     THEN /\ s \notin Flying
          /\ Load(s, tokens)
     ELSE /\ due' = data
          /\ UNCHANGED <<jobs, since, missed>>
  /\ UNCHANGED <<server, signIn, refresh, lists, socket, closing, timers, leftover, excuse,
                 hasty>>

\* An event arrives: every event starts a load of its own.
OnMessage(s) ==
  /\ inbox > 0 /\ s \notin Flying
  /\ inbox' = inbox - 1
  /\ Load(s, tokens)
  /\ UNCHANGED <<server, signIn, refresh, lists, socket, closing, timers, leftover, excuse,
                 hasty>>

------------------------------------------------------------------------------
(* The rest of the world                                                    *)

\* Another tab of u, or another user's trade, changes what u sees.
Elsewhere(u) ==
  /\ Change(u)
  /\ UNCHANGED <<issued, live, fresh, signIn, refresh, jobs, lists, socket, closing,
                 timers, history>>

\* The access token of the tab expires.
AccessExpires ==
  /\ tokens \in fresh
  /\ fresh' = fresh \ {tokens}
  /\ UNCHANGED <<issued, live, data, signIn, refresh, jobs, lists, sockets, history>>

\* The refresh token of the tab expires.
RefreshExpires ==
  /\ tokens \in live
  /\ live' = live \ {tokens}
  /\ excuse' = TRUE
  /\ UNCHANGED <<issued, fresh, data, signIn, refresh, jobs, lists, sockets, leftover, due,
                 since, missed, hasty>>

------------------------------------------------------------------------------
Init ==
  /\ issued = << >> /\ live = {} /\ fresh = {} /\ data = 0
  /\ user = NoUser /\ tokens = 0 /\ shown = FALSE /\ logins = {} /\ leaving = 0
  /\ refresh = NoRefresh
  /\ jobs = [s \in Slots |-> << >>]
  /\ lists = [p \in Parts |-> NoList]
  /\ socket = NoSocket /\ closing = 0 /\ timers = 0 /\ inbox = 0
  /\ leftover = FALSE /\ excuse = TRUE /\ hasty = FALSE
  /\ due = 0 /\ since = [s \in Slots |-> 0] /\ missed = FALSE

Requests ==
  \/ \E s \in Slots :
       \/ \E p \in DOMAIN jobs[s] : \/ ServeList(s, p) \/ ServePut(s, p)
                                    \/ Refuse(s, p) \/ Fail(s, p) \/ Retry(s, p)
       \/ Land(s) \/ Put(s) \/ PutDone(s) \/ ReloadButton(s)
  \/ Rotate \/ RefuseRefresh \/ Refreshed \/ RefreshFailed

Next ==
  \/ \E u \in Users : Login(u) \/ Elsewhere(u)
  \/ \E n \in logins, s \in Slots : LoginDone(n, s)
  \/ Logout \/ LogoutDone \/ ReloadPage
  \/ Requests
  \/ Open \/ SocketCloses \/ OldSocketCloses \/ Reconnect \/ \E s \in Slots : OnMessage(s)
  \/ AccessExpires \/ RefreshExpires

Spec == Init /\ [][Next]_vars
------------------------------------------------------------------------------
Request ==
  [at : {"sent"}, pair : 0 .. MaxPairs, retry : BOOLEAN]
    \cup [at : {"refused"}, pair : 0 .. MaxPairs]
    \cup [at : {"waiting", "failed", "done"}]
    \cup [at : {"done"}, user : Users, version : 0 .. MaxChanges]

\* The state's types; a request waits only while a refresh is in flight, for
\* nothing else would wake it.
TypeOK ==
  /\ issued \in Seq(Users) /\ Len(issued) <= MaxPairs
  /\ live \cup fresh \cup logins \subseteq DOMAIN issued
  /\ data \in 0 .. MaxChanges
  /\ user \in Users \cup {NoUser} /\ tokens \in 0 .. Len(issued)
  /\ refresh \in [at : {"none", "sent", "rotated", "failed"}, pair : 0 .. Len(issued)]
  /\ \A s \in Slots : /\ DOMAIN jobs[s] \in {{}, {"put"}, Parts}
                      /\ \A p \in DOMAIN jobs[s] : jobs[s][p] \in Request
  /\ \A s \in Slots : \A p \in DOMAIN jobs[s] :
       jobs[s][p].at = "waiting" => refresh # NoRefresh
  /\ lists \in [Parts -> [user : Users \cup {NoUser}, version : 0 .. MaxChanges]]
  /\ socket \in [at : {"none", "connecting", "open"}, pair : 0 .. Len(issued)]
  /\ {leaving, closing, timers, inbox, due} \subseteq Nat /\ since \in [Slots -> 0 .. MaxChanges]
  /\ {shown, leftover, excuse, missed, hasty} \subseteq BOOLEAN

\* Whoever is signed in acts with their own tokens, and the dashboard never shows
\* what another user was sent.  Of a user who has signed out only the statistics
\* are kept, which logout does not reset: the next user's first load replaces them
\* before the dashboard is shown.  Unless requests were still in flight when a
\* sign-in ended (app.js does not tell whose answers they are when they arrive).
WhatIsShownFits ==
  leftover \/
    /\ (user = NoUser) = (tokens = 0)
    /\ tokens # 0 => issued[tokens] = user
    /\ \A p \in Parts : p # Stats \/ shown => lists[p].user \in {user, NoUser}

\* The rotation of tokens signs nobody out, however many requests are refused,
\* in whatever order the answers arrive: only a logout, an expired refresh
\* token or a refresh that failed or was cut off does.
SignedOutForAReason == user = NoUser => excuse \/ leftover

\* When nothing is in flight any more, whoever is signed in sees the dashboard and
\* not the login form, and the dashboard has at least what there was when the last
\* event arrived (or change was answered), however many events there were: unless
\* a load has failed since, or one that had started before that change was still
\* in flight (it may land last).
LoadsAreNotLost ==
  Flying = {} /\ inbox = 0 /\ ~missed /\ ~leftover =>
    /\ shown = Authed
    /\ \A p \in Parts : lists[p].version >= due

\* A signed-in tab has exactly one socket or one reconnect to come, and a tab
\* that is signed out at most one, unless somebody signed in before the last
\* socket had closed: then each socket's end replaces the other, for ever.
SocketOrTimer ==
  LET count == One(socket.at # "none") + closing + timers IN
  hasty \/ leftover \/ (IF user = NoUser THEN count <= 1 ELSE count = 1)
==============================================================================
