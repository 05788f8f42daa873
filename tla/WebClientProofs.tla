--------------------------- MODULE WebClientProofs ---------------------------
(***************************************************************************)
(* The safety of the web client, for any users, requests per load, loads   *)
(* in flight, token pairs and changes, and without the bounds that TLC     *)
(* needs: also while two requests and more are unanswered, and after a     *)
(* sign-in that left work behind.                                          *)
(***************************************************************************)
EXTENDS WebClient, FunctionTheorems, SequenceTheorems, TLAPS

\* The requests of a load and of a change.  Only what a list is answered with
\* has a user and a version.
Unanswered ==
  [at : {"sent"}, pair : 0 .. MaxPairs, retry : BOOLEAN]
    \cup [at : {"refused"}, pair : 0 .. MaxPairs]
    \cup [at : {"waiting", "failed"}]
PutRequest == Unanswered \cup [at : {"done"}]
ListRequest == Unanswered \cup [at : {"done"}, user : Users, version : 0 .. MaxChanges]
Jobs == {<< >>} \cup [{"put"} -> PutRequest] \cup [Parts -> ListRequest]

Flags ==
  /\ shown \in BOOLEAN /\ leftover \in BOOLEAN
  /\ excuse \in BOOLEAN /\ missed \in BOOLEAN /\ hasty \in BOOLEAN

Typed ==
  /\ issued \in Seq(Users) /\ Len(issued) <= MaxPairs
  /\ live \subseteq 1 .. Len(issued) /\ fresh \subseteq 1 .. Len(issued)
  /\ logins \subseteq 1 .. Len(issued)
  /\ data \in 0 .. MaxChanges
  /\ user \in Users \cup {NoUser} /\ tokens \in 0 .. Len(issued)
  /\ refresh \in [at : {"none", "sent", "rotated", "failed"}, pair : 0 .. Len(issued)]
  /\ jobs \in [Slots -> Jobs]
  /\ lists \in [Parts -> [user : Users \cup {NoUser}, version : 0 .. MaxChanges]]
  /\ socket \in [at : {"none", "connecting", "open"}, pair : 0 .. Len(issued)]
  /\ closing \in Nat /\ timers \in Nat /\ inbox \in Nat /\ due \in Nat /\ leaving \in Nat
  /\ since \in [Slots -> 0 .. MaxChanges]
  /\ Flags

\* A request is sent with a pair that was issued, and waits only for a refresh.
\* The page shows the dashboard only of somebody, there is a socket only with a
\* token, and events only on an open socket.
Awaited ==
  /\ \A s \in Slots : \A p \in DOMAIN jobs[s] :
       /\ jobs[s][p].at \in {"sent", "refused"} => jobs[s][p].pair <= Len(issued)
       /\ jobs[s][p].at = "waiting" => refresh # NoRefresh
  /\ refresh.at = "none" => refresh = NoRefresh
  /\ refresh.at \in {"sent", "rotated"} => refresh.pair # 0
  /\ shown => Authed
  /\ socket.at # "none" => tokens # 0
  /\ inbox > 0 => socket.at = "open"

\* What is in flight is that of the user who is signed in, unless it outlived an
\* earlier sign-in.
Own ==
  ~leftover =>
    /\ user = NoUser <=> tokens = 0
    /\ tokens # 0 => issued[tokens] = user
    /\ \A s \in Slots : \A p \in DOMAIN jobs[s] :
         /\ jobs[s][p].at \in {"sent", "refused"} =>
              jobs[s][p].pair # 0 /\ issued[jobs[s][p].pair] = user
         /\ jobs[s][p].at = "done" /\ p # "put" => jobs[s][p].user = user
    /\ user = NoUser => Flying = {} /\ refresh = NoRefresh /\ leaving = 0
    /\ refresh.at = "sent" => refresh.pair = tokens
    /\ refresh.at = "rotated" => issued[refresh.pair] = user
    /\ \A p \in Parts : p # Stats \/ shown => lists[p].user \in {user, NoUser}

\* Without an excuse the tab holds a refresh token that is live, or will.
Holds ==
  /\ logins \subseteq live \ {tokens, refresh.pair}
  /\ excuse \/ leftover \/
       /\ user # NoUser
       /\ refresh.at # "failed"
       /\ refresh.at = "rotated" => refresh.pair \in live
       /\ refresh.at \in {"none", "sent"} /\ tokens # 0 => tokens \in live

\* Sockets, counting those that are closing and those to come.
Sockets == One(socket.at # "none") + closing + timers

OneSocket ==
  /\ hasty \/ Sockets <= 1
  /\ hasty \/ leftover \/ user = NoUser \/ Sockets = 1

\* Load s is under way and no part of it has failed.
Good(s) == DOMAIN jobs[s] = Parts /\ \A p \in Parts : jobs[s][p].at # "failed"

\* Either the page is current, or a load that will make it so is under way.
Current ==
  /\ \A s \in Slots : since[s] <= data
  /\ \A s \in Slots : DOMAIN jobs[s] = Parts =>
       /\ \A p \in Parts : jobs[s][p].at = "done" => jobs[s][p].version >= since[s]
       /\ missed \/ since[s] >= due
  /\ missed \/ leftover \/ (\E s \in Slots : Good(s))
       \/ (shown = Authed /\ \A p \in Parts : lists[p].version >= due)

------------------------------------------------------------------------------
(* What a handler makes of the requests in flight.                          *)

\* What is sent, or fails, is a request in flight.
LEMMA SentIsRequest ==
  /\ \A n \in 0 .. MaxPairs, b \in BOOLEAN :
       Sent(n, b) \in Unanswered /\ Sent(n, b).at = "sent" /\ Sent(n, b).pair = n
  /\ Failed \in Unanswered /\ Failed.at = "failed"
  BY DEF Sent, Failed, Unanswered

\* A job is none, a change, or a load, and is told by its domain.
LEMMA JobShapes ==
  ASSUME NEW j \in Jobs
  PROVE  /\ DOMAIN j = {} <=> j = << >>
         /\ DOMAIN j \in {{}, {"put"}, Parts}
         /\ DOMAIN j = {"put"} => j \in [{"put"} -> PutRequest]
         /\ DOMAIN j = Parts => j \in [Parts -> ListRequest]
         /\ \A p \in DOMAIN j : /\ p = "put" => DOMAIN j = {"put"} /\ j[p] \in PutRequest
                                /\ p # "put" => DOMAIN j = Parts /\ j[p] \in ListRequest
<1>1. DOMAIN << >> = {}
  OBVIOUS
<1>2. "put" \notin Parts /\ Parts # {} /\ Parts # {"put"}
  BY PartAssumption
<1> QED
  BY <1>1, <1>2 DEF Jobs

\* A job that is put together from requests of its kind is a job.
LEMMA JobsOfRequests ==
  ASSUME NEW j \in Jobs, NEW f, f = [q \in DOMAIN j |-> f[q]], j # << >>,
         \A q \in DOMAIN j : f[q] \in IF q = "put" THEN PutRequest ELSE ListRequest
  PROVE  f \in Jobs /\ DOMAIN f = DOMAIN j /\ f # << >>
<1>1. DOMAIN << >> = {}
  OBVIOUS
<1>2. DOMAIN f = DOMAIN j
  OBVIOUS
<1>3. DOMAIN j = {"put"} \/ DOMAIN j = Parts
  BY JobShapes
<1>4. CASE DOMAIN j = {"put"}
  BY <1>1, <1>2, <1>4 DEF Jobs
<1>5. CASE DOMAIN j = Parts
  <2>1. \A q \in Parts : f[q] \in ListRequest
    BY <1>5, PartAssumption
  <2>2. f = [q \in Parts |-> f[q]]
    BY <1>5
  <2> QED
    BY <1>1, <1>2, <1>5, <2>1, <2>2, PartAssumption DEF Jobs
<1> QED
  BY <1>3, <1>4, <1>5

\* The jobs are now js: some are over, and in the others some requests are r.
Moves(js, r) ==
  /\ js \in [Slots -> Jobs]
  /\ \A x \in Slots :
       \/ js[x] = << >>
       \/ /\ DOMAIN js[x] = DOMAIN jobs[x] /\ jobs[x] # << >>
          /\ \A q \in DOMAIN jobs[x] : js[x][q] = jobs[x][q] \/ js[x][q] = r
  /\ r.at # "failed" =>
       \A x \in Slots : Good(x) => DOMAIN js[x] = Parts /\ \A p \in Parts : js[x][p].at # "failed"

\* Become moves one request of one job.
LEMMA BecomeMoves ==
  ASSUME jobs \in [Slots -> Jobs], NEW s \in Slots, NEW p \in DOMAIN jobs[s],
         NEW r, r \in IF p = "put" THEN PutRequest ELSE ListRequest
  PROVE  Moves(Become(s, p, r), r)
<1> DEFINE f == [jobs[s] EXCEPT ![p] = r]
           js == Become(s, p, r)
<1>1. jobs[s] \in Jobs /\ jobs[s] # << >>
  BY JobShapes
<1>2. /\ jobs[s] = [q \in DOMAIN jobs[s] |-> jobs[s][q]]
      /\ \A q \in DOMAIN jobs[s] : jobs[s][q] \in IF q = "put" THEN PutRequest ELSE ListRequest
  <2>1. jobs[s] = [q \in DOMAIN jobs[s] |-> jobs[s][q]]
    BY <1>1 DEF Jobs
  <2> QED
    BY <1>1, <2>1, JobShapes
<1>3. /\ f = [q \in DOMAIN jobs[s] |-> f[q]]
      /\ f[p] = r /\ \A q \in DOMAIN jobs[s] \ {p} : f[q] = jobs[s][q]
  BY <1>2
<1> HIDE DEF f
<1>4. f \in Jobs /\ DOMAIN f = DOMAIN jobs[s] /\ f # << >>
  <2>1. \A q \in DOMAIN jobs[s] : f[q] \in IF q = "put" THEN PutRequest ELSE ListRequest
    BY <1>2, <1>3
  <2> QED
    BY <1>1, <1>3, <2>1, JobsOfRequests
<1>5. js = [jobs EXCEPT ![s] = Settle(f)]
  BY DEF Become, f
<1>6. Settle(f) = << >> \/ Settle(f) = f
  BY DEF Settle
<1>7. << >> \in Jobs
  BY DEF Jobs
<1>8. /\ js \in [Slots -> Jobs] /\ js[s] = Settle(f)
      /\ \A x \in Slots \ {s} : js[x] = jobs[x]
  BY <1>4, <1>5, <1>6, <1>7
<1> HIDE DEF js
<1>9. ASSUME NEW x \in Slots
      PROVE  \/ js[x] = << >>
             \/ /\ DOMAIN js[x] = DOMAIN jobs[x] /\ jobs[x] # << >>
                /\ \A q \in DOMAIN jobs[x] : js[x][q] = jobs[x][q] \/ js[x][q] = r
  <2>1. CASE x # s
    BY <1>8, <2>1
  <2>2. CASE x = s
    BY <1>1, <1>3, <1>4, <1>6, <1>8, <2>2
  <2> QED
    BY <2>1, <2>2
<1>10. ASSUME r.at # "failed", NEW x \in Slots, Good(x)
       PROVE  DOMAIN js[x] = Parts /\ \A q \in Parts : js[x][q].at # "failed"
  <2>1. CASE x # s
    BY <1>8, <1>10, <2>1 DEF Good
  <2>2. CASE x = s
    <3>1. DOMAIN f = Parts /\ \A q \in DOMAIN f : f[q].at # "failed"
      BY <1>3, <1>4, <1>10, <2>2 DEF Good
    <3>2. Settle(f) = f
      BY <3>1 DEF Settle
    <3> QED
      BY <1>8, <2>2, <3>1, <3>2
  <2> QED
    BY <2>1, <2>2
<1> QED
  BY <1>8, <1>9, <1>10 DEF Moves, js

\* Awoken moves all requests that wait, and none waits after it.
LEMMA AwokenMoves ==
  ASSUME jobs \in [Slots -> Jobs], NEW r \in Unanswered
  PROVE  /\ Moves(Awoken(r), r)
         /\ r.at # "waiting" =>
              \A x \in Slots : \A q \in DOMAIN Awoken(r)[x] : Awoken(r)[x][q].at # "waiting"
<1> DEFINE f(x) == [p \in DOMAIN jobs[x] |-> IF jobs[x][p].at = "waiting" THEN r ELSE jobs[x][p]]
           js == Awoken(r)
<1>1. js = [x \in Slots |-> Settle(f(x))]
  BY DEF Awoken
<1>2. ASSUME NEW x \in Slots
      PROVE  Settle(f(x)) = << >> \/ Settle(f(x)) = f(x)
  BY DEF Settle
<1>3. ASSUME NEW x \in Slots
      PROVE  /\ f(x) = [q \in DOMAIN jobs[x] |-> f(x)[q]]
             /\ \A q \in DOMAIN jobs[x] : \/ f(x)[q] = r
                                          \/ f(x)[q] = jobs[x][q] /\ jobs[x][q].at # "waiting"
  OBVIOUS
<1> HIDE DEF f
<1>4. ASSUME NEW x \in Slots, jobs[x] # << >>
      PROVE  f(x) \in Jobs /\ DOMAIN f(x) = DOMAIN jobs[x]
  <2>1. jobs[x] \in Jobs
    OBVIOUS
  <2>2. \A q \in DOMAIN jobs[x] : jobs[x][q] \in IF q = "put" THEN PutRequest ELSE ListRequest
    BY <2>1, JobShapes
  <2>3. \A q \in DOMAIN jobs[x] : f(x)[q] \in IF q = "put" THEN PutRequest ELSE ListRequest
    BY <1>3, <2>2 DEF PutRequest, ListRequest
  <2> QED
    BY <1>3, <1>4, <2>1, <2>3, JobsOfRequests
<1>5. ASSUME NEW x \in Slots, jobs[x] = << >>
      PROVE  Settle(f(x)) = << >>
  <2>1. f(x) = << >>
    <3>1. DOMAIN << >> = {} /\ << >> = [q \in {} |-> << >>[q]]
      OBVIOUS
    <3>2. f(x) = [q \in {} |-> f(x)[q]]
      BY <1>3, <1>5, <3>1
    <3> QED
      BY <3>1, <3>2
  <2> QED
    BY <1>2, <2>1
<1>6. << >> \in Jobs
  BY DEF Jobs
<1>7. js \in [Slots -> Jobs] /\ \A x \in Slots : js[x] = Settle(f(x))
  BY <1>1, <1>2, <1>4, <1>5, <1>6
<1> HIDE DEF js
<1>8. ASSUME NEW x \in Slots
      PROVE  \/ js[x] = << >>
             \/ /\ DOMAIN js[x] = DOMAIN jobs[x] /\ jobs[x] # << >>
                /\ \A q \in DOMAIN jobs[x] : js[x][q] = jobs[x][q] \/ js[x][q] = r
  BY <1>2, <1>3, <1>4, <1>5, <1>7
<1>9. ASSUME r.at # "failed", NEW x \in Slots, Good(x)
      PROVE  DOMAIN js[x] = Parts /\ \A q \in Parts : js[x][q].at # "failed"
  <2>1. jobs[x] # << >> /\ DOMAIN jobs[x] = Parts
    <3>1. DOMAIN << >> = {}
      OBVIOUS
    <3> QED
      BY <1>9, <3>1, PartAssumption DEF Good
  <2>2. DOMAIN f(x) = Parts /\ \A q \in Parts : f(x)[q].at # "failed"
    BY <1>3, <1>4, <1>9, <2>1 DEF Good
  <2>3. Settle(f(x)) = f(x)
    BY <2>2 DEF Settle
  <2> QED
    BY <1>7, <2>2, <2>3
<1>10. ASSUME r.at # "waiting", NEW x \in Slots, NEW q \in DOMAIN js[x]
       PROVE  js[x][q].at # "waiting"
  <2>1. DOMAIN << >> = {}
    OBVIOUS
  <2>2. js[x] = f(x) /\ jobs[x] # << >>
    BY <1>2, <1>5, <1>7, <1>10, <2>1
  <2>3. q \in DOMAIN jobs[x]
    BY <1>4, <1>10, <2>2
  <2> QED
    BY <1>3, <1>10, <2>2, <2>3
<1> QED
  BY <1>7, <1>8, <1>9, <1>10 DEF Moves, js

\* A load is sent with token n.
LEMMA LoadSends ==
  ASSUME Typed, NEW s \in Slots, NEW n \in 0 .. MaxPairs, Load(s, n)
  PROVE  /\ jobs' \in [Slots -> Jobs]
         /\ DOMAIN jobs'[s] = Parts /\ \A p \in Parts : jobs'[s][p] = Sent(n, TRUE)
         /\ \A x \in Slots \ {s} : jobs'[x] = jobs[x]
         /\ due' = data
         /\ since' \in [Slots -> 0 .. MaxChanges] /\ since'[s] = data
         /\ \A x \in Slots \ {s} : since'[x] = since[x]
         /\ missed' \in BOOLEAN
         /\ missed' = \E x \in Loading \ {s} : since[x] < data
<1> DEFINE f == [p \in Parts |-> Sent(n, TRUE)]
<1>1. f \in [Parts -> ListRequest]
  BY SentIsRequest DEF ListRequest
<1>2. f \in Jobs
  BY <1>1 DEF Jobs
<1>3. jobs' = [jobs EXCEPT ![s] = f] /\ jobs \in [Slots -> Jobs]
  BY DEF Load, Typed, Flags
<1>4. DOMAIN f = Parts /\ \A p \in Parts : f[p] = Sent(n, TRUE)
  OBVIOUS
<1> HIDE DEF f
<1>5. /\ jobs' \in [Slots -> Jobs] /\ jobs'[s] = f
      /\ \A x \in Slots \ {s} : jobs'[x] = jobs[x]
  BY <1>2, <1>3
<1>6. /\ since' = [since EXCEPT ![s] = data] /\ since \in [Slots -> 0 .. MaxChanges]
      /\ data \in 0 .. MaxChanges
  BY DEF Load, Typed, Flags
<1> QED
  BY <1>4, <1>5, <1>6 DEF Load

\* The server appends a pair.
LEMMA IssueAppends ==
  ASSUME Typed, NEW u \in Users, Issue(u)
  PROVE  LET n == Len(issued) + 1 IN
         /\ n \in 1 .. MaxPairs /\ Len(issued') = n
         /\ issued' \in Seq(Users)
         /\ issued'[n] = u /\ \A i \in 1 .. Len(issued) : issued'[i] = issued[i]
         /\ 1 .. Len(issued) \subseteq 1 .. n /\ n \in 1 .. n /\ n \notin 1 .. Len(issued)
         /\ 0 .. Len(issued) \subseteq 0 .. n
         /\ fresh' = fresh \cup {n}
<1>1. issued \in Seq(Users) /\ Len(issued) \in Nat /\ MaxPairs \in Nat
  BY BoundAssumption, LenProperties DEF Typed, Flags
<1>2. issued' = Append(issued, u) /\ Len(issued) < MaxPairs
  BY DEF Issue
<1>3. /\ issued' \in Seq(Users) /\ Len(issued') = Len(issued) + 1
      /\ issued'[Len(issued) + 1] = u
      /\ \A i \in 1 .. Len(issued) : issued'[i] = issued[i]
  BY <1>1, <1>2, AppendProperties
<1>4. fresh' = fresh \cup {Len(issued) + 1}
  BY <1>3 DEF Issue
<1> DEFINE m == Len(issued)
<1>5. m \in Nat /\ m < MaxPairs
  BY <1>1, <1>2
<1> HIDE DEF m
<1>6. /\ m + 1 \in 1 .. MaxPairs /\ 1 .. m \subseteq 1 .. m + 1
      /\ m + 1 \in 1 .. m + 1 /\ m + 1 \notin 1 .. m /\ 0 .. m \subseteq 0 .. m + 1
  BY <1>1, <1>5
<1> QED
  BY <1>3, <1>4, <1>6 DEF m

------------------------------------------------------------------------------
\* The number that a condition stands for.
LEMMA OneIsNat == \A b \in BOOLEAN : One(b) \in Nat
  BY DEF One

\* The answers that a job's request can get.
LEMMA AnswersAreRequests ==
  ASSUME Typed
  PROVE  /\ \A n \in fresh : [at |-> "done", user |-> issued[n], version |-> data] \in ListRequest
         /\ [at |-> "done"] \in PutRequest /\ Failed \in PutRequest
         /\ [at |-> "waiting"] \in Unanswered
         /\ \A n \in 0 .. MaxPairs : [at |-> "refused", pair |-> n] \in Unanswered
  BY DEF Typed, Flags, ListRequest, PutRequest, Unanswered, Failed

\* A request has the type of a request of a change or of a load, and its pair is
\* one when it has one.
LEMMA RequestTypes ==
  ASSUME Typed, NEW s \in Slots, NEW p \in DOMAIN jobs[s]
  PROVE  /\ jobs[s] \in Jobs /\ jobs[s] # << >>
         /\ jobs[s][p] \in IF p = "put" THEN PutRequest ELSE ListRequest
         /\ jobs[s][p].at \in {"sent", "refused"} => jobs[s][p].pair \in 0 .. MaxPairs
<1>1. jobs[s] \in Jobs
  BY DEF Typed, Flags
<1>2. jobs[s][p] \in IF p = "put" THEN PutRequest ELSE ListRequest
  BY <1>1, JobShapes
<1>3. jobs[s] # << >>
  BY <1>1, JobShapes
<1> QED
  BY <1>1, <1>2, <1>3 DEF PutRequest, ListRequest, Unanswered

\* What an answer, a refusal or a failure does to the jobs.
LEMMA RequestStep ==
  ASSUME Typed, NEW s \in Slots, NEW p \in DOMAIN jobs[s]
  PROVE  /\ ServeList(s, p) =>
              /\ jobs[s][p].pair \in fresh
              /\ Moves(jobs', [at |-> "done", user |-> issued[jobs[s][p].pair], version |-> data])
         /\ ServePut(s, p) => Moves(jobs', [at |-> "done"]) \/ Moves(jobs', Failed)
         /\ Refuse(s, p) =>
              \/ Moves(jobs', [at |-> "refused", pair |-> jobs[s][p].pair])
              \/ Moves(jobs', Failed) /\ missed'
         /\ Fail(s, p) => Moves(jobs', Failed)
         /\ Retry(s, p) =>
              \/ tokens = 0 /\ Moves(jobs', Failed) /\ missed' /\ refresh' = refresh
              \/ /\ tokens # 0 /\ Moves(jobs', [at |-> "waiting"]) /\ missed' = missed
                 /\ refresh' = IF refresh = NoRefresh
                               THEN [at |-> "sent", pair |-> tokens] ELSE refresh
<1>1. jobs \in [Slots -> Jobs]
  BY DEF Typed, Flags
<1>2. \A r : r \in PutRequest /\ r \in ListRequest => Moves(Become(s, p, r), r)
  BY <1>1, BecomeMoves
<1>3. \A r \in Unanswered : Moves(Become(s, p, r), r)
  BY <1>2 DEF PutRequest, ListRequest
<1>4. ASSUME ServeList(s, p)
      PROVE  /\ jobs[s][p].pair \in fresh
             /\ Moves(jobs', [at |-> "done", user |-> issued[jobs[s][p].pair], version |-> data])
  BY <1>1, <1>4, AnswersAreRequests, BecomeMoves DEF ServeList
<1>5. ASSUME ServePut(s, p) PROVE Moves(jobs', [at |-> "done"]) \/ Moves(jobs', Failed)
  <2>1. PICK answer \in {[at |-> "done"], Failed} : jobs' = Become(s, p, answer)
    BY <1>5 DEF ServePut
  <2>2. answer \in PutRequest /\ p = "put"
    BY <1>5, AnswersAreRequests DEF ServePut
  <2>3. Moves(jobs', answer)
    BY <1>1, <2>1, <2>2, BecomeMoves
  <2> QED
    BY <2>3
<1>6. ASSUME Refuse(s, p)
      PROVE  \/ Moves(jobs', [at |-> "refused", pair |-> jobs[s][p].pair])
             \/ Moves(jobs', Failed) /\ missed'
  <2>1. [at |-> "refused", pair |-> jobs[s][p].pair] \in Unanswered
    BY <1>6, RequestTypes, AnswersAreRequests DEF Refuse
  <2>2. CASE jobs[s][p].retry
    BY <1>3, <1>6, <2>1, <2>2 DEF Refuse
  <2>3. CASE ~jobs[s][p].retry
    BY <1>3, <1>6, <2>3, SentIsRequest DEF Refuse
  <2> QED
    BY <2>2, <2>3
<1>7. ASSUME Fail(s, p) PROVE Moves(jobs', Failed)
  BY <1>3, <1>7, SentIsRequest DEF Fail
<1>8. ASSUME Retry(s, p)
      PROVE  \/ tokens = 0 /\ Moves(jobs', Failed) /\ missed' /\ refresh' = refresh
             \/ /\ tokens # 0 /\ Moves(jobs', [at |-> "waiting"]) /\ missed' = missed
                /\ refresh' = IF refresh = NoRefresh
                              THEN [at |-> "sent", pair |-> tokens] ELSE refresh
  <2>1. CASE tokens = 0
    BY <1>3, <1>8, <2>1, SentIsRequest DEF Retry
  <2>2. CASE tokens # 0
    BY <1>3, <1>8, <2>2, AnswersAreRequests DEF Retry
  <2> QED
    BY <2>1, <2>2
<1> QED
  BY <1>4, <1>5, <1>6, <1>7, <1>8

\* Every variable keeps its type.
LEMMA TypedStep ==
  ASSUME Typed, Awaited, [Next]_vars
  PROVE  Typed'
<1> USE BoundAssumption, OneIsNat
<1>0. /\ Len(issued) \in Nat /\ Len(issued) <= MaxPairs /\ tokens \in 0 .. Len(issued)
      /\ tokens \in 0 .. MaxPairs
  BY LenProperties DEF Typed, Flags
<1>1. CASE UNCHANGED vars
  BY <1>1 DEF vars, server, signIn, sockets, history, Typed, Flags
<1>2. ASSUME NEW u \in Users, Login(u) PROVE Typed'
  <2>1. Issue(u)
    BY <1>2 DEF Login
  <2> DEFINE n == Len(issued) + 1
  <2>2. /\ Len(issued') = n /\ n <= MaxPairs /\ issued' \in Seq(Users)
        /\ 1 .. Len(issued) \subseteq 1 .. n /\ n \in 1 .. n
        /\ 0 .. Len(issued) \subseteq 0 .. n /\ fresh' = fresh \cup {n}
    BY <2>1, IssueAppends
  <2> HIDE DEF n
  <2>3. live' = live \cup {n} /\ logins' = logins \cup {n}
    BY <1>2, <2>2 DEF Login
  <2> QED
    BY <1>2, <2>2, <2>3 DEF Login, sockets, history, Typed, Flags
<1>3. ASSUME NEW u \in Users, Elsewhere(u) PROVE Typed'
  <2>1. data' \in 0 .. MaxChanges /\ inbox' \in Nat
    BY <1>3 DEF Elsewhere, Change, Typed, Flags
  <2> QED
    BY <1>3, <2>1 DEF Elsewhere, Change, signIn, history, Typed, Flags
<1>4. ASSUME NEW n \in logins, NEW s \in Slots, LoginDone(n, s) PROVE Typed'
  <2>1. n \in 1 .. Len(issued) /\ n \in 0 .. Len(issued) /\ n \in 0 .. MaxPairs
        /\ issued[n] \in Users
    BY <1>0 DEF Typed, Flags
  <2>2. /\ jobs' \in [Slots -> Jobs] /\ due' = data
        /\ since' \in [Slots -> 0 .. MaxChanges] /\ missed' \in BOOLEAN
    BY <1>4, <2>1, LoadSends DEF LoginDone
  <2>3. /\ socket' \in [at : {"none", "connecting", "open"}, pair : 0 .. Len(issued)]
        /\ closing' \in Nat /\ inbox' = 0
    BY <1>4, <2>1 DEF LoginDone, Connect, Typed, Flags, One
  <2>4. shown' \in BOOLEAN /\ leftover' \in BOOLEAN /\ hasty' \in BOOLEAN /\ excuse' \in BOOLEAN
    BY <1>4 DEF LoginDone, Typed, Flags
  <2> QED
    <3>1. /\ UNCHANGED <<issued, live, fresh, data, leaving, refresh, lists, timers>>
          /\ user' = issued[n] /\ tokens' = n /\ logins' \subseteq logins
      BY <1>4 DEF LoginDone, server
    <3>2. Flags'
      BY <2>2, <2>4, <3>1, Zenon DEF Typed, Flags
    <3>3. due' \in Nat /\ inbox' \in Nat /\ user' \in Users /\ tokens' \in 0 .. Len(issued)
      BY <2>1, <2>2, <2>3, <3>1 DEF Typed
    <3> QED
      BY <2>2, <2>3, <3>1, <3>2, <3>3 DEF Typed
<1>5. CASE Logout
  <2>1. leaving' \in Nat
    BY <1>5 DEF Logout, Typed
  <2> QED
    BY <1>5, <2>1 DEF Logout, sockets, Typed, Flags
<1>6. ASSUME Clear
      PROVE  /\ user' = NoUser /\ tokens' = 0 /\ shown' = FALSE
             /\ lists' \in [Parts -> [user : Users \cup {NoUser}, version : 0 .. MaxChanges]]
             /\ socket' \in [at : {"none", "connecting", "open"}, pair : 0 .. Len(issued)]
             /\ closing' \in Nat /\ timers' \in Nat /\ inbox' \in Nat /\ due' \in Nat
  <2>1. lists' \in [Parts -> [user : Users \cup {NoUser}, version : 0 .. MaxChanges]]
    BY <1>6 DEF Clear, NoList, Typed
  <2> QED
    BY <1>0, <1>6, <2>1 DEF Clear, NoSocket, Typed, Flags, One
<1>7. CASE LogoutDone
  <2>1. leftover' \in BOOLEAN /\ excuse' \in BOOLEAN /\ leaving' \in Nat
    BY <1>7 DEF LogoutDone, Typed
  <2>2. Clear
    BY <1>7 DEF LogoutDone
  <2> QED
    <3>1. UNCHANGED <<issued, live, fresh, data, logins, refresh, jobs, since, missed, hasty>>
      BY <1>7 DEF LogoutDone, server
    <3> QED
      <4>1. Flags'
        BY <1>6, <2>1, <2>2, <3>1, Zenon DEF Typed, Flags
      <4> QED
        BY <1>0, <1>6, <2>1, <2>2, <3>1, <4>1 DEF Typed
<1>8. CASE ReloadPage
  <2>1. /\ refresh' \in [at : {"none", "sent", "rotated", "failed"}, pair : 0 .. Len(issued)]
        /\ lists' \in [Parts -> [user : Users \cup {NoUser}, version : 0 .. MaxChanges]]
        /\ shown' \in BOOLEAN /\ excuse' \in BOOLEAN /\ live' \subseteq 1 .. Len(issued)
    BY <1>0, <1>8 DEF ReloadPage, NoRefresh, NoList, Authed, Typed, Flags
  <2>2. PICK s \in Slots :
       IF Authed
       THEN /\ jobs' = [x \in Slots |-> IF x = s THEN [p \in Parts |-> Sent(tokens, TRUE)]
                                        ELSE << >>]
            /\ socket' = [at |-> "connecting", pair |-> tokens]
            /\ due' = data /\ since' = [since EXCEPT ![s] = data] /\ missed' = FALSE
       ELSE /\ jobs' = [x \in Slots |-> << >>]
            /\ socket' = NoSocket
            /\ due' = 0 /\ UNCHANGED <<since, missed>>
    BY <1>8 DEF ReloadPage
  <2>3. << >> \in Jobs /\ [p \in Parts |-> Sent(tokens, TRUE)] \in Jobs
    <3>1. [p \in Parts |-> Sent(tokens, TRUE)] \in [Parts -> ListRequest]
      BY <1>0, SentIsRequest DEF ListRequest
    <3> QED
      BY <3>1 DEF Jobs
  <2>4. /\ jobs' \in [Slots -> Jobs]
        /\ socket' \in [at : {"none", "connecting", "open"}, pair : 0 .. Len(issued)]
        /\ due' \in Nat /\ since' \in [Slots -> 0 .. MaxChanges] /\ missed' \in BOOLEAN
    <3>1. CASE Authed
      <4>1. /\ jobs' = [x \in Slots |-> IF x = s THEN [p \in Parts |-> Sent(tokens, TRUE)]
                                         ELSE << >>]
            /\ socket' = [at |-> "connecting", pair |-> tokens]
            /\ due' = data /\ since' = [since EXCEPT ![s] = data] /\ missed' = FALSE
        BY <2>2, <3>1
      <4>2. jobs' \in [Slots -> Jobs]
        BY <2>3, <4>1
      <4>3. due' \in Nat /\ since' \in [Slots -> 0 .. MaxChanges]
        BY <4>1 DEF Typed
      <4>4. missed' \in BOOLEAN
        BY <4>1, Zenon
      <4> QED
        BY <1>0, <4>1, <4>2, <4>3, <4>4
    <3>2. CASE ~Authed
      BY <1>0, <2>2, <2>3, <3>2 DEF Typed, Flags, NoSocket
    <3> QED
      BY <3>1, <3>2
  <2> QED
    BY <1>8, <2>1, <2>4 DEF ReloadPage, Typed, Flags
<1>9. ASSUME NEW s \in Slots, NEW p \in DOMAIN jobs[s], ServeList(s, p) PROVE Typed'
  <2>1. jobs' \in [Slots -> Jobs]
    BY <1>9, RequestStep DEF Moves
  <2> QED
    BY <1>9, <2>1 DEF ServeList, server, signIn, sockets, history, Typed, Flags
<1>10. ASSUME NEW s \in Slots, NEW p \in DOMAIN jobs[s], ServePut(s, p) PROVE Typed'
  <2>1. jobs' \in [Slots -> Jobs]
    BY <1>10, RequestStep DEF Moves
  <2>2. data' \in 0 .. MaxChanges /\ inbox' \in Nat
    <3>1. Change(issued[jobs[s][p].pair])
      BY <1>10 DEF ServePut
    <3>2. data' \in 0 .. MaxChanges
      BY <3>1 DEF Change, Typed
    <3>3. inbox' \in Nat
      BY <3>1 DEF Change, Typed
    <3> QED
      BY <3>2, <3>3
  <2> QED
    BY <1>10, <2>1, <2>2 DEF ServePut, signIn, history, Typed, Flags
<1>11. ASSUME NEW s \in Slots, NEW p \in DOMAIN jobs[s], Refuse(s, p) PROVE Typed'
  <2>1. jobs' \in [Slots -> Jobs]
    BY <1>11, RequestStep DEF Moves
  <2>2. missed' \in BOOLEAN
    BY <1>11 DEF Refuse, Typed, Flags
  <2> QED
    BY <1>11, <2>1, <2>2 DEF Refuse, server, signIn, sockets, Typed, Flags
<1>12. ASSUME NEW s \in Slots, NEW p \in DOMAIN jobs[s], Fail(s, p) PROVE Typed'
  <2>1. jobs' \in [Slots -> Jobs]
    BY <1>12, RequestStep DEF Moves
  <2> QED
    BY <1>12, <2>1 DEF Fail, server, signIn, sockets, Typed, Flags
<1>13. ASSUME NEW s \in Slots, NEW p \in DOMAIN jobs[s], Retry(s, p) PROVE Typed'
  <2>1. jobs' \in [Slots -> Jobs]
    BY <1>13, RequestStep DEF Moves
  <2>2. refresh' \in [at : {"none", "sent", "rotated", "failed"}, pair : 0 .. Len(issued)]
    BY <1>0, <1>13 DEF Retry, Typed, Flags
  <2>3. missed' \in BOOLEAN
    BY <1>13 DEF Retry, Typed, Flags
  <2> QED
    BY <1>13, <2>1, <2>2, <2>3 DEF Retry, server, signIn, sockets, Typed, Flags
<1>14. ASSUME NEW s \in Slots, Land(s) PROVE Typed'
  <2>1. jobs[s] \in [Parts -> ListRequest] /\ jobs \in [Slots -> Jobs]
    BY <1>14, JobShapes DEF Land, Loading, Typed, Flags
  <2>2. \A p \in Parts : jobs[s][p] \in [at : {"done"}, user : Users, version : 0 .. MaxChanges]
    BY <1>14, <2>1 DEF Land, ListRequest, Unanswered
  <2>3. lists' \in [Parts -> [user : Users \cup {NoUser}, version : 0 .. MaxChanges]]
    BY <1>14, <2>2 DEF Land
  <2>4. jobs' \in [Slots -> Jobs]
    BY <1>14, <2>1 DEF Land, Jobs
  <2>5. shown' \in BOOLEAN
    BY <1>14 DEF Land, Authed
  <2> QED
    BY <1>14, <2>3, <2>4, <2>5 DEF Land, server, sockets, history, Typed, Flags
<1>15. ASSUME NEW s \in Slots, Put(s) PROVE Typed'
  <2>1. [p \in {"put"} |-> Sent(tokens, TRUE)] \in [{"put"} -> PutRequest]
    BY <1>0, SentIsRequest DEF PutRequest
  <2>2. [p \in {"put"} |-> Sent(tokens, TRUE)] \in Jobs
    BY <2>1 DEF Jobs
  <2>3. jobs' \in [Slots -> Jobs]
    BY <1>15, <2>2 DEF Put, Typed, Flags
  <2> QED
    BY <1>15, <2>3 DEF Put, server, signIn, sockets, history, Typed, Flags
<1>16. ASSUME NEW s \in Slots, PutDone(s) \/ ReloadButton(s) \/ OnMessage(s) PROVE Typed'
  <2>1. /\ jobs' \in [Slots -> Jobs] /\ due' = data
        /\ since' \in [Slots -> 0 .. MaxChanges] /\ missed' \in BOOLEAN
    BY <1>0, <1>16, LoadSends DEF PutDone, ReloadButton, OnMessage
  <2>2. inbox' \in Nat
    BY <1>16 DEF PutDone, ReloadButton, OnMessage, sockets, Typed, Flags
  <2> QED
    <3>1. UNCHANGED <<issued, live, fresh, data, user, tokens, shown, logins, leaving, refresh,
                      lists, socket, closing, timers, leftover, excuse, hasty>>
      BY <1>16 DEF PutDone, ReloadButton, OnMessage, server, signIn, sockets
    <3>2. Flags'
      BY <2>1, <3>1, Zenon DEF Typed, Flags
    <3>3. due' \in Nat
      BY <2>1 DEF Typed
    <3> QED
      BY <2>1, <2>2, <3>1, <3>2, <3>3 DEF Typed
<1>17. CASE Rotate
  <2>1. /\ refresh.pair \in live /\ issued[refresh.pair] \in Users
    BY <1>17 DEF Rotate, Typed, Flags
  <2> DEFINE n == Len(issued) + 1
  <2>2. /\ Len(issued') = n /\ n <= MaxPairs /\ issued' \in Seq(Users)
        /\ 1 .. Len(issued) \subseteq 1 .. n /\ n \in 1 .. n /\ n \in 0 .. n /\ 0 \in 0 .. n
        /\ 0 .. Len(issued) \subseteq 0 .. n /\ fresh' = fresh \cup {n}
    BY <1>17, <2>1, IssueAppends DEF Rotate
  <2> HIDE DEF n
  <2>3. live' = (live \ {refresh.pair}) \cup {n}
    BY <1>17, <2>2 DEF Rotate
  <2>4. /\ refresh' \in [at : {"none", "sent", "rotated", "failed"}, pair : 0 .. n]
        /\ excuse' \in BOOLEAN
    <3>1. \/ refresh' = [at |-> "rotated", pair |-> n] /\ excuse' = excuse
          \/ refresh' = [at |-> "failed", pair |-> 0] /\ excuse' = TRUE
      BY <1>17, <2>2 DEF Rotate
    <3>2. excuse' \in BOOLEAN
      BY <3>1, Zenon DEF Typed, Flags
    <3> QED
      BY <2>2, <3>1, <3>2
  <2> QED
    BY <1>17, <2>2, <2>3, <2>4 DEF Rotate, signIn, sockets, Typed, Flags
<1>18. CASE RefuseRefresh
  <2>1. /\ refresh' \in [at : {"none", "sent", "rotated", "failed"}, pair : 0 .. Len(issued)]
        /\ excuse' \in BOOLEAN
    <3>1. refresh' = [at |-> "failed", pair |-> 0] /\ excuse' \in {excuse, TRUE}
      BY <1>18 DEF RefuseRefresh
    <3>2. excuse' \in BOOLEAN
      BY <3>1, Zenon DEF Typed, Flags
    <3> QED
      BY <1>0, <3>1, <3>2
  <2> QED
    BY <1>18, <2>1 DEF RefuseRefresh, server, signIn, sockets, Typed, Flags
<1>19. CASE Refreshed
  <2>1. refresh.pair \in 0 .. Len(issued) /\ refresh.pair \in 0 .. MaxPairs
    BY <1>0 DEF Typed, Flags
  <2>2. jobs' \in [Slots -> Jobs]
    <3>1. Sent(refresh.pair, FALSE) \in Unanswered
      BY <2>1, SentIsRequest
    <3> QED
      BY <1>19, <3>1, AwokenMoves DEF Refreshed, Moves, Typed, Flags
  <2> QED
    <3>1. /\ tokens' = refresh.pair /\ refresh' = [at |-> "none", pair |-> 0]
          /\ UNCHANGED <<issued, live, fresh, data, user, shown, logins, leaving, lists, socket,
                         closing, timers, inbox, leftover, excuse, due, since, missed, hasty>>
      BY <1>19 DEF Refreshed, NoRefresh, server, sockets, history
    <3> QED
      BY <1>0, <2>1, <2>2, <3>1 DEF Typed, Flags
<1>20. CASE RefreshFailed
  <2>1. jobs' \in [Slots -> Jobs]
    BY <1>20, SentIsRequest, AwokenMoves DEF RefreshFailed, Moves, Typed, Flags
  <2>2. Clear /\ leftover' \in BOOLEAN /\ excuse' \in BOOLEAN /\ missed' \in BOOLEAN
    BY <1>20 DEF RefreshFailed, Typed, Flags
  <2> QED
    <3>1. /\ refresh' = [at |-> "none", pair |-> 0]
          /\ UNCHANGED <<issued, live, fresh, data, logins, leaving, since, hasty>>
      BY <1>20 DEF RefreshFailed, NoRefresh, server
    <3>2. Flags'
      BY <1>6, <2>2, <3>1, Zenon DEF Typed, Flags
    <3> QED
      BY <1>0, <1>6, <2>1, <2>2, <3>1, <3>2 DEF Typed
<1>21. CASE Open
  BY <1>21 DEF Open, server, signIn, history, Typed, Flags
<1>22. CASE SocketCloses
  <2>1. timers' \in Nat
    BY <1>22 DEF SocketCloses, Typed, Flags, One
  <2> QED
    BY <1>0, <1>22, <2>1 DEF SocketCloses, NoSocket, server, signIn, history, Typed, Flags
<1>23. CASE OldSocketCloses
  <2>1. timers' \in Nat /\ closing' \in Nat
    BY <1>23 DEF OldSocketCloses, Typed, Flags, One
  <2> QED
    BY <1>23, <2>1 DEF OldSocketCloses, server, signIn, history, Typed, Flags
<1>24. CASE Reconnect
  <2>1. timers' \in Nat /\ closing' \in Nat /\ inbox' \in Nat
    BY <1>24 DEF Reconnect, Connect, Typed, Flags, One
  <2>2. socket' \in [at : {"none", "connecting", "open"}, pair : 0 .. Len(issued)]
    BY <1>0, <1>24 DEF Reconnect, Connect, Typed, Flags
  <2> QED
    BY <1>24, <2>1, <2>2 DEF Reconnect, server, signIn, history, Typed, Flags
<1>25. CASE AccessExpires \/ RefreshExpires
  BY <1>25 DEF AccessExpires, RefreshExpires, signIn, sockets, history, Typed, Flags
<1> QED
  BY <1>1, <1>2, <1>3, <1>4, <1>5, <1>7, <1>8, <1>9, <1>10, <1>11, <1>12, <1>13, <1>14,
     <1>15, <1>16, <1>17, <1>18, <1>19, <1>20, <1>21, <1>22, <1>23, <1>24, <1>25
     DEF Next, Requests

\* A request of the new jobs was there before, or is the new one.
LEMMA MovedRequests ==
  ASSUME NEW js, NEW r, Moves(js, r), NEW x \in Slots, NEW q \in DOMAIN js[x]
  PROVE  q \in DOMAIN jobs[x] /\ (js[x][q] = jobs[x][q] \/ js[x][q] = r)
<1>1. DOMAIN << >> = {}
  OBVIOUS
<1> QED
  BY <1>1 DEF Moves

\* The pairs that the tab uses have been issued.
LEMMA PairBounds ==
  ASSUME Typed
  PROVE  /\ Len(issued) \in Nat /\ Len(issued) <= MaxPairs
         /\ tokens \in 0 .. Len(issued) /\ tokens \in 0 .. MaxPairs
         /\ refresh.pair \in 0 .. Len(issued) /\ refresh.pair \in 0 .. MaxPairs
<1>1. Len(issued) \in Nat /\ Len(issued) <= MaxPairs /\ MaxPairs \in Nat
  BY LenProperties, BoundAssumption DEF Typed
<1>2. tokens \in 0 .. Len(issued) /\ refresh.pair \in 0 .. Len(issued)
  BY DEF Typed
<1> QED
  BY <1>1, <1>2

\* Requests keep waiting only while there is a refresh.
LEMMA AwaitedStep ==
  ASSUME Typed, Typed', Awaited, [Next]_vars
  PROVE  Awaited'
<1> USE BoundAssumption
<1> DEFINE Asked(js, k, f) ==
             \A s \in Slots : \A p \in DOMAIN js[s] :
               /\ js[s][p].at \in {"sent", "refused"} => js[s][p].pair <= k
               /\ js[s][p].at = "waiting" => f # NoRefresh
           Shows == /\ refresh.at = "none" => refresh = NoRefresh
                    /\ refresh.at \in {"sent", "rotated"} => refresh.pair # 0
                    /\ shown => Authed
                    /\ socket.at # "none" => tokens # 0
                    /\ inbox > 0 => socket.at = "open"
<1>0. /\ Len(issued) \in Nat /\ Len(issued) <= MaxPairs /\ tokens \in 0 .. Len(issued)
      /\ tokens \in 0 .. MaxPairs /\ refresh.pair \in 0 .. Len(issued)
      /\ refresh.pair \in 0 .. MaxPairs /\ user \in Users \cup {NoUser} /\ inbox \in Nat
  BY PairBounds DEF Typed
<1>a. Asked(jobs, Len(issued), refresh) /\ Shows
  BY DEF Awaited
<1>b. Asked(jobs', Len(issued'), refresh') /\ Shows' => Awaited'
  BY DEF Awaited
<1>c. ASSUME NEW r, Moves(jobs', r), issued' = issued,
             r.at \in {"sent", "refused"} => r.pair <= Len(issued),
             r.at = "waiting" => refresh' # NoRefresh,
             refresh' = refresh \/ refresh' # NoRefresh
      PROVE  Asked(jobs', Len(issued'), refresh')
  <2> SUFFICES ASSUME NEW s \in Slots, NEW p \in DOMAIN jobs'[s]
               PROVE  /\ jobs'[s][p].at \in {"sent", "refused"} => jobs'[s][p].pair <= Len(issued)
                      /\ jobs'[s][p].at = "waiting" => refresh' # NoRefresh
    BY <1>c
  <2>1. p \in DOMAIN jobs[s] /\ (jobs'[s][p] = jobs[s][p] \/ jobs'[s][p] = r)
    BY <1>c, MovedRequests
  <2> QED
    BY <1>a, <1>c, <2>1
<1>d. ASSUME NEW s \in Slots, NEW n \in 0 .. Len(issued), Load(s, n),
             issued' = issued, refresh' = refresh
      PROVE  Asked(jobs', Len(issued'), refresh')
  <2>1. n \in 0 .. MaxPairs
    BY <1>0
  <2>2. /\ DOMAIN jobs'[s] = Parts /\ \A p \in Parts : jobs'[s][p] = Sent(n, TRUE)
        /\ \A x \in Slots \ {s} : jobs'[x] = jobs[x]
    BY <1>d, <2>1, LoadSends
  <2>6. n <= Len(issued)
    BY <1>0
  <2>3. Sent(n, TRUE).at = "sent" /\ Sent(n, TRUE).pair = n /\ n <= Len(issued)
    BY <2>1, <2>6, SentIsRequest
  <2> SUFFICES ASSUME NEW x \in Slots, NEW p \in DOMAIN jobs'[x]
               PROVE  /\ jobs'[x][p].at \in {"sent", "refused"} => jobs'[x][p].pair <= Len(issued)
                      /\ jobs'[x][p].at = "waiting" => refresh # NoRefresh
    BY <1>d
  <2>4. CASE x = s
    BY <2>2, <2>3, <2>4
  <2>5. CASE x # s
    BY <1>a, <2>2, <2>5
  <2> QED
    BY <2>4, <2>5
<1>e. ASSUME Clear PROVE user' = NoUser /\ tokens' = 0 /\ shown' = FALSE
                         /\ socket' = NoSocket /\ inbox' = 0
  BY <1>e DEF Clear
<1> HIDE DEF Asked, Shows
<1>1. CASE UNCHANGED vars
  BY <1>1, <1>a, <1>b DEF vars, server, signIn, sockets, Asked, Shows, Authed
<1>2. ASSUME NEW u \in Users, Login(u) PROVE Awaited'
  <2>1. Len(issued') = Len(issued) + 1
    BY <1>2, IssueAppends DEF Login
  <2>2. Shows'
    BY <1>2, <1>a DEF Login, sockets, Shows, Authed
  <2>3. /\ jobs' = jobs /\ refresh' = refresh
        /\ \A s \in Slots : \A p \in DOMAIN jobs[s] :
             jobs[s][p].at \in {"sent", "refused"} => jobs[s][p].pair \in 0 .. MaxPairs
    BY <1>2, RequestTypes DEF Login
  <2>4. Asked(jobs', Len(issued'), refresh')
    BY <1>0, <1>a, <2>1, <2>3 DEF Asked
  <2> QED
    BY <1>b, <2>2, <2>4
<1>3. ASSUME NEW u \in Users, Elsewhere(u) PROVE Awaited'
  BY <1>3, <1>a, <1>b DEF Elsewhere, Change, signIn, Asked, Shows, Authed
<1>4. ASSUME NEW n \in logins, NEW s \in Slots, LoginDone(n, s) PROVE Awaited'
  <2>0. n \in 1 .. Len(issued) /\ issued \in Seq(Users)
    BY DEF Typed
  <2>6. issued[n] \in Users
    BY <2>0, ElementOfSeq
  <2>7. n \in 0 .. Len(issued) /\ n # 0
    BY <1>0, <2>0
  <2>1. n \in 1 .. Len(issued) /\ n \in 0 .. Len(issued) /\ n # 0
        /\ issued[n] \in Users /\ issued[n] # NoUser
    BY <2>0, <2>6, <2>7, UserAssumption
  <2>2. Asked(jobs', Len(issued'), refresh')
    BY <1>4, <1>d, <2>1 DEF LoginDone, server
  <2>3. /\ refresh' = refresh /\ tokens' = n /\ user' = issued[n]
        /\ socket' = [at |-> "connecting", pair |-> n] /\ inbox' = 0
    BY <1>4 DEF LoginDone, Connect
  <2>4. Shows'
    BY <1>a, <2>1, <2>3 DEF Shows, Authed
  <2> QED
    BY <1>b, <2>2, <2>4
<1>5. CASE Logout
  BY <1>5, <1>a, <1>b DEF Logout, sockets, Asked, Shows, Authed
<1>6. CASE LogoutDone
  <2>1. Clear /\ refresh' = refresh /\ jobs' = jobs /\ issued' = issued
    BY <1>6 DEF LogoutDone, server
  <2> QED
    BY <1>a, <1>b, <1>e, <2>1 DEF Asked, Shows, NoSocket
<1>7. CASE ReloadPage
  <2>1. /\ refresh' = NoRefresh /\ shown' = Authed /\ inbox' = 0
        /\ issued' = issued /\ user' = user /\ tokens' = tokens
    BY <1>7 DEF ReloadPage
  <2>2. PICK s \in Slots :
       IF Authed
       THEN /\ jobs' = [x \in Slots |-> IF x = s THEN [p \in Parts |-> Sent(tokens, TRUE)]
                                        ELSE << >>]
            /\ socket' = [at |-> "connecting", pair |-> tokens]
       ELSE /\ jobs' = [x \in Slots |-> << >>]
            /\ socket' = NoSocket
    BY <1>7 DEF ReloadPage
  <2>7. (shown' <=> Authed) /\ Authed' = Authed
    BY <2>1 DEF Authed
  <2>9. socket' = NoSocket \/ tokens # 0
    BY <2>2 DEF Authed
  <2>8. socket'.at # "none" => tokens # 0
    BY <2>9 DEF NoSocket
  <2>3. Shows'
    BY <2>1, <2>7, <2>8 DEF Shows, NoRefresh
  <2>4. ASSUME NEW x \in Slots, NEW p \in DOMAIN jobs'[x]
        PROVE  jobs'[x][p] = Sent(tokens, TRUE)
    <3>1. DOMAIN << >> = {}
      OBVIOUS
    <3>2. CASE Authed
      <4>1. jobs'[x] = IF x = s THEN [q \in Parts |-> Sent(tokens, TRUE)] ELSE << >>
        BY <2>2, <3>2
      <4> QED
        BY <2>4, <3>1, <4>1
    <3>3. CASE ~Authed
      BY <2>2, <2>4, <3>1, <3>3
    <3> QED
      BY <3>2, <3>3
  <2>5. Sent(tokens, TRUE).at = "sent" /\ Sent(tokens, TRUE).pair = tokens
    BY <1>0, SentIsRequest
  <2>6. Asked(jobs', Len(issued'), refresh')
    <3> SUFFICES ASSUME NEW x \in Slots, NEW p \in DOMAIN jobs'[x]
                 PROVE  /\ jobs'[x][p].at = "sent" /\ jobs'[x][p].pair = tokens
      BY <1>0, <2>1 DEF Asked
    <3> QED
      BY <2>4, <2>5
  <2> QED
    BY <1>b, <2>3, <2>6
<1>8. ASSUME NEW s \in Slots, NEW p \in DOMAIN jobs[s], ServeList(s, p) PROVE Awaited'
  <2>1. /\ issued' = issued /\ refresh' = refresh /\ UNCHANGED signIn /\ UNCHANGED sockets
        /\ Moves(jobs', [at |-> "done", user |-> issued[jobs[s][p].pair], version |-> data])
    BY <1>8, RequestStep DEF ServeList, server
  <2>2. Asked(jobs', Len(issued'), refresh')
    BY <1>c, <2>1
  <2> QED
    BY <1>a, <1>b, <2>1, <2>2 DEF signIn, sockets, Shows, Authed
<1>9. ASSUME NEW s \in Slots, NEW p \in DOMAIN jobs[s], ServePut(s, p) PROVE Awaited'
  <2>1. /\ issued' = issued /\ refresh' = refresh /\ UNCHANGED signIn /\ socket' = socket
        /\ (Moves(jobs', [at |-> "done"]) \/ Moves(jobs', Failed))
    BY <1>9, RequestStep DEF ServePut
  <2>2. Asked(jobs', Len(issued'), refresh')
    BY <1>c, <2>1 DEF Failed
  <2>3. inbox' > 0 => socket.at = "open"
    <3>1. Change(issued[jobs[s][p].pair])
      BY <1>9 DEF ServePut
    <3> QED
      BY <1>a, <3>1 DEF Change, Shows
  <2> QED
    BY <1>a, <1>b, <2>1, <2>2, <2>3 DEF signIn, Shows, Authed
<1>10. ASSUME NEW s \in Slots, NEW p \in DOMAIN jobs[s], Refuse(s, p) \/ Fail(s, p)
       PROVE  Awaited'
  <2>1. /\ issued' = issued /\ refresh' = refresh /\ UNCHANGED signIn /\ UNCHANGED sockets
        /\ \/ Moves(jobs', [at |-> "refused", pair |-> jobs[s][p].pair])
           \/ Moves(jobs', Failed)
        /\ jobs[s][p].at = "sent"
    BY <1>10, RequestStep DEF Refuse, Fail, server
  <2>2. jobs[s][p].pair <= Len(issued)
    BY <1>a, <2>1 DEF Asked
  <2>3. Asked(jobs', Len(issued'), refresh')
    BY <1>c, <2>1, <2>2 DEF Failed
  <2> QED
    BY <1>a, <1>b, <2>1, <2>3 DEF signIn, sockets, Shows, Authed
<1>11. ASSUME NEW s \in Slots, NEW p \in DOMAIN jobs[s], Retry(s, p) PROVE Awaited'
  <2>1. /\ issued' = issued /\ UNCHANGED signIn /\ UNCHANGED sockets
        /\ \/ tokens = 0 /\ Moves(jobs', Failed) /\ refresh' = refresh
           \/ /\ tokens # 0 /\ Moves(jobs', [at |-> "waiting"])
              /\ refresh' = IF refresh = NoRefresh
                            THEN [at |-> "sent", pair |-> tokens] ELSE refresh
    BY <1>11, RequestStep DEF Retry, server
  <2>2. Asked(jobs', Len(issued'), refresh')
    <3>1. CASE Moves(jobs', Failed) /\ refresh' = refresh
      BY <1>c, <2>1, <3>1 DEF Failed
    <3>2. CASE /\ Moves(jobs', [at |-> "waiting"])
               /\ refresh' = IF refresh = NoRefresh
                             THEN [at |-> "sent", pair |-> tokens] ELSE refresh
      <4>1. refresh' # NoRefresh
        BY <3>2 DEF NoRefresh
      <4> QED
        BY <1>c, <2>1, <3>2, <4>1
    <3> QED
      BY <2>1, <3>1, <3>2
  <2>3. Shows'
    BY <1>a, <2>1 DEF signIn, sockets, Shows, Authed
  <2> QED
    BY <1>b, <2>2, <2>3
<1>12. ASSUME NEW s \in Slots, Land(s) PROVE Awaited'
  <2>1. /\ jobs' = [jobs EXCEPT ![s] = << >>] /\ issued' = issued /\ refresh' = refresh
        /\ user' = user /\ tokens' = tokens /\ shown' = Authed /\ UNCHANGED sockets
    BY <1>12 DEF Land, server
  <2>2. \A x \in Slots : jobs'[x] = jobs[x] \/ jobs'[x] = << >>
    BY <2>1 DEF Typed
  <2>3. DOMAIN << >> = {}
    OBVIOUS
  <2>4. Asked(jobs', Len(issued'), refresh')
    BY <1>a, <2>1, <2>2, <2>3 DEF Asked
  <2>5. Shows'
    BY <1>a, <2>1 DEF sockets, Shows, Authed
  <2> QED
    BY <1>b, <2>4, <2>5
<1>13. ASSUME NEW s \in Slots, Put(s) PROVE Awaited'
  <2>1. /\ jobs' = [jobs EXCEPT ![s] = [p \in {"put"} |-> Sent(tokens, TRUE)]]
        /\ issued' = issued /\ refresh' = refresh /\ UNCHANGED signIn /\ UNCHANGED sockets
    BY <1>13 DEF Put, server
  <2>2. /\ jobs'[s] = [p \in {"put"} |-> Sent(tokens, TRUE)]
        /\ \A x \in Slots \ {s} : jobs'[x] = jobs[x]
    BY <2>1 DEF Typed
  <2>3. Sent(tokens, TRUE).at = "sent" /\ Sent(tokens, TRUE).pair = tokens
    BY <1>0, SentIsRequest
  <2>4. Asked(jobs', Len(issued'), refresh')
    <3> SUFFICES ASSUME NEW x \in Slots, NEW p \in DOMAIN jobs'[x]
                 PROVE  /\ jobs'[x][p].at \in {"sent", "refused"} =>
                             jobs'[x][p].pair <= Len(issued)
                        /\ jobs'[x][p].at = "waiting" => refresh # NoRefresh
      BY <2>1 DEF Asked
    <3>1. CASE x = s
      <4>1. jobs'[x][p] = Sent(tokens, TRUE)
        BY <2>2, <3>1
      <4>2. tokens <= Len(issued)
        BY <1>0
      <4> QED
        BY <2>3, <4>1, <4>2
    <3>2. CASE x # s
      BY <1>a, <2>2, <3>2 DEF Asked
    <3> QED
      BY <3>1, <3>2
  <2>5. Shows'
    BY <1>a, <2>1 DEF signIn, sockets, Shows, Authed
  <2> QED
    BY <1>b, <2>4, <2>5
<1>14. ASSUME NEW s \in Slots, PutDone(s) \/ ReloadButton(s) \/ OnMessage(s) PROVE Awaited'
  <2>1. /\ Load(s, tokens) /\ UNCHANGED <<issued, user, tokens, shown, refresh, socket>>
        /\ inbox' > 0 => inbox > 0
    BY <1>0, <1>14 DEF PutDone, ReloadButton, OnMessage, server, signIn, sockets
  <2>2. Asked(jobs', Len(issued'), refresh')
    BY <1>0, <1>d, <2>1
  <2>3. Shows'
    BY <1>a, <2>1 DEF Shows, Authed
  <2> QED
    BY <1>b, <2>2, <2>3
<1>15. CASE Rotate
  <2>1. refresh.pair \in live /\ issued[refresh.pair] \in Users
    BY <1>15 DEF Rotate, Typed
  <2>2. Len(issued') = Len(issued) + 1
    BY <1>15, <2>1, IssueAppends DEF Rotate
  <2>3. /\ jobs' = jobs /\ UNCHANGED signIn /\ UNCHANGED sockets
        /\ \/ refresh' = [at |-> "rotated", pair |-> Len(issued) + 1]
           \/ refresh' = [at |-> "failed", pair |-> 0]
    BY <1>15, <2>2 DEF Rotate
  <2>4. refresh' # NoRefresh
    BY <2>3 DEF NoRefresh
  <2>5. \A s \in Slots : \A p \in DOMAIN jobs[s] :
          jobs[s][p].at \in {"sent", "refused"} => jobs[s][p].pair \in 0 .. MaxPairs
    BY RequestTypes
  <2>6. Asked(jobs', Len(issued'), refresh')
    BY <1>0, <1>a, <2>2, <2>3, <2>4, <2>5 DEF Asked
  <2>7. Shows'
    BY <1>0, <1>a, <2>3 DEF signIn, sockets, Shows, Authed
  <2> QED
    BY <1>b, <2>6, <2>7
<1>16. CASE RefuseRefresh
  <2>1. /\ jobs' = jobs /\ UNCHANGED signIn /\ UNCHANGED sockets /\ issued' = issued
        /\ refresh' = [at |-> "failed", pair |-> 0]
    BY <1>16 DEF RefuseRefresh, server
  <2>2. refresh' # NoRefresh
    BY <2>1 DEF NoRefresh
  <2> QED
    BY <1>a, <1>b, <2>1, <2>2 DEF signIn, sockets, Asked, Shows, Authed
<1>17. CASE Refreshed
  <2>1. /\ tokens' = refresh.pair /\ refresh' = NoRefresh /\ issued' = issued
        /\ UNCHANGED <<user, shown>> /\ UNCHANGED sockets
        /\ jobs' = Awoken(Sent(refresh.pair, FALSE)) /\ refresh.pair # 0
    BY <1>17, <1>a DEF Refreshed, server, Shows
  <2>2. /\ Sent(refresh.pair, FALSE) \in Unanswered /\ Sent(refresh.pair, FALSE).at = "sent"
        /\ Sent(refresh.pair, FALSE).pair = refresh.pair /\ jobs \in [Slots -> Jobs]
    BY <1>0, SentIsRequest DEF Typed
  <2>3. /\ Moves(jobs', Sent(refresh.pair, FALSE))
        /\ \A x \in Slots : \A q \in DOMAIN jobs'[x] : jobs'[x][q].at # "waiting"
    BY <2>1, <2>2, AwokenMoves
  <2>4. Asked(jobs', Len(issued'), refresh')
    <3> SUFFICES ASSUME NEW s \in Slots, NEW p \in DOMAIN jobs'[s]
                 PROVE  /\ jobs'[s][p].at \in {"sent", "refused"} =>
                             jobs'[s][p].pair <= Len(issued)
                        /\ jobs'[s][p].at # "waiting"
      BY <2>1 DEF Asked
    <3>1. /\ p \in DOMAIN jobs[s]
          /\ (jobs'[s][p] = jobs[s][p] \/ jobs'[s][p] = Sent(refresh.pair, FALSE))
      <4>1. Moves(jobs', Sent(refresh.pair, FALSE))
        BY <2>3
      <4> QED
        BY <4>1, MovedRequests
    <3>2. jobs[s][p].at \in {"sent", "refused"} => jobs[s][p].pair <= Len(issued)
      BY <1>a, <3>1 DEF Asked
    <3>3. refresh.pair <= Len(issued)
      BY <1>0
    <3>4. jobs'[s][p].at \in {"sent", "refused"} => jobs'[s][p].pair <= Len(issued)
      <4>1. CASE jobs'[s][p] = jobs[s][p]
        BY <3>2, <4>1
      <4>2. CASE jobs'[s][p] = Sent(refresh.pair, FALSE)
        BY <2>2, <3>3, <4>2
      <4> QED
        BY <3>1, <4>1, <4>2
    <3> QED
      BY <2>3, <3>4
  <2>5. Shows'
    BY <1>a, <2>1 DEF sockets, Shows, Authed, NoRefresh
  <2> QED
    BY <1>b, <2>4, <2>5
<1>18. CASE RefreshFailed
  <2>1. /\ Clear /\ refresh' = NoRefresh /\ issued' = issued /\ jobs' = Awoken(Failed)
    BY <1>18 DEF RefreshFailed, server
  <2>2. Failed \in Unanswered /\ Failed.at = "failed" /\ jobs \in [Slots -> Jobs]
    BY SentIsRequest DEF Typed
  <2>3. /\ Moves(jobs', Failed)
        /\ \A x \in Slots : \A q \in DOMAIN jobs'[x] : jobs'[x][q].at # "waiting"
    BY <2>1, <2>2, AwokenMoves
  <2>4. Asked(jobs', Len(issued'), refresh')
    <3> SUFFICES ASSUME NEW s \in Slots, NEW p \in DOMAIN jobs'[s]
                 PROVE  /\ jobs'[s][p].at \in {"sent", "refused"} =>
                             jobs'[s][p].pair <= Len(issued)
                        /\ jobs'[s][p].at # "waiting"
      BY <2>1 DEF Asked
    <3>1. /\ p \in DOMAIN jobs[s]
          /\ (jobs'[s][p] = jobs[s][p] \/ jobs'[s][p] = Failed)
      BY <2>3, MovedRequests
    <3>2. jobs[s][p].at \in {"sent", "refused"} => jobs[s][p].pair <= Len(issued)
      BY <1>a, <3>1 DEF Asked
    <3>3. jobs'[s][p].at \in {"sent", "refused"} => jobs'[s][p].pair <= Len(issued)
      <4>1. CASE jobs'[s][p] = jobs[s][p]
        BY <3>2, <4>1
      <4>2. CASE jobs'[s][p] = Failed
        BY <4>2 DEF Failed
      <4> QED
        BY <3>1, <4>1, <4>2
    <3> QED
      BY <2>3, <3>3, Zenon
  <2>5. Shows'
    BY <1>e, <2>1 DEF Shows, Authed, NoRefresh, NoSocket
  <2> QED
    BY <1>b, <2>4, <2>5
<1>19. CASE Open
  <2>1. /\ UNCHANGED <<issued, user, tokens, shown, refresh, jobs, inbox>>
        /\ socket.at = "connecting" /\ socket' = [socket EXCEPT !.at = "open"]
    BY <1>19 DEF Open, server, signIn
  <2>2. socket'.at = "open"
    BY <2>1 DEF Typed
  <2> QED
    BY <1>a, <1>b, <2>1, <2>2 DEF Asked, Shows, Authed
<1>20. CASE SocketCloses \/ OldSocketCloses \/ Reconnect
  <2>1. UNCHANGED <<issued, user, tokens, shown, refresh, jobs>>
    BY <1>20 DEF SocketCloses, OldSocketCloses, Reconnect, server, signIn
  <2>2. /\ socket'.at # "none" => tokens # 0
        /\ inbox' > 0 => socket'.at = "open"
    BY <1>20, <1>a DEF SocketCloses, OldSocketCloses, Reconnect, Connect, NoSocket, Shows
  <2> QED
    BY <1>a, <1>b, <2>1, <2>2 DEF Asked, Shows, Authed
<1>21. CASE AccessExpires \/ RefreshExpires
  <2>1. UNCHANGED <<issued, user, tokens, shown, refresh, jobs, socket, inbox>>
    BY <1>21 DEF AccessExpires, RefreshExpires, signIn, sockets
  <2> QED
    BY <1>a, <1>b, <2>1 DEF Asked, Shows, Authed
<1> QED
  BY <1>1, <1>2, <1>3, <1>4, <1>5, <1>6, <1>7, <1>8, <1>9, <1>10, <1>11, <1>12, <1>13, <1>14,
     <1>15, <1>16, <1>17, <1>18, <1>19, <1>20, <1>21 DEF Next, Requests

------------------------------------------------------------------------------
\* The parts of Own, over the variables that they are about.
Belongs(js, iss, u) ==
  \A s \in Slots : \A p \in DOMAIN js[s] :
    /\ js[s][p].at \in {"sent", "refused"} => js[s][p].pair # 0 /\ iss[js[s][p].pair] = u
    /\ js[s][p].at = "done" /\ p # "put" => js[s][p].user = u
SignIn(js, iss, u, t, f, l) ==
  /\ u = NoUser <=> t = 0
  /\ t # 0 => iss[t] = u
  /\ u = NoUser => (\A s \in Slots : js[s] = << >>) /\ f = NoRefresh /\ l = 0
  /\ f.at = "sent" => f.pair = t
  /\ f.at = "rotated" => iss[f.pair] = u
ListsOf(ls, u, v) == \A p \in Parts : p # Stats \/ v => ls[p].user \in {u, NoUser}

\* Own, in the parts that the steps change one at a time.
LEMMA OwnParts ==
  Own <=> (~leftover => /\ Belongs(jobs, issued, user)
                        /\ SignIn(jobs, issued, user, tokens, refresh, leaving)
                        /\ ListsOf(lists, user, shown))
<1>1. Flying = {} <=> \A s \in Slots : jobs[s] = << >>
  BY DEF Flying
<1> QED
  BY <1>1 DEF Own, Belongs, SignIn, ListsOf

\* The answer to a change is none to a list.
LEMMA PutIsNoList == [at |-> "done"] \notin ListRequest
  BY DEF ListRequest, Unanswered

\* A request that becomes one of the signed-in user belongs to them.
LEMMA OwnMoves ==
  ASSUME Belongs(jobs, issued, user), NEW js, NEW r, Moves(js, r),
         r.at \in {"sent", "refused"} => r.pair # 0 /\ issued[r.pair] = user,
         r.at = "done" => r.user = user \/ r = [at |-> "done"]
  PROVE  Belongs(js, issued, user)
<1> SUFFICES ASSUME NEW s \in Slots, NEW p \in DOMAIN js[s]
             PROVE  /\ js[s][p].at \in {"sent", "refused"} =>
                         js[s][p].pair # 0 /\ issued[js[s][p].pair] = user
                    /\ js[s][p].at = "done" /\ p # "put" => js[s][p].user = user
  BY DEF Belongs
<1>1. p \in DOMAIN jobs[s] /\ (js[s][p] = jobs[s][p] \/ js[s][p] = r)
  BY MovedRequests
<1>2. CASE js[s][p] = jobs[s][p]
  BY <1>1, <1>2 DEF Belongs
<1>3. CASE js[s][p] = r
  <2>1. p # "put" => r \in ListRequest
    <3>1. js[s] \in Jobs
      BY DEF Moves
    <3> QED
      BY <1>3, <3>1, JobShapes
  <2>2. r.at = "done" /\ p # "put" => r.user = user
    BY <2>1, PutIsNoList
  <2> QED
    BY <1>3, <2>2
<1> QED
  BY <1>1, <1>2, <1>3

\* Requests and pairs stay their user's while the server makes another pair.
LEMMA OwnIssue ==
  ASSUME Typed, Awaited, Belongs(jobs, issued, user),
         SignIn(jobs, issued, user, tokens, refresh, leaving),
         NEW u \in Users, Issue(u)
  PROVE  /\ Belongs(jobs, issued', user)
         /\ SignIn(jobs, issued', user, tokens, refresh, leaving)
<1>1. \A i \in 1 .. Len(issued) : issued'[i] = issued[i]
  BY IssueAppends
<1>2. Len(issued) \in Nat /\ tokens \in 0 .. Len(issued) /\ refresh.pair \in 0 .. Len(issued)
      /\ MaxPairs \in Nat
  BY LenProperties, BoundAssumption DEF Typed
<1>3. ASSUME NEW s \in Slots, NEW p \in DOMAIN jobs[s], jobs[s][p].at \in {"sent", "refused"}
      PROVE  issued'[jobs[s][p].pair] = issued[jobs[s][p].pair]
  <2>1. jobs[s][p].pair # 0 /\ jobs[s][p].pair <= Len(issued)
    BY <1>3 DEF Belongs, Awaited
  <2>2. jobs[s][p].pair \in 0 .. MaxPairs
    BY <1>3, RequestTypes
  <2>3. jobs[s][p].pair \in 1 .. Len(issued)
    BY <1>2, <2>1, <2>2
  <2> QED
    BY <1>1, <2>3
<1>4. tokens # 0 => issued'[tokens] = issued[tokens]
  <2>1. tokens # 0 => tokens \in 1 .. Len(issued)
    BY <1>2
  <2> QED
    BY <1>1, <2>1
<1>5. refresh.at = "rotated" => issued'[refresh.pair] = issued[refresh.pair]
  <2>1. refresh.at = "rotated" => refresh.pair \in 1 .. Len(issued)
    BY <1>2 DEF Awaited
  <2> QED
    BY <1>1, <2>1
<1> QED
  BY <1>3, <1>4, <1>5 DEF Belongs, SignIn

\* What is in flight stays that of the user who is signed in.
LEMMA OwnStep ==
  ASSUME Typed, Typed', Awaited, Own, [Next]_vars
  PROVE  Own'
<1> USE BoundAssumption
<1> DEFINE B == Belongs(jobs, issued, user)
           S == SignIn(jobs, issued, user, tokens, refresh, leaving)
           L == ListsOf(lists, user, shown)
<1>0. /\ Len(issued) \in Nat /\ tokens \in 0 .. Len(issued) /\ tokens \in 0 .. MaxPairs
      /\ refresh.pair \in 0 .. MaxPairs /\ refresh.pair \in 0 .. Len(issued)
  BY PairBounds
<1>a. ~leftover => B /\ S /\ L
  BY OwnParts
<1>b. Own' <=> (~leftover' => B' /\ S' /\ L')
  <2>1. Flying' = {} <=> \A s \in Slots : jobs'[s] = << >>
    BY DEF Flying
  <2> QED
    BY <2>1 DEF Own, Belongs, SignIn, ListsOf
<1>c. /\ ~leftover /\ tokens # 0 => issued[tokens] = user /\ user # NoUser
      /\ ~leftover => \A s \in Slots : jobs[s] # << >> => user # NoUser /\ tokens # 0
      /\ ~leftover /\ refresh # NoRefresh => user # NoUser /\ tokens # 0
      /\ shown => tokens # 0
      /\ inbox > 0 => tokens # 0
  BY <1>a DEF SignIn, Awaited, Authed
\* Requests that are answered, refused or sent again.
<1>d. ASSUME ~leftover, NEW r, Moves(jobs', r), UNCHANGED <<issued, user, tokens, shown, leaving, lists>>,
             r.at \in {"sent", "refused"} => r.pair # 0 /\ issued[r.pair] = user,
             r.at = "done" => r.user = user \/ r = [at |-> "done"],
             \/ refresh' = refresh
             \/ refresh' = [at |-> "sent", pair |-> tokens] /\ tokens # 0
      PROVE  Own'
  <2>1. B'
    BY <1>a, <1>d, OwnMoves
  <2>2. \A s \in Slots : jobs[s] = << >> => jobs'[s] = << >>
    BY <1>d DEF Moves
  <2>3. S'
    BY <1>a, <1>d, <2>2 DEF SignIn, NoRefresh
  <2> QED
    BY <1>a, <1>b, <1>d, <2>1, <2>3
\* A load that the tab sends with its token.
<1>e. ASSUME ~leftover, tokens # 0, NEW s \in Slots, Load(s, tokens),
             UNCHANGED <<issued, user, tokens, shown, leaving, refresh, lists>>
      PROVE  Own'
  <2>1. /\ DOMAIN jobs'[s] = Parts /\ \A p \in Parts : jobs'[s][p] = Sent(tokens, TRUE)
        /\ \A x \in Slots \ {s} : jobs'[x] = jobs[x]
    BY <1>0, <1>e, LoadSends
  <2>2. Sent(tokens, TRUE).at = "sent" /\ Sent(tokens, TRUE).pair = tokens
    BY <1>0, SentIsRequest
  <2>3. Belongs(jobs', issued, user)
    <3> SUFFICES ASSUME NEW x \in Slots, NEW p \in DOMAIN jobs'[x]
                 PROVE  /\ jobs'[x][p].at \in {"sent", "refused"} =>
                             jobs'[x][p].pair # 0 /\ issued[jobs'[x][p].pair] = user
                        /\ jobs'[x][p].at = "done" /\ p # "put" => jobs'[x][p].user = user
      BY DEF Belongs
    <3>1. CASE x = s
      <4>1. jobs'[x][p] = Sent(tokens, TRUE)
        BY <2>1, <3>1
      <4> QED
        BY <1>c, <1>e, <2>2, <4>1
    <3>2. CASE x # s
      BY <1>a, <1>e, <2>1, <3>2 DEF Belongs
    <3> QED
      BY <3>1, <3>2
  <2>4. S'
    BY <1>a, <1>c, <1>e DEF SignIn
  <2> QED
    BY <1>a, <1>b, <1>e, <2>3, <2>4
\* The tab has signed out, and nothing is in flight.
<1>f. ASSUME Clear, leaving' = 0, refresh' = NoRefresh, \A s \in Slots : jobs'[s] = << >>
      PROVE  Own'
  <2>1. /\ user' = NoUser /\ tokens' = 0 /\ shown' = FALSE
        /\ lists' = [p \in Parts |-> IF p = Stats THEN lists[p] ELSE NoList]
    BY <1>f DEF Clear
  <2>2. B'
    <3>1. DOMAIN << >> = {}
      OBVIOUS
    <3> QED
      BY <1>f, <3>1 DEF Belongs
  <2>3. S'
    BY <1>f, <2>1 DEF SignIn, NoRefresh
  <2>4. L'
    BY <2>1 DEF ListsOf, NoList
  <2> QED
    BY <1>b, <2>2, <2>3, <2>4
<1>g. ASSUME leftover' = leftover, UNCHANGED <<issued, user, tokens, shown, leaving, refresh, jobs, lists>>
      PROVE  Own'
  BY <1>a, <1>b, <1>g
<1> HIDE DEF B, S, L
<1>1. CASE UNCHANGED vars
  BY <1>1, <1>g DEF vars, server, signIn, history
<1>2. ASSUME NEW u \in Users, Login(u) PROVE Own'
  <2>1. Issue(u) /\ UNCHANGED <<user, tokens, shown, leaving, refresh, jobs, lists, leftover>>
    BY <1>2 DEF Login, history
  <2>2. ~leftover => B' /\ S'
    BY <1>a, <2>1, OwnIssue DEF B, S
  <2> QED
    BY <1>a, <1>b, <2>1, <2>2 DEF L
<1>3. ASSUME NEW u \in Users, Elsewhere(u) PROVE Own'
  BY <1>3, <1>g DEF Elsewhere, Change, signIn, history
<1>4. ASSUME NEW n \in logins, NEW s \in Slots, LoginDone(n, s) PROVE Own'
  <2> SUFFICES ASSUME ~leftover, user = NoUser PROVE Own'
    BY <1>4, <1>b DEF LoginDone, Typed, Flags
  <2>1. n \in 1 .. Len(issued) /\ issued \in Seq(Users)
    BY DEF Typed
  <2>2. issued[n] \in Users /\ issued[n] # NoUser
    BY <2>1, ElementOfSeq, UserAssumption
  <2>3. n # 0 /\ n \in 0 .. MaxPairs
    <3>1. Len(issued) <= MaxPairs
      BY PairBounds
    <3> QED
      BY <1>0, <2>1, <3>1
  <2>4. /\ user' = issued[n] /\ tokens' = n /\ Load(s, n)
        /\ shown' = (tokens # 0)
        /\ UNCHANGED <<issued, leaving, refresh, lists>>
    BY <1>4 DEF LoginDone, server
  <2>5. /\ DOMAIN jobs'[s] = Parts /\ \A p \in Parts : jobs'[s][p] = Sent(n, TRUE)
        /\ \A x \in Slots \ {s} : jobs'[x] = jobs[x]
    BY <2>3, <2>4, LoadSends
  <2>6. Sent(n, TRUE).at = "sent" /\ Sent(n, TRUE).pair = n
    BY <2>3, SentIsRequest
  <2>7. (\A x \in Slots : jobs[x] = << >>) /\ refresh = NoRefresh
    BY <1>a DEF S, SignIn
  <2>8. Belongs(jobs', issued, issued[n])
    <3> SUFFICES ASSUME NEW x \in Slots, NEW p \in DOMAIN jobs'[x]
                 PROVE  jobs'[x][p] = Sent(n, TRUE)
      BY <2>3, <2>6 DEF Belongs
    <3>1. DOMAIN << >> = {}
      OBVIOUS
    <3>2. x = s
      BY <2>5, <2>7, <3>1
    <3> QED
      BY <2>5, <3>2
  <2>9. S'
    BY <2>2, <2>3, <2>4, <2>7 DEF S, SignIn, NoRefresh
  <2>10. L'
    <3>1. ~shown'
      BY <1>a, <2>4 DEF S, SignIn
    <3> QED
      BY <1>a, <2>4, <3>1 DEF L, ListsOf
  <2> QED
    BY <1>b, <2>4, <2>8, <2>9, <2>10 DEF B
<1>5. CASE Logout
  <2>1. UNCHANGED <<issued, user, tokens, shown, refresh, jobs, lists, leftover>> /\ shown
    BY <1>5 DEF Logout
  <2>2. ~leftover => S'
    BY <1>a, <1>c, <2>1 DEF S, SignIn
  <2> QED
    BY <1>a, <1>b, <2>1, <2>2 DEF B, L
<1>6. CASE LogoutDone
  <2>1. /\ Clear /\ leaving' \in Nat /\ UNCHANGED <<refresh, jobs>>
        /\ leftover' = (leaving' > 0 \/ Flying # {} \/ logins # {} \/ refresh # NoRefresh)
    BY <1>6 DEF LogoutDone, Typed
  <2> SUFFICES ASSUME ~leftover' PROVE Own'
    BY <1>b
  <2>2. refresh = NoRefresh /\ Flying = {} /\ ~(leaving' > 0)
    BY <2>1
  <2>4. leaving' = 0
    BY <2>1, <2>2
  <2>3. \A s \in Slots : jobs[s] = << >>
    BY <2>2 DEF Flying
  <2> QED
    BY <1>f, <2>1, <2>2, <2>3, <2>4
<1>7. CASE ReloadPage
  <2> SUFFICES ASSUME ~leftover PROVE Own'
    BY <1>7, <1>b DEF ReloadPage
  <2>1. /\ UNCHANGED <<issued, user, tokens>> /\ leaving' = 0 /\ refresh' = NoRefresh
        /\ lists' = [p \in Parts |-> NoList] /\ user # NoUser
    BY <1>7 DEF ReloadPage
  <2>2. tokens # 0 /\ Authed /\ issued[tokens] = user
    BY <1>a, <2>1 DEF S, SignIn, Authed
  <2>3. PICK s \in Slots :
       jobs' = [x \in Slots |-> IF x = s THEN [p \in Parts |-> Sent(tokens, TRUE)] ELSE << >>]
    BY <1>7, <2>2 DEF ReloadPage
  <2>4. Sent(tokens, TRUE).at = "sent" /\ Sent(tokens, TRUE).pair = tokens
    BY <1>0, SentIsRequest
  <2>5. Belongs(jobs', issued, user)
    <3> SUFFICES ASSUME NEW x \in Slots, NEW p \in DOMAIN jobs'[x]
                 PROVE  jobs'[x][p] = Sent(tokens, TRUE)
      BY <2>2, <2>4 DEF Belongs
    <3>1. DOMAIN << >> = {}
      OBVIOUS
    <3>2. jobs'[x] = IF x = s THEN [q \in Parts |-> Sent(tokens, TRUE)] ELSE << >>
      BY <2>3
    <3> QED
      BY <3>1, <3>2
  <2>6. S'
    BY <2>1, <2>2 DEF S, SignIn, NoRefresh
  <2>7. L'
    BY <2>1 DEF L, ListsOf, NoList
  <2> QED
    BY <1>b, <2>1, <2>5, <2>6, <2>7 DEF B
<1>8. ASSUME NEW s \in Slots, NEW p \in DOMAIN jobs[s], ServeList(s, p) PROVE Own'
  <2> SUFFICES ASSUME ~leftover PROVE Own'
    BY <1>8, <1>b DEF ServeList, history
  <2>1. /\ UNCHANGED <<issued, user, tokens, shown, leaving, refresh, lists>>
        /\ jobs[s][p].at = "sent"
        /\ Moves(jobs', [at |-> "done", user |-> issued[jobs[s][p].pair], version |-> data])
    BY <1>8, RequestStep DEF ServeList, server, signIn
  <2>2. issued[jobs[s][p].pair] = user
    BY <1>a, <2>1 DEF B, Belongs
  <2> QED
    BY <1>d, <2>1, <2>2
<1>9. ASSUME NEW s \in Slots, NEW p \in DOMAIN jobs[s], ServePut(s, p) PROVE Own'
  <2> SUFFICES ASSUME ~leftover PROVE Own'
    BY <1>9, <1>b DEF ServePut, history
  <2>1. /\ UNCHANGED <<issued, user, tokens, shown, leaving, refresh, lists>>
        /\ (Moves(jobs', [at |-> "done"]) \/ Moves(jobs', Failed))
    BY <1>9, RequestStep DEF ServePut, signIn
  <2> QED
    BY <1>d, <2>1 DEF Failed
<1>10. ASSUME NEW s \in Slots, NEW p \in DOMAIN jobs[s], Refuse(s, p) \/ Fail(s, p)
       PROVE  Own'
  <2> SUFFICES ASSUME ~leftover PROVE Own'
    BY <1>10, <1>b DEF Refuse, Fail
  <2>1. /\ UNCHANGED <<issued, user, tokens, shown, leaving, refresh, lists>>
        /\ \/ Moves(jobs', [at |-> "refused", pair |-> jobs[s][p].pair])
           \/ Moves(jobs', Failed)
        /\ jobs[s][p].at = "sent"
    BY <1>10, RequestStep DEF Refuse, Fail, server, signIn
  <2>2. jobs[s][p].pair # 0 /\ issued[jobs[s][p].pair] = user
    BY <1>a, <2>1 DEF B, Belongs
  <2>3. CASE Moves(jobs', Failed)
    BY <1>d, <2>1, <2>3 DEF Failed
  <2>4. CASE Moves(jobs', [at |-> "refused", pair |-> jobs[s][p].pair])
    BY <1>d, <2>1, <2>2, <2>4
  <2> QED
    BY <2>1, <2>3, <2>4
<1>11. ASSUME NEW s \in Slots, NEW p \in DOMAIN jobs[s], Retry(s, p) PROVE Own'
  <2> SUFFICES ASSUME ~leftover PROVE Own'
    BY <1>11, <1>b DEF Retry
  <2>1. /\ UNCHANGED <<issued, user, tokens, shown, leaving, lists>>
        /\ \/ tokens = 0 /\ Moves(jobs', Failed) /\ refresh' = refresh
           \/ /\ tokens # 0 /\ Moves(jobs', [at |-> "waiting"])
              /\ refresh' = IF refresh = NoRefresh
                            THEN [at |-> "sent", pair |-> tokens] ELSE refresh
    BY <1>11, RequestStep DEF Retry, server, signIn
  <2>2. CASE Moves(jobs', Failed) /\ refresh' = refresh
    BY <1>d, <2>1, <2>2 DEF Failed
  <2>3. CASE /\ tokens # 0 /\ Moves(jobs', [at |-> "waiting"])
             /\ refresh' = IF refresh = NoRefresh
                           THEN [at |-> "sent", pair |-> tokens] ELSE refresh
    <3>1. \/ refresh' = refresh
          \/ refresh' = [at |-> "sent", pair |-> tokens] /\ tokens # 0
      BY <2>3
    <3> QED
      BY <1>d, <2>1, <2>3, <3>1
  <2> QED
    BY <2>1, <2>2, <2>3
<1>12. ASSUME NEW s \in Slots, Land(s) PROVE Own'
  <2> SUFFICES ASSUME ~leftover PROVE Own'
    BY <1>12, <1>b DEF Land, history
  <2>1. /\ UNCHANGED <<issued, user, tokens, leaving, refresh>>
        /\ s \in Loading /\ \A p \in Parts : jobs[s][p].at = "done"
        /\ lists' = [p \in Parts |-> [user |-> jobs[s][p].user,
                                      version |-> jobs[s][p].version]]
        /\ \A x \in Slots : jobs'[x] = jobs[x] \/ jobs'[x] = << >>
    BY <1>12 DEF Land, server, Typed
  <2>2. DOMAIN << >> = {}
    OBVIOUS
  <2>3. Belongs(jobs', issued, user)
    BY <1>a, <2>1, <2>2 DEF B, Belongs
  <2>4. S'
    BY <1>a, <2>1 DEF S, SignIn
  <2>5. L'
    <3> SUFFICES ASSUME NEW p \in Parts PROVE jobs[s][p].user = user
      BY <2>1 DEF L, ListsOf
    <3>1. p \in DOMAIN jobs[s] /\ p # "put"
      BY <2>1, PartAssumption DEF Loading, Flying
    <3> QED
      BY <1>a, <2>1, <3>1 DEF B, Belongs, Loading, Flying
  <2> QED
    BY <1>b, <2>1, <2>3, <2>4, <2>5 DEF B
<1>13. ASSUME NEW s \in Slots, Put(s) PROVE Own'
  <2> SUFFICES ASSUME ~leftover PROVE Own'
    BY <1>13, <1>b DEF Put, history
  <2>1. /\ UNCHANGED <<issued, user, tokens, shown, leaving, refresh, lists>> /\ shown
        /\ jobs'[s] = [p \in {"put"} |-> Sent(tokens, TRUE)]
        /\ \A x \in Slots \ {s} : jobs'[x] = jobs[x]
    BY <1>13 DEF Put, server, signIn, Typed
  <2>2. Sent(tokens, TRUE).at = "sent" /\ Sent(tokens, TRUE).pair = tokens
    BY <1>0, SentIsRequest
  <2>3. Belongs(jobs', issued, user)
    <3> SUFFICES ASSUME NEW x \in Slots, NEW p \in DOMAIN jobs'[x]
                 PROVE  /\ jobs'[x][p].at \in {"sent", "refused"} =>
                             jobs'[x][p].pair # 0 /\ issued[jobs'[x][p].pair] = user
                        /\ jobs'[x][p].at = "done" /\ p # "put" => jobs'[x][p].user = user
      BY DEF Belongs
    <3>1. CASE x = s
      <4>1. jobs'[x][p] = Sent(tokens, TRUE)
        BY <2>1, <3>1
      <4> QED
        BY <1>c, <2>1, <2>2, <4>1
    <3>2. CASE x # s
      BY <1>a, <2>1, <3>2 DEF B, Belongs
    <3> QED
      BY <3>1, <3>2
  <2>4. S'
    BY <1>a, <1>c, <2>1 DEF S, SignIn
  <2> QED
    BY <1>a, <1>b, <2>1, <2>3, <2>4 DEF B, L
<1>14. ASSUME NEW s \in Slots, PutDone(s) \/ ReloadButton(s) \/ OnMessage(s) PROVE Own'
  <2>0. leftover' = leftover
    BY <1>14 DEF PutDone, ReloadButton, OnMessage
  <2> SUFFICES ASSUME ~leftover PROVE Own'
    BY <1>b, <2>0
  <2>1. /\ Load(s, tokens) /\ UNCHANGED <<issued, user, tokens, shown, leaving, refresh, lists>>
        /\ \/ shown \/ inbox > 0 \/ jobs[s] = [p \in {"put"} |-> [at |-> "done"]]
    BY <1>14 DEF PutDone, ReloadButton, OnMessage, server, signIn
  <2>2. tokens # 0
    <3>1. jobs[s] = [p \in {"put"} |-> [at |-> "done"]] => jobs[s] # << >>
      <4>1. DOMAIN << >> = {} /\ DOMAIN [p \in {"put"} |-> [at |-> "done"]] = {"put"}
        OBVIOUS
      <4> QED
        BY <4>1
    <3> QED
      BY <1>c, <2>1, <3>1
  <2> QED
    BY <1>e, <2>1, <2>2
<1>15. CASE Rotate
  <2> SUFFICES ASSUME ~leftover PROVE Own'
    BY <1>15, <1>b DEF Rotate
  <2>1. /\ UNCHANGED <<user, tokens, shown, leaving, jobs, lists>> /\ refresh.at = "sent"
        /\ Issue(issued[refresh.pair])
        /\ \/ refresh' = [at |-> "rotated", pair |-> Len(issued')]
           \/ refresh' = [at |-> "failed", pair |-> 0]
    BY <1>15 DEF Rotate, signIn
  <2>2. refresh # NoRefresh /\ refresh.pair = tokens
    BY <1>a, <2>1 DEF NoRefresh, S, SignIn
  <2>3. tokens # 0 /\ issued[tokens] = user /\ user # NoUser /\ user \in Users
    BY <1>c, <2>2 DEF Typed
  <2>4. Belongs(jobs, issued', user) /\ SignIn(jobs, issued', user, tokens, refresh, leaving)
    BY <1>a, <2>1, <2>2, <2>3, OwnIssue DEF B, S
  <2>5. issued'[Len(issued')] = user
    BY <2>1, <2>2, <2>3, IssueAppends
  <2>6. S'
    BY <2>1, <2>3, <2>4, <2>5 DEF S, SignIn
  <2> QED
    BY <1>a, <1>b, <2>1, <2>4, <2>6 DEF B, L
<1>16. CASE RefuseRefresh
  <2> SUFFICES ASSUME ~leftover PROVE Own'
    BY <1>16, <1>b DEF RefuseRefresh
  <2>1. /\ UNCHANGED <<issued, user, tokens, shown, leaving, jobs, lists>>
        /\ refresh.at = "sent" /\ refresh' = [at |-> "failed", pair |-> 0]
    BY <1>16 DEF RefuseRefresh, server, signIn
  <2>2. user # NoUser
    BY <1>c, <2>1 DEF NoRefresh
  <2>3. S'
    BY <1>a, <2>1, <2>2 DEF S, SignIn
  <2> QED
    BY <1>a, <1>b, <2>1, <2>3 DEF B, L
<1>17. CASE Refreshed
  <2> SUFFICES ASSUME ~leftover PROVE Own'
    BY <1>17, <1>b DEF Refreshed, history
  <2>1. /\ refresh.at = "rotated" /\ tokens' = refresh.pair /\ refresh' = NoRefresh
        /\ UNCHANGED <<issued, user, shown, leaving, lists>>
        /\ jobs' = Awoken(Sent(refresh.pair, FALSE))
    BY <1>17 DEF Refreshed, server
  <2>2. refresh.pair # 0 /\ issued[refresh.pair] = user /\ user # NoUser
    BY <1>a, <1>c, <2>1 DEF Awaited, S, SignIn, NoRefresh
  <2>3. /\ Sent(refresh.pair, FALSE) \in Unanswered /\ Sent(refresh.pair, FALSE).at = "sent"
        /\ Sent(refresh.pair, FALSE).pair = refresh.pair /\ jobs \in [Slots -> Jobs]
    BY <1>0, SentIsRequest DEF Typed
  <2>4. Moves(jobs', Sent(refresh.pair, FALSE))
    BY <2>1, <2>3, AwokenMoves
  <2>5. Belongs(jobs', issued, user)
    BY <1>a, <2>2, <2>3, <2>4, OwnMoves DEF B
  <2>6. S'
    BY <2>1, <2>2 DEF S, SignIn, NoRefresh
  <2> QED
    BY <1>a, <1>b, <2>1, <2>5, <2>6 DEF B, L
<1>18. CASE RefreshFailed
  <2>1. /\ Clear /\ refresh' = NoRefresh /\ leaving' = leaving
        /\ leftover' = (logins # {} \/ leaving > 0 \/ \E s \in Slots : jobs'[s] # << >>)
    BY <1>18 DEF RefreshFailed
  <2> SUFFICES ASSUME ~leftover' PROVE Own'
    BY <1>b
  <2>2. ~(leaving > 0) /\ \A s \in Slots : jobs'[s] = << >>
    BY <2>1
  <2>3. leaving' = 0
    <3>1. leaving \in Nat
      BY DEF Typed
    <3> QED
      BY <2>1, <2>2, <3>1
  <2> QED
    BY <1>f, <2>1, <2>2, <2>3
<1>19. CASE Open \/ SocketCloses \/ OldSocketCloses \/ Reconnect
  BY <1>19, <1>g DEF Open, SocketCloses, OldSocketCloses, Reconnect, server, signIn, history
<1>20. CASE AccessExpires \/ RefreshExpires
  BY <1>20, <1>g DEF AccessExpires, RefreshExpires, signIn, history
<1> QED
  BY <1>1, <1>2, <1>3, <1>4, <1>5, <1>6, <1>7, <1>8, <1>9, <1>10, <1>11, <1>12, <1>13, <1>14,
     <1>15, <1>16, <1>17, <1>18, <1>19, <1>20 DEF Next, Requests

------------------------------------------------------------------------------
\* Without an excuse the tab keeps a refresh token that is live.
LEMMA HoldsStep ==
  ASSUME Typed, Awaited, Own, Holds, [Next]_vars
  PROVE  Holds'
<1> DEFINE Free(q, l, t, f) == q \subseteq l \ {t, f.pair}
           Live(l, u, t, f) == /\ u # NoUser
                               /\ f.at # "failed"
                               /\ f.at = "rotated" => f.pair \in l
                               /\ f.at \in {"none", "sent"} /\ t # 0 => t \in l
<1>a. Free(logins, live, tokens, refresh) /\ (~excuse /\ ~leftover => Live(live, user, tokens, refresh))
  BY DEF Holds
<1>b. Free(logins', live', tokens', refresh')
        /\ (~excuse' /\ ~leftover' => Live(live', user', tokens', refresh')) => Holds'
  BY DEF Holds
<1>c. /\ logins \subseteq 1 .. Len(issued) /\ live \subseteq 1 .. Len(issued) /\ 0 \notin logins
      /\ tokens \in 0 .. Len(issued) /\ refresh.pair \in 0 .. Len(issued)
      /\ Len(issued) \in Nat
  BY LenProperties DEF Typed
<1>d. /\ NoRefresh.at = "none" /\ NoRefresh.pair = 0
      /\ \A n : Sent(n, TRUE).pair = n
  BY DEF NoRefresh, Sent
<1>e. ASSUME UNCHANGED <<logins, live, user, tokens, refresh, excuse, leftover>> PROVE Holds'
  BY <1>a, <1>b, <1>e
<1> HIDE DEF Free, Live
<1>1. CASE UNCHANGED vars
  BY <1>1, <1>e DEF vars, server, signIn, history
<1>2. ASSUME NEW u \in Users, Login(u) PROVE Holds'
  <2> DEFINE n == Len(issued) + 1
  <2>1. Len(issued') = n
    BY <1>2, IssueAppends DEF Login
  <2>2. n # tokens /\ n # refresh.pair
    BY <1>c
  <2> HIDE DEF n
  <2>3. /\ logins' = logins \cup {n} /\ live' = live \cup {n}
        /\ UNCHANGED <<user, tokens, refresh, excuse, leftover>>
    BY <1>2, <2>1 DEF Login, history
  <2>4. Free(logins', live', tokens', refresh')
    BY <1>a, <2>2, <2>3 DEF Free
  <2>5. ~excuse' /\ ~leftover' => Live(live', user', tokens', refresh')
    BY <1>a, <2>3 DEF Live
  <2> QED
    BY <1>b, <2>4, <2>5
<1>3. ASSUME NEW u \in Users, Elsewhere(u) PROVE Holds'
  BY <1>3, <1>e DEF Elsewhere, signIn, history
<1>4. ASSUME NEW n \in logins, NEW s \in Slots, LoginDone(n, s) PROVE Holds'
  <2>1. /\ logins' = logins \ {n} /\ tokens' = n /\ user' = issued[n]
        /\ leftover' = (leftover \/ user # NoUser) /\ UNCHANGED <<live, refresh>>
    BY <1>4 DEF LoginDone, server
  <2>2. issued[n] # NoUser
    <3>1. n \in 1 .. Len(issued) /\ issued \in Seq(Users)
      BY <1>c DEF Typed
    <3> QED
      BY <3>1, ElementOfSeq, UserAssumption
  <2>3. Free(logins', live', tokens', refresh')
    BY <1>a, <2>1 DEF Free
  <2>4. ASSUME ~leftover' PROVE Live(live', user', tokens', refresh')
    <3>1. ~leftover /\ user = NoUser
      BY <2>1, <2>4
    <3>2. refresh = NoRefresh
      BY <3>1 DEF Own
    <3> QED
      BY <1>a, <1>d, <2>1, <2>2, <3>2 DEF Free, Live
  <2> QED
    BY <1>b, <2>3, <2>4
<1>5. CASE Logout
  <2>1. /\ UNCHANGED <<logins, tokens, refresh>> /\ live \ {tokens} \subseteq live' /\ excuse'
    BY <1>5 DEF Logout
  <2>2. Free(logins', live', tokens', refresh')
    BY <1>a, <2>1 DEF Free
  <2> QED
    BY <1>b, <2>1, <2>2
<1>6. CASE LogoutDone
  <2>1. /\ UNCHANGED <<logins, live, refresh>> /\ tokens' = 0 /\ excuse'
    BY <1>6 DEF LogoutDone, Clear, server
  <2>2. Free(logins', live', tokens', refresh')
    BY <1>a, <1>c, <2>1 DEF Free
  <2> QED
    BY <1>b, <2>1, <2>2
<1>7. CASE ReloadPage
  <2>1. /\ logins' = {} /\ refresh' = NoRefresh /\ live \ {refresh.pair} \subseteq live'
        /\ excuse' = (excuse \/ refresh # NoRefresh) /\ leftover' = leftover
        /\ UNCHANGED <<user, tokens>>
    BY <1>7 DEF ReloadPage
  <2>2. Free(logins', live', tokens', refresh')
    BY <2>1 DEF Free
  <2>3. ASSUME ~excuse', ~leftover' PROVE Live(live', user', tokens', refresh')
    <3>1. ~excuse /\ ~leftover /\ refresh = NoRefresh
      BY <2>1, <2>3
    <3> QED
      BY <1>a, <1>d, <2>1, <3>1 DEF Live
  <2> QED
    BY <1>b, <2>2, <2>3
<1>8. ASSUME NEW s \in Slots, NEW p \in DOMAIN jobs[s],
             ServeList(s, p) \/ ServePut(s, p) \/ Refuse(s, p) \/ Fail(s, p)
      PROVE  Holds'
  BY <1>8, <1>e DEF ServeList, ServePut, Refuse, Fail, server, signIn, history
<1>9. ASSUME NEW s \in Slots, NEW p \in DOMAIN jobs[s], Retry(s, p) PROVE Holds'
  <2>1. UNCHANGED <<logins, live, user, tokens, excuse, leftover>>
    BY <1>9 DEF Retry, server, signIn
  <2>2. \/ refresh' = refresh
        \/ tokens # 0 /\ refresh = NoRefresh /\ refresh' = [at |-> "sent", pair |-> tokens]
    BY <1>9 DEF Retry
  <2>3. CASE refresh' = refresh
    BY <1>e, <2>1, <2>3
  <2>4. CASE tokens # 0 /\ refresh = NoRefresh /\ refresh' = [at |-> "sent", pair |-> tokens]
    <3>1. Free(logins', live', tokens', refresh')
      BY <1>a, <2>1, <2>4 DEF Free
    <3>2. ~excuse' /\ ~leftover' => Live(live', user', tokens', refresh')
      BY <1>a, <1>d, <2>1, <2>4 DEF Live
    <3> QED
      BY <1>b, <3>1, <3>2
  <2> QED
    BY <2>2, <2>3, <2>4
<1>10. ASSUME NEW s \in Slots,
              Land(s) \/ Put(s) \/ PutDone(s) \/ ReloadButton(s) \/ OnMessage(s)
       PROVE  Holds'
  BY <1>10, <1>e DEF Land, Put, PutDone, ReloadButton, OnMessage, server, signIn, history
<1>11. CASE Rotate
  <2> DEFINE n == Len(issued) + 1
  <2>1. refresh.pair \in live /\ issued[refresh.pair] \in Users
    BY <1>11 DEF Rotate, Typed
  <2>2. Len(issued') = n
    BY <1>11, <2>1, IssueAppends DEF Rotate
  <2>3. n # tokens /\ n \notin logins
    BY <1>c
  <2> HIDE DEF n
  <2>4. /\ live' = (live \ {refresh.pair}) \cup {n} /\ UNCHANGED <<logins, user, tokens, leftover>>
        /\ \/ refresh' = [at |-> "rotated", pair |-> n] /\ excuse' = excuse
           \/ refresh' = [at |-> "failed", pair |-> 0] /\ excuse'
    BY <1>11, <2>2 DEF Rotate, signIn
  <2>5. Free(logins', live', tokens', refresh')
    BY <1>a, <1>c, <2>3, <2>4 DEF Free
  <2>6. ~excuse' /\ ~leftover' => Live(live', user', tokens', refresh')
    BY <1>a, <2>4 DEF Live
  <2> QED
    BY <1>b, <2>5, <2>6
<1>12. CASE RefuseRefresh
  <2>1. /\ refresh.at = "sent" /\ refresh' = [at |-> "failed", pair |-> 0]
        /\ excuse' \in {excuse, TRUE} /\ (refresh.pair \in live => excuse')
        /\ UNCHANGED <<logins, live, user, tokens, leftover>>
    BY <1>12 DEF RefuseRefresh, server, signIn
  <2>2. Free(logins', live', tokens', refresh')
    BY <1>a, <1>c, <2>1 DEF Free
  <2>3. excuse' \/ leftover'
    <3> SUFFICES ASSUME ~excuse', ~leftover PROVE FALSE
      BY <2>1
    <3>1. ~excuse
      BY <2>1, Zenon DEF Typed, Flags
    <3>2. refresh.pair = tokens /\ tokens # 0
      BY <2>1 DEF Own, Awaited
    <3>3. tokens \in live
      BY <1>a, <2>1, <3>1, <3>2 DEF Live
    <3> QED
      BY <2>1, <3>2, <3>3
  <2> QED
    BY <1>b, <2>2, <2>3
<1>13. CASE Refreshed
  <2>1. /\ refresh.at = "rotated" /\ tokens' = refresh.pair /\ refresh' = NoRefresh
        /\ UNCHANGED <<logins, live, user, excuse, leftover>>
    BY <1>13 DEF Refreshed, server, history
  <2>2. Free(logins', live', tokens', refresh')
    BY <1>a, <1>c, <1>d, <2>1 DEF Free
  <2>3. ~excuse' /\ ~leftover' => Live(live', user', tokens', refresh')
    BY <1>a, <1>d, <2>1 DEF Live
  <2> QED
    BY <1>b, <2>2, <2>3
<1>14. CASE RefreshFailed
  <2>1. /\ refresh.at = "failed" /\ tokens' = 0 /\ refresh' = NoRefresh
        /\ UNCHANGED <<logins, live>> /\ excuse' = (excuse \/ leftover)
    BY <1>14 DEF RefreshFailed, Clear, server
  <2>2. Free(logins', live', tokens', refresh')
    BY <1>a, <1>c, <1>d, <2>1 DEF Free
  <2>3. excuse'
    BY <1>a, <2>1 DEF Live
  <2> QED
    BY <1>b, <2>2, <2>3
<1>15. CASE Open \/ SocketCloses \/ OldSocketCloses \/ Reconnect \/ AccessExpires
  BY <1>15, <1>e DEF Open, SocketCloses, OldSocketCloses, Reconnect, AccessExpires,
                     server, signIn, history
<1>16. CASE RefreshExpires
  <2>1. live' = live \ {tokens} /\ UNCHANGED <<logins, tokens, refresh>> /\ excuse'
    BY <1>16 DEF RefreshExpires, signIn
  <2>2. Free(logins', live', tokens', refresh')
    BY <1>a, <2>1 DEF Free
  <2> QED
    BY <1>b, <2>1, <2>2
<1> QED
  BY <1>1, <1>2, <1>3, <1>4, <1>5, <1>6, <1>7, <1>8, <1>9, <1>10, <1>11, <1>12, <1>13, <1>14,
     <1>15, <1>16 DEF Next, Requests

\* Every socket's end is replaced by a reconnect, and that by a socket.
LEMMA OneSocketStep ==
  ASSUME Typed, Own, OneSocket, [Next]_vars
  PROVE  OneSocket'
<1> USE OneIsNat
<1> DEFINE Few(h, l, u, k) == /\ h \/ k <= 1
                              /\ h \/ l \/ u = NoUser \/ k = 1
<1>0. /\ closing \in Nat /\ timers \in Nat
      /\ One(TRUE) = 1 /\ One(FALSE) = 0
      /\ socket.at # "none" => One(socket.at # "none") = 1
      /\ socket.at = "none" => One(socket.at # "none") = 0
      /\ Sockets = One(socket.at # "none") + closing + timers
      /\ Sockets' = One(socket'.at # "none") + closing' + timers'
  BY DEF Typed, One, Sockets
<1>1. Sockets \in Nat
  <2>1. One(socket.at # "none") \in Nat
    BY DEF One
  <2> QED
    BY <1>0, <2>1
<1>a. Few(hasty, leftover, user, Sockets)
  BY DEF OneSocket
<1>b. Few(hasty', leftover', user', Sockets') => OneSocket'
  BY DEF OneSocket
<1>c. ~leftover /\ user # NoUser => tokens # 0
  BY DEF Own
<1>d. Clear => Sockets' = Sockets /\ user' = NoUser
  <2> SUFFICES ASSUME Clear PROVE Sockets' = Sockets /\ user' = NoUser
    OBVIOUS
  <2>1. /\ closing' = closing + One(socket.at # "none") /\ timers' = timers
        /\ socket'.at = "none" /\ user' = NoUser
    BY DEF Clear, NoSocket
  <2>2. One(socket'.at # "none") = 0
    BY <2>1 DEF One
  <2>3. One(socket.at # "none") \in Nat
    BY DEF One
  <2> QED
    BY <1>0, <2>1, <2>2, <2>3
<1>e. ASSUME UNCHANGED <<hasty, leftover, user, socket, closing, timers>> PROVE OneSocket'
  <2>1. Sockets' = Sockets
    BY <1>e DEF Sockets
  <2> QED
    BY <1>a, <1>b, <1>e, <2>1
<1> HIDE DEF Few
<1>2. CASE UNCHANGED vars
  BY <1>2, <1>e DEF vars, signIn, sockets, history
<1>3. ASSUME NEW u \in Users, Login(u) \/ Elsewhere(u) PROVE OneSocket'
  BY <1>3, <1>e DEF Login, Elsewhere, signIn, sockets, history
<1>4. ASSUME NEW n \in logins, NEW s \in Slots, LoginDone(n, s) PROVE OneSocket'
  <2> SUFFICES ASSUME ~hasty' PROVE OneSocket'
    BY <1>b DEF Few
  <2>1. /\ hasty' = (hasty \/ socket.at # "none" \/ closing + timers > 0) /\ timers' = timers
        /\ closing' = closing + One(socket.at # "none")
        /\ socket' = [at |-> "connecting", pair |-> n]
    BY <1>4 DEF LoginDone, Connect
  <2>2. socket.at = "none" /\ ~(closing + timers > 0)
    BY <2>1
  <2>3. closing = 0 /\ timers = 0
    BY <1>0, <2>2
  <2>4. One(socket'.at # "none") = 1
    BY <2>1 DEF One
  <2>5. Sockets' = 1
    BY <1>0, <2>1, <2>2, <2>3, <2>4
  <2> QED
    BY <1>b, <2>5 DEF Few
<1>5. CASE Logout
  BY <1>5, <1>e DEF Logout, sockets
<1>6. CASE LogoutDone
  <2>1. Clear /\ hasty' = hasty
    BY <1>6 DEF LogoutDone
  <2> QED
    BY <1>a, <1>b, <1>d, <2>1 DEF Few
<1>7. CASE ReloadPage
  <2>1. /\ closing' = 0 /\ timers' = 0 /\ leftover' = leftover /\ user' = user
        /\ Authed => socket' = [at |-> "connecting", pair |-> tokens]
        /\ ~Authed => socket' = NoSocket
    BY <1>7 DEF ReloadPage
  <2>2. CASE Authed
    <3>1. One(socket'.at # "none") = 1
      BY <2>1, <2>2 DEF One
    <3>2. Sockets' = 1
      BY <1>0, <2>1, <3>1
    <3> QED
      BY <1>b, <3>2 DEF Few
  <2>3. CASE ~Authed
    <3>1. One(socket'.at # "none") = 0
      BY <2>1, <2>3 DEF One, NoSocket
    <3>2. Sockets' = 0
      BY <1>0, <2>1, <3>1
    <3>3. leftover' \/ user' = NoUser
      BY <1>c, <2>1, <2>3 DEF Authed
    <3> QED
      BY <1>b, <3>2, <3>3 DEF Few
  <2> QED
    BY <2>2, <2>3
<1>8. ASSUME NEW s \in Slots, NEW p \in DOMAIN jobs[s],
             \/ ServeList(s, p) \/ ServePut(s, p) \/ Refuse(s, p) \/ Fail(s, p) \/ Retry(s, p)
      PROVE  OneSocket'
  BY <1>8, <1>e DEF ServeList, ServePut, Refuse, Fail, Retry, signIn, sockets, history
<1>9. ASSUME NEW s \in Slots,
             Land(s) \/ Put(s) \/ PutDone(s) \/ ReloadButton(s) \/ OnMessage(s)
      PROVE  OneSocket'
  BY <1>9, <1>e DEF Land, Put, PutDone, ReloadButton, OnMessage, signIn, sockets, history
<1>10. CASE Rotate \/ RefuseRefresh \/ Refreshed \/ AccessExpires \/ RefreshExpires
  BY <1>10, <1>e DEF Rotate, RefuseRefresh, Refreshed, AccessExpires, RefreshExpires,
                     signIn, sockets, history
<1>11. CASE RefreshFailed
  <2>1. Clear /\ hasty' = hasty
    BY <1>11 DEF RefreshFailed
  <2> QED
    BY <1>a, <1>b, <1>d, <2>1 DEF Few
<1>12. CASE Open
  <2>1. /\ socket.at = "connecting" /\ socket'.at = "open"
        /\ UNCHANGED <<closing, timers, hasty, leftover, user>>
    BY <1>12 DEF Open, signIn, history, Typed
  <2>2. One(socket'.at # "none") = One(socket.at # "none")
    BY <2>1 DEF One
  <2>3. Sockets' = Sockets
    BY <1>0, <2>1, <2>2
  <2> QED
    BY <1>a, <1>b, <2>1, <2>3
<1>f. ASSUME UNCHANGED <<hasty, leftover, user>>, tokens # 0 => Sockets' = Sockets,
             tokens = 0 => Sockets' = Sockets - 1
      PROVE  OneSocket'
  <2>1. CASE tokens # 0
    BY <1>a, <1>b, <1>f, <2>1
  <2>2. CASE tokens = 0
    <3>1. leftover \/ user = NoUser
      BY <1>c, <2>2
    <3>2. hasty \/ Sockets' <= 1
      BY <1>1, <1>a, <1>f, <2>2 DEF Few
    <3> QED
      BY <1>b, <1>f, <3>1, <3>2 DEF Few
  <2> QED
    BY <2>1, <2>2
<1>g. (tokens # 0 => One(tokens # 0) = 1) /\ (tokens = 0 => One(tokens # 0) = 0)
  BY DEF One
<1>13. CASE SocketCloses
  <2>1. /\ socket.at # "none" /\ socket'.at = "none" /\ timers' = timers + One(tokens # 0)
        /\ UNCHANGED <<closing, hasty, leftover, user>>
    BY <1>13 DEF SocketCloses, signIn, history, NoSocket
  <2>2. One(socket'.at # "none") = 0
    BY <2>1 DEF One
  <2>3. (tokens # 0 => Sockets' = Sockets) /\ (tokens = 0 => Sockets' = Sockets - 1)
    BY <1>0, <1>g, <2>1, <2>2
  <2> QED
    BY <1>f, <2>1, <2>3
<1>14. CASE OldSocketCloses
  <2>1. /\ closing' = closing - 1 /\ timers' = timers + One(tokens # 0)
        /\ UNCHANGED <<socket, hasty, leftover, user>>
    BY <1>14 DEF OldSocketCloses, signIn, history
  <2>2. One(socket'.at # "none") = One(socket.at # "none") /\ One(socket.at # "none") \in Nat
    BY <2>1 DEF One
  <2>3. (tokens # 0 => Sockets' = Sockets) /\ (tokens = 0 => Sockets' = Sockets - 1)
    BY <1>0, <1>g, <2>1, <2>2
  <2> QED
    BY <1>f, <2>1, <2>3
<1>15. CASE Reconnect
  <2>1. /\ timers' = timers - 1 /\ UNCHANGED <<hasty, leftover, user>>
        /\ tokens = 0 => UNCHANGED <<socket, closing>>
        /\ tokens # 0 => /\ socket'.at = "connecting"
                         /\ closing' = closing + One(socket.at # "none")
    BY <1>15 DEF Reconnect, Connect, signIn, history
  <2>2. One(socket.at # "none") \in Nat
    BY DEF One
  <2>3. tokens # 0 => One(socket'.at # "none") = 1
    BY <2>1 DEF One
  <2>4. tokens = 0 => One(socket'.at # "none") = One(socket.at # "none")
    BY <2>1 DEF One
  <2>5. (tokens # 0 => Sockets' = Sockets) /\ (tokens = 0 => Sockets' = Sockets - 1)
    BY <1>0, <2>1, <2>2, <2>3, <2>4
  <2> QED
    BY <1>f, <2>1, <2>5
<1> QED
  BY <1>2, <1>3, <1>4, <1>5, <1>6, <1>7, <1>8, <1>9, <1>10, <1>11, <1>12, <1>13, <1>14,
     <1>15 DEF Next, Requests

------------------------------------------------------------------------------
\* The parts of Current, over the variables that they are about.
Covered(js, sn, d, m) ==
  \A s \in Slots : DOMAIN js[s] = Parts =>
    /\ \A p \in Parts : js[s][p].at = "done" => js[s][p].version >= sn[s]
    /\ m \/ sn[s] >= d
Whole(js, s) == DOMAIN js[s] = Parts /\ \A p \in Parts : js[s][p].at # "failed"
Renders(sh, a, ls, d) == sh = a /\ \A p \in Parts : ls[p].version >= d

\* A load is answered with what there is when it is answered.
LEMMA CoveredMoves ==
  ASSUME Covered(jobs, since, due, missed), \A s \in Slots : since[s] <= data,
         NEW js, NEW r, Moves(js, r),
         r.at = "done" => r.version = data \/ r = [at |-> "done"],
         data \in Nat, since \in [Slots -> Nat]
  PROVE  Covered(js, since, due, missed)
<1> SUFFICES ASSUME NEW s \in Slots, DOMAIN js[s] = Parts
             PROVE  /\ \A p \in Parts : js[s][p].at = "done" => js[s][p].version >= since[s]
                    /\ missed \/ since[s] >= due
  BY DEF Covered
<1>1. DOMAIN jobs[s] = Parts
  <2>1. DOMAIN << >> = {}
    OBVIOUS
  <2> QED
    BY <2>1, PartAssumption DEF Moves
<1>2. ASSUME NEW p \in Parts, js[s][p].at = "done" PROVE js[s][p].version >= since[s]
  <2>1. js[s][p] = jobs[s][p] \/ js[s][p] = r
    BY MovedRequests
  <2>2. CASE js[s][p] = jobs[s][p]
    BY <1>1, <1>2, <2>2 DEF Covered
  <2>3. CASE js[s][p] = r
    <3>1. r \in ListRequest
      <4>1. js[s] \in Jobs /\ p # "put"
        BY PartAssumption DEF Moves
      <4> QED
        BY <2>3, <4>1, JobShapes
    <3>2. r.version = data
      BY <1>2, <2>3, <3>1, PutIsNoList
    <3>3. since[s] <= data /\ since[s] \in Nat
      OBVIOUS
    <3> QED
      BY <2>3, <3>2, <3>3
  <2> QED
    BY <2>1, <2>2, <2>3
<1> QED
  BY <1>1, <1>2 DEF Covered

\* A change leaves the loads alone.
LEMMA PutLeavesLoads ==
  ASSUME Typed, NEW s \in Slots, NEW p \in DOMAIN jobs[s], ServePut(s, p)
  PROVE  \A x \in Slots : DOMAIN jobs[x] = Parts => jobs'[x] = jobs[x]
<1>1. PICK r \in {[at |-> "done"], Failed} : jobs' = Become(s, p, r)
  BY DEF ServePut
<1>2. \A x \in Slots \ {s} : jobs'[x] = jobs[x]
  BY <1>1 DEF Become, Typed
<1>3. DOMAIN jobs[s] # Parts
  BY PartAssumption DEF ServePut
<1> QED
  BY <1>2, <1>3

\* The page is current, or a load that will make it so goes on.
LEMMA CurrentStep ==
  ASSUME Typed, Typed', Awaited, Own, Current, [Next]_vars
  PROVE  Current'
<1> USE BoundAssumption
<1> DEFINE Started(sn, d) == \A s \in Slots : sn[s] <= d
           Some(js) == \E s \in Slots : Whole(js, s)
<1>0. /\ data \in Nat /\ due \in Nat /\ since \in [Slots -> Nat]
      /\ data \in 0 .. MaxChanges /\ tokens \in 0 .. MaxPairs
      /\ jobs \in [Slots -> Jobs] /\ missed \in BOOLEAN
  <2>1. Len(issued) \in Nat /\ Len(issued) <= MaxPairs /\ tokens \in 0 .. Len(issued)
    BY LenProperties DEF Typed
  <2>2. tokens \in 0 .. MaxPairs
    BY <2>1
  <2>3. 0 .. MaxChanges \subseteq Nat
    OBVIOUS
  <2> QED
    BY <2>2, <2>3 DEF Typed, Flags
<1>a. /\ Started(since, data) /\ Covered(jobs, since, due, missed)
      /\ missed \/ leftover \/ Some(jobs) \/ Renders(shown, Authed, lists, due)
  BY DEF Current, Covered, Renders, Good, Whole
<1>b. ASSUME Started(since', data'), Covered(jobs', since', due', missed'),
             missed' \/ leftover' \/ Some(jobs') \/ Renders(shown', Authed', lists', due')
      PROVE  Current'
  BY <1>b DEF Current, Covered, Renders, Good, Whole
<1>n. DOMAIN << >> = {} /\ Parts # {}
  BY PartAssumption
<1> HIDE DEF Started, Some
\* A load that the tab sends.
<1>c. ASSUME NEW s \in Slots, NEW n \in 0 .. MaxPairs, Load(s, n), data' = data
      PROVE  Current'
  <2>1. /\ DOMAIN jobs'[s] = Parts /\ \A p \in Parts : jobs'[s][p] = Sent(n, TRUE)
        /\ \A x \in Slots \ {s} : jobs'[x] = jobs[x]
        /\ due' = data /\ since'[s] = data
        /\ \A x \in Slots \ {s} : since'[x] = since[x]
        /\ missed' = \E x \in Loading \ {s} : since[x] < data
    BY <1>c, LoadSends
  <2>2. Sent(n, TRUE).at = "sent"
    BY SentIsRequest
  <2>3. Started(since', data')
    <3> SUFFICES ASSUME NEW x \in Slots PROVE since'[x] <= data
      BY <1>c DEF Started
    <3>1. CASE x = s
      BY <1>0, <2>1, <3>1
    <3>2. CASE x # s
      BY <1>a, <2>1, <3>2 DEF Started
    <3> QED
      BY <3>1, <3>2
  <2>4. Covered(jobs', since', due', missed')
    <3> SUFFICES ASSUME NEW x \in Slots, DOMAIN jobs'[x] = Parts
                 PROVE  /\ \A p \in Parts : jobs'[x][p].at = "done" =>
                                              jobs'[x][p].version >= since'[x]
                        /\ missed' \/ since'[x] >= data
      BY <2>1 DEF Covered
    <3>1. CASE x = s
      <4>1. \A p \in Parts : jobs'[x][p].at # "done"
        BY <2>1, <2>2, <3>1
      <4>2. since'[x] >= data
        BY <1>0, <2>1, <3>1
      <4> QED
        BY <4>1, <4>2
    <3>2. CASE x # s
      <4>1. jobs'[x] = jobs[x] /\ since'[x] = since[x] /\ DOMAIN jobs[x] = Parts
        BY <2>1, <3>2
      <4>2. x \in Loading \ {s}
        BY <1>n, <3>2, <4>1 DEF Loading, Flying
      <4>3. missed' \/ ~(since[x] < data)
        BY <2>1, <4>2
      <4>4. since[x] \in Nat
        BY <1>0
      <4>5. missed' \/ since[x] >= data
        BY <1>0, <4>3, <4>4
      <4> QED
        BY <1>a, <4>1, <4>5 DEF Covered
    <3> QED
      BY <3>1, <3>2
  <2>5. Some(jobs')
    BY <2>1, <2>2 DEF Some, Whole
  <2> QED
    BY <1>b, <2>3, <2>4, <2>5
\* A request that is answered, refused or sent again, and none of a load fails.
<1>d. ASSUME NEW r, Moves(jobs', r), r.at = "done" => r.version = data \/ r = [at |-> "done"],
             UNCHANGED <<data, since, due, lists, shown, user, leftover>>, Authed' = Authed \/ leftover,
             \/ r.at # "failed" /\ missed' = missed
             \/ missed'
      PROVE  Current'
  <2>1. Started(since', data')
    BY <1>a, <1>d
  <2>2. Covered(jobs', since, due, missed)
    BY <1>0, <1>a, <1>d, CoveredMoves DEF Started
  <2>3. Covered(jobs', since', due', missed')
    BY <1>d, <2>2 DEF Covered
  <2>4. missed' \/ leftover' \/ Some(jobs') \/ Renders(shown', Authed', lists', due')
    <3> SUFFICES ASSUME ~missed', ~leftover PROVE Some(jobs') \/ Renders(shown', Authed', lists', due')
      BY <1>d
    <3>1. r.at # "failed" /\ ~missed
      BY <1>d
    <3>2. CASE Some(jobs)
      <4>1. PICK s \in Slots : Whole(jobs, s)
        BY <3>2 DEF Some
      <4>2. Good(s)
        BY <4>1 DEF Whole, Good
      <4>3. Whole(jobs', s)
        BY <1>d, <3>1, <4>2 DEF Moves, Whole
      <4> QED
        BY <4>3 DEF Some
    <3>3. CASE Renders(shown, Authed, lists, due)
      BY <1>d, <3>3 DEF Renders
    <3> QED
      BY <1>a, <3>1, <3>2, <3>3
  <2> QED
    BY <1>b, <2>1, <2>3, <2>4
\* The tab signs out: nothing has to be current.
<1>e. ASSUME Clear, UNCHANGED <<data, since>>,
             \/ jobs' = jobs
             \/ Moves(jobs', Failed)
      PROVE  Current'
  <2>1. /\ due' = 0 /\ shown' = FALSE /\ tokens' = 0
        /\ lists' = [p \in Parts |-> IF p = Stats THEN lists[p] ELSE NoList]
    BY <1>e DEF Clear
  <2>2. Started(since', data')
    BY <1>a, <1>e
  <2>3. Covered(jobs', since, due, missed)
    <3>1. CASE jobs' = jobs
      BY <1>a, <3>1
    <3>2. CASE Moves(jobs', Failed)
      BY <1>0, <1>a, <3>2, CoveredMoves DEF Started, Failed
    <3> QED
      BY <1>e, <3>1, <3>2
  <2>4. Covered(jobs', since', due', missed')
    <3>1. \A s \in Slots : since[s] >= 0
      BY <1>0
    <3> QED
      BY <1>e, <2>1, <2>3, <3>1 DEF Covered
  <2>5. shown' = Authed'
    BY <2>1, Zenon DEF Authed
  <2>6. \A p \in Parts : lists'[p].version >= due'
    <3>1. \A p \in Parts : lists[p].version \in Nat
      BY DEF Typed
    <3> QED
      BY <2>1, <3>1 DEF NoList
  <2>7. Renders(shown', Authed', lists', due')
    BY <2>5, <2>6 DEF Renders
  <2> QED
    BY <1>b, <2>2, <2>4, <2>7
\* Nothing that it is about changes; the data may.
<1>f. ASSUME UNCHANGED <<since, due, missed, lists, shown, user, tokens, leftover, jobs>>,
             data' = data \/ data' = data + 1
      PROVE  Current'
  <2>1. Started(since', data')
    <3> SUFFICES ASSUME NEW s \in Slots PROVE since[s] <= data'
      BY <1>f DEF Started
    <3>1. since[s] <= data /\ since[s] \in Nat
      BY <1>0, <1>a DEF Started
    <3> QED
      BY <1>0, <1>f, <3>1
  <2>2. Authed' = Authed
    BY <1>f DEF Authed
  <2> QED
    BY <1>a, <1>b, <1>f, <2>1, <2>2
<1>1. CASE UNCHANGED vars
  BY <1>1, <1>f DEF vars, server, signIn, history
<1>2. ASSUME NEW u \in Users, Login(u) PROVE Current'
  BY <1>2, <1>f DEF Login, history
<1>3. ASSUME NEW u \in Users, Elsewhere(u) PROVE Current'
  BY <1>3, <1>f DEF Elsewhere, Change, signIn, history
<1>4. ASSUME NEW n \in logins, NEW s \in Slots, LoginDone(n, s) PROVE Current'
  <2>1. n \in 0 .. MaxPairs
    <3>1. n \in 1 .. Len(issued) /\ Len(issued) \in Nat /\ Len(issued) <= MaxPairs
      BY LenProperties DEF Typed
    <3> QED
      BY <3>1
  <2> QED
    BY <1>4, <1>c, <2>1 DEF LoginDone, server
<1>5. CASE Logout
  BY <1>5, <1>f DEF Logout
<1>6. CASE LogoutDone
  BY <1>6, <1>e DEF LogoutDone, server
<1>7. CASE ReloadPage
  <2>1. shown' = Authed /\ Authed' = Authed /\ lists' = [p \in Parts |-> NoList] /\ data' = data
    BY <1>7 DEF ReloadPage, Authed
  <2>2. CASE Authed
    <3>1. PICK s \in Slots :
            /\ jobs' = [x \in Slots |-> IF x = s THEN [p \in Parts |-> Sent(tokens, TRUE)]
                                        ELSE << >>]
            /\ due' = data /\ since' = [since EXCEPT ![s] = data]
      BY <1>7, <2>2 DEF ReloadPage
    <3>2. /\ jobs'[s] = [p \in Parts |-> Sent(tokens, TRUE)] /\ since'[s] = data
          /\ \A x \in Slots \ {s} : jobs'[x] = << >> /\ since'[x] = since[x]
      BY <1>0, <3>1
    <3>3. Sent(tokens, TRUE).at = "sent"
      BY <1>0, SentIsRequest
    <3>4. DOMAIN jobs'[s] = Parts /\ \A p \in Parts : jobs'[s][p].at = "sent"
      BY <3>2, <3>3
    <3>5. Started(since', data')
      <4> SUFFICES ASSUME NEW x \in Slots PROVE since'[x] <= data
        BY <2>1 DEF Started
      <4>1. CASE x = s
        BY <1>0, <3>2, <4>1
      <4>2. CASE x # s
        BY <1>a, <3>2, <4>2 DEF Started
      <4> QED
        BY <4>1, <4>2
    <3>6. Covered(jobs', since', due', missed')
      <4> SUFFICES ASSUME NEW x \in Slots, DOMAIN jobs'[x] = Parts
                   PROVE  /\ \A p \in Parts : jobs'[x][p].at # "done"
                          /\ since'[x] >= data
        BY <3>1 DEF Covered
      <4>1. x = s
        BY <1>n, <3>2
      <4>2. since'[x] >= data
        BY <1>0, <3>2, <4>1
      <4> QED
        BY <3>4, <4>1, <4>2
    <3>7. Some(jobs')
      BY <3>4 DEF Some, Whole
    <3> QED
      BY <1>b, <3>5, <3>6, <3>7
  <2>3. CASE ~Authed
    <3>1. /\ jobs' = [x \in Slots |-> << >>] /\ due' = 0 /\ since' = since
      BY <1>7, <2>3 DEF ReloadPage
    <3>2. Started(since', data')
      BY <1>a, <2>1, <3>1
    <3>3. Covered(jobs', since', due', missed')
      BY <1>n, <3>1 DEF Covered
    <3>4. Renders(shown', Authed', lists', due')
      BY <2>1, <3>1 DEF Renders, NoList
    <3> QED
      BY <1>b, <3>2, <3>3, <3>4
  <2> QED
    BY <2>2, <2>3
<1>8. ASSUME NEW s \in Slots, NEW p \in DOMAIN jobs[s], ServeList(s, p) PROVE Current'
  <2>1. /\ UNCHANGED <<data, since, due, lists, shown, user, tokens, leftover, missed>>
        /\ Moves(jobs', [at |-> "done", user |-> issued[jobs[s][p].pair], version |-> data])
    BY <1>8, RequestStep DEF ServeList, server, signIn, history
  <2>2. Authed' = Authed
    BY <2>1 DEF Authed
  <2> QED
    BY <1>d, <2>1, <2>2
<1>9. ASSUME NEW s \in Slots, NEW p \in DOMAIN jobs[s], ServePut(s, p) PROVE Current'
  <2>1. /\ UNCHANGED <<since, due, lists, shown, user, tokens, leftover, missed>>
        /\ data' = data + 1
    BY <1>9 DEF ServePut, Change, signIn, history
  <2>2. Authed' = Authed
    BY <2>1 DEF Authed
  <2>3. \A x \in Slots : DOMAIN jobs[x] = Parts => jobs'[x] = jobs[x]
    BY <1>9, PutLeavesLoads
  <2>4. Started(since', data')
    <3> SUFFICES ASSUME NEW x \in Slots PROVE since[x] <= data + 1
      BY <2>1 DEF Started
    <3>1. since[x] <= data /\ since[x] \in Nat
      BY <1>0, <1>a DEF Started
    <3> QED
      BY <1>0, <3>1
  <2>5. Covered(jobs', since', due', missed')
    <3>1. Moves(jobs', [at |-> "done"]) \/ Moves(jobs', Failed)
      BY <1>9, RequestStep
    <3>2. Covered(jobs', since, due, missed)
      <4>1. CASE Moves(jobs', [at |-> "done"])
        BY <1>0, <1>a, <4>1, CoveredMoves DEF Started
      <4>2. CASE Moves(jobs', Failed)
        BY <1>0, <1>a, <4>2, CoveredMoves DEF Started, Failed
      <4> QED
        BY <3>1, <4>1, <4>2
    <3> QED
      BY <2>1, <3>2
  <2>6. Some(jobs) => Some(jobs')
    BY <2>3 DEF Some, Whole
  <2> QED
    BY <1>a, <1>b, <2>1, <2>2, <2>4, <2>5, <2>6
<1>10. ASSUME NEW s \in Slots, NEW p \in DOMAIN jobs[s], Refuse(s, p) PROVE Current'
  <2>1. /\ UNCHANGED <<data, since, due, lists, shown, user, tokens, leftover>>
        /\ missed' = (missed \/ ~jobs[s][p].retry)
    BY <1>10 DEF Refuse, server, signIn
  <2>2. Authed' = Authed
    BY <2>1 DEF Authed
  <2>3. \/ Moves(jobs', [at |-> "refused", pair |-> jobs[s][p].pair])
        \/ Moves(jobs', Failed) /\ missed'
    BY <1>10, RequestStep
  <2>4. missed' = missed \/ missed'
    BY <1>0, <2>1
  <2>5. CASE Moves(jobs', Failed) /\ missed'
    BY <1>d, <2>1, <2>2, <2>5 DEF Failed
  <2>6. CASE Moves(jobs', [at |-> "refused", pair |-> jobs[s][p].pair])
    BY <1>d, <2>1, <2>2, <2>4, <2>6
  <2> QED
    BY <2>3, <2>5, <2>6
<1>11. ASSUME NEW s \in Slots, NEW p \in DOMAIN jobs[s], Fail(s, p) PROVE Current'
  <2>1. /\ UNCHANGED <<data, since, due, lists, shown, user, tokens, leftover>> /\ missed'
        /\ Moves(jobs', Failed)
    BY <1>11, RequestStep DEF Fail, server, signIn
  <2>2. Authed' = Authed
    BY <2>1 DEF Authed
  <2> QED
    BY <1>d, <2>1, <2>2 DEF Failed
<1>12. ASSUME NEW s \in Slots, NEW p \in DOMAIN jobs[s], Retry(s, p) PROVE Current'
  <2>1. /\ UNCHANGED <<data, since, due, lists, shown, user, tokens, leftover>>
        /\ \/ Moves(jobs', Failed) /\ missed'
           \/ Moves(jobs', [at |-> "waiting"]) /\ missed' = missed
    BY <1>12, RequestStep DEF Retry, server, signIn
  <2>2. Authed' = Authed
    BY <2>1 DEF Authed
  <2>3. CASE Moves(jobs', Failed) /\ missed'
    BY <1>d, <2>1, <2>2, <2>3 DEF Failed
  <2>4. CASE Moves(jobs', [at |-> "waiting"]) /\ missed' = missed
    BY <1>d, <2>1, <2>2, <2>4
  <2> QED
    BY <2>1, <2>3, <2>4
<1>13. ASSUME NEW s \in Slots, Land(s) PROVE Current'
  <2>1. /\ UNCHANGED <<data, since, due, missed, user, tokens, leftover>> /\ shown' = Authed
        /\ DOMAIN jobs[s] = Parts /\ \A p \in Parts : jobs[s][p].at = "done"
        /\ lists' = [p \in Parts |-> [user |-> jobs[s][p].user,
                                      version |-> jobs[s][p].version]]
        /\ jobs'[s] = << >> /\ \A x \in Slots \ {s} : jobs'[x] = jobs[x]
    BY <1>0, <1>13 DEF Land, Loading, server, history
  <2>2. Authed' = Authed
    BY <2>1 DEF Authed
  <2>3. Started(since', data')
    BY <1>a, <2>1
  <2>4. Covered(jobs', since', due', missed')
    BY <1>a, <1>n, <2>1 DEF Covered
  <2>5. ASSUME ~missed PROVE Renders(shown', Authed', lists', due')
    <3> SUFFICES ASSUME NEW p \in Parts PROVE jobs[s][p].version >= due
      BY <2>1, <2>2 DEF Renders
    <3>1. jobs[s][p].version >= since[s] /\ since[s] >= due
      BY <1>a, <2>1, <2>5 DEF Covered
    <3>2. jobs[s][p].version \in Nat
      <4>1. p \in DOMAIN jobs[s] /\ p # "put"
        BY <2>1, PartAssumption
      <4>2. jobs[s][p] \in ListRequest
        BY <4>1, RequestTypes
      <4>3. jobs[s][p].at = "done"
        BY <2>1
      <4> QED
        BY <4>2, <4>3 DEF ListRequest, Unanswered
    <3>3. since[s] \in Nat
      BY <1>0
    <3> QED
      BY <1>0, <3>1, <3>2, <3>3
  <2> QED
    BY <1>b, <2>1, <2>3, <2>4, <2>5
<1>14. ASSUME NEW s \in Slots, Put(s) PROVE Current'
  <2>1. /\ UNCHANGED <<data, since, due, missed, lists, shown, user, tokens, leftover>>
        /\ jobs[s] = << >> /\ jobs'[s] = [p \in {"put"} |-> Sent(tokens, TRUE)]
        /\ \A x \in Slots \ {s} : jobs'[x] = jobs[x]
    BY <1>0, <1>14 DEF Put, Flying, server, signIn, history
  <2>2. Authed' = Authed
    BY <2>1 DEF Authed
  <2>3. DOMAIN jobs'[s] # Parts /\ DOMAIN jobs[s] # Parts
    BY <1>n, <2>1, PartAssumption
  <2>4. Started(since', data')
    BY <1>a, <2>1
  <2>5. Covered(jobs', since', due', missed')
    BY <1>a, <2>1, <2>3 DEF Covered
  <2>6. Some(jobs) => Some(jobs')
    BY <2>1, <2>3 DEF Some, Whole
  <2> QED
    BY <1>a, <1>b, <2>1, <2>2, <2>4, <2>5, <2>6
<1>15. ASSUME NEW s \in Slots, PutDone(s) \/ ReloadButton(s) \/ OnMessage(s) PROVE Current'
  <2>1. Load(s, tokens) /\ data' = data
    BY <1>15 DEF PutDone, ReloadButton, OnMessage, server
  <2> QED
    BY <1>0, <1>c, <2>1
<1>16. CASE Rotate \/ RefuseRefresh
  BY <1>16, <1>f DEF Rotate, RefuseRefresh, server, signIn
<1>17. CASE Refreshed
  <2>1. /\ UNCHANGED <<data, since, due, missed, lists, shown, user, leftover>>
        /\ refresh.at = "rotated" /\ tokens' = refresh.pair
        /\ jobs' = Awoken(Sent(refresh.pair, FALSE))
    BY <1>17 DEF Refreshed, server, history
  <2>2. /\ Sent(refresh.pair, FALSE) \in Unanswered /\ Sent(refresh.pair, FALSE).at = "sent"
    <3>1. refresh.pair \in 0 .. MaxPairs
      <4>1. refresh.pair \in 0 .. Len(issued) /\ Len(issued) \in Nat /\ Len(issued) <= MaxPairs
        BY LenProperties DEF Typed
      <4> QED
        BY <4>1
    <3> QED
      BY <3>1, SentIsRequest
  <2>3. Moves(jobs', Sent(refresh.pair, FALSE))
    BY <1>0, <2>1, <2>2, AwokenMoves
  <2>4. Authed' = Authed \/ leftover
    <3>1. refresh # NoRefresh /\ refresh.pair # 0
      BY <2>1 DEF Awaited, NoRefresh
    <3>2. leftover \/ (user # NoUser /\ tokens # 0)
      BY <3>1 DEF Own
    <3> QED
      BY <2>1, <3>1, <3>2 DEF Authed
  <2> QED
    BY <1>d, <2>1, <2>2, <2>3, <2>4
<1>18. CASE RefreshFailed
  <2>1. Clear /\ UNCHANGED <<data, since>> /\ jobs' = Awoken(Failed)
    BY <1>18 DEF RefreshFailed, server
  <2>2. Moves(jobs', Failed)
    BY <1>0, <2>1, SentIsRequest, AwokenMoves
  <2> QED
    BY <1>e, <2>1, <2>2
<1>19. CASE Open \/ SocketCloses \/ OldSocketCloses \/ Reconnect
  BY <1>19, <1>f DEF Open, SocketCloses, OldSocketCloses, Reconnect, server, signIn, history
<1>20. CASE AccessExpires \/ RefreshExpires
  BY <1>20, <1>f DEF AccessExpires, RefreshExpires, signIn, history
<1> QED
  BY <1>1, <1>2, <1>3, <1>4, <1>5, <1>6, <1>7, <1>8, <1>9, <1>10, <1>11, <1>12, <1>13, <1>14,
     <1>15, <1>16, <1>17, <1>18, <1>19, <1>20 DEF Next, Requests

------------------------------------------------------------------------------
(* The invariant, and what follows from it.                                 *)

Safe == Typed /\ Awaited /\ Own /\ Holds /\ OneSocket /\ Current

\* Safe holds at first.
LEMMA SafeInit == Init => Safe
<1> SUFFICES ASSUME Init PROVE Safe
  OBVIOUS
<1>1. DOMAIN << >> = {} /\ Len(<< >>) = 0 /\ << >> \in Seq(Users) /\ MaxPairs \in Nat
      /\ MaxChanges \in Nat /\ Parts # {}
  BY BoundAssumption, PartAssumption
<1>2. /\ issued = << >> /\ live = {} /\ fresh = {} /\ data = 0 /\ user = NoUser
      /\ tokens = 0 /\ shown = FALSE /\ logins = {} /\ leaving = 0
      /\ refresh = [at |-> "none", pair |-> 0]
      /\ jobs = [s \in Slots |-> << >>] /\ lists = [p \in Parts |-> NoList]
      /\ socket = [at |-> "none", pair |-> 0] /\ closing = 0 /\ timers = 0 /\ inbox = 0
      /\ leftover = FALSE /\ excuse = TRUE /\ hasty = FALSE
      /\ due = 0 /\ since = [s \in Slots |-> 0] /\ missed = FALSE
  BY DEF Init, NoRefresh, NoSocket
<1>3. Typed
  <2>1. Flags
    BY <1>2, Zenon DEF Flags
  <2>2. jobs \in [Slots -> Jobs]
    BY <1>2 DEF Jobs
  <2>3. lists \in [Parts -> [user : Users \cup {NoUser}, version : 0 .. MaxChanges]]
    BY <1>1, <1>2 DEF NoList
  <2>4. since \in [Slots -> 0 .. MaxChanges] /\ data \in 0 .. MaxChanges
    BY <1>1, <1>2
  <2> QED
    BY <1>1, <1>2, <2>1, <2>2, <2>3, <2>4 DEF Typed
<1>4. \A s \in Slots : DOMAIN jobs[s] = {}
  BY <1>1, <1>2
<1>5. Awaited
  BY <1>2, <1>4 DEF Awaited, NoRefresh
<1>6. Own
  <2>1. Flying = {}
    BY <1>2 DEF Flying
  <2>2. \A p \in Parts : lists[p].user = NoUser
    BY <1>2 DEF NoList
  <2> QED
    BY <1>2, <1>4, <2>1, <2>2 DEF Own, NoRefresh
<1>7. Holds
  BY <1>2 DEF Holds
<1>8. OneSocket
  <2>1. One(socket.at # "none") = 0
    BY <1>2 DEF One
  <2> QED
    BY <1>2, <2>1 DEF OneSocket, Sockets
<1>9. Current
  <2>1. Authed = FALSE
    BY <1>2 DEF Authed
  <2>2. \A p \in Parts : lists[p].version >= due
    BY <1>2 DEF NoList
  <2>3. \A s \in Slots : since[s] <= data
    BY <1>2
  <2>4. \A s \in Slots : DOMAIN jobs[s] # Parts
    BY <1>1, <1>4
  <2>5. shown = Authed
    BY <1>2, <2>1
  <2> QED
    BY <2>2, <2>3, <2>4, <2>5 DEF Current
<1> QED
  BY <1>3, <1>5, <1>6, <1>7, <1>8, <1>9 DEF Safe

\* Every step keeps Safe.
LEMMA SafeStep == Safe /\ [Next]_vars => Safe'
<1> SUFFICES ASSUME Safe, [Next]_vars PROVE Safe'
  OBVIOUS
<1>1. Typed /\ Awaited /\ Own /\ Holds /\ OneSocket /\ Current
  BY DEF Safe
<1>2. Typed'
  BY <1>1, TypedStep
<1>3. Awaited'
  BY <1>1, <1>2, AwaitedStep
<1>4. Own'
  BY <1>1, <1>2, OwnStep
<1>5. Holds'
  BY <1>1, HoldsStep
<1>6. OneSocket'
  BY <1>1, OneSocketStep
<1>7. Current'
  BY <1>1, <1>2, CurrentStep
<1> QED
  BY <1>2, <1>3, <1>4, <1>5, <1>6, <1>7 DEF Safe

\* Every state that the tab can reach satisfies Safe.
LEMMA Invariant == Spec => []Safe
BY SafeInit, SafeStep, PTL DEF Spec

\* Every variable keeps its type, and a request waits only while a refresh is
\* in flight, so that it is woken.
THEOREM TypeCorrect == Spec => []TypeOK
<1>1. Safe => TypeOK
  <2> SUFFICES ASSUME Typed, Awaited PROVE TypeOK
    BY DEF Safe
  <2>1. live \cup fresh \cup logins \subseteq DOMAIN issued
    <3>1. DOMAIN issued = 1 .. Len(issued)
      BY DEF Typed
    <3> QED
      BY <3>1 DEF Typed
  <2>2. ASSUME NEW s \in Slots PROVE DOMAIN jobs[s] \in {{}, {"put"}, Parts}
    <3>1. jobs[s] \in Jobs
      BY DEF Typed
    <3> QED
      BY <3>1, JobShapes
  <2>3. ASSUME NEW s \in Slots, NEW p \in DOMAIN jobs[s] PROVE jobs[s][p] \in Request
    <3>1. jobs[s][p] \in IF p = "put" THEN PutRequest ELSE ListRequest
      BY RequestTypes
    <3> QED
      BY <3>1 DEF PutRequest, ListRequest, Unanswered, Request
  <2>4. \A s \in Slots : \A p \in DOMAIN jobs[s] :
          jobs[s][p].at = "waiting" => refresh # NoRefresh
    BY DEF Awaited
  <2>5. {leaving, closing, timers, inbox, due} \subseteq Nat
    BY DEF Typed
  <2>6. {shown, leftover, excuse, missed, hasty} \subseteq BOOLEAN
    BY Zenon DEF Typed, Flags
  <2> QED
    BY <2>1, <2>2, <2>3, <2>4, <2>5, <2>6 DEF Typed, TypeOK
<1> QED
  BY <1>1, Invariant, PTL

\* Whoever is signed in holds their own tokens and is shown no other user's
\* lists; of a user who has signed out only the statistics are kept, hidden.  Unless
\* something of an earlier sign-in was still in flight.
THEOREM ShownFits == Spec => []WhatIsShownFits
<1>1. Safe => WhatIsShownFits
  <2> SUFFICES ASSUME Own PROVE WhatIsShownFits
    BY DEF Safe
  <2>1. leftover \/ ((user = NoUser) = (tokens = 0))
    BY Zenon DEF Own
  <2> QED
    BY <2>1 DEF Own, WhatIsShownFits
<1> QED
  BY <1>1, Invariant, PTL

\* The rotation of the tokens signs nobody out.
THEOREM SignedOut == Spec => []SignedOutForAReason
<1>1. Safe => SignedOutForAReason
  BY DEF Safe, Holds, SignedOutForAReason
<1> QED
  BY <1>1, Invariant, PTL

\* When all is quiet the dashboard is at least as recent as the last event.
THEOREM LoadsNotLost == Spec => []LoadsAreNotLost
<1>1. Safe => LoadsAreNotLost
  <2> SUFFICES ASSUME Current, Flying = {}, ~missed, ~leftover
               PROVE  shown = Authed /\ \A p \in Parts : lists[p].version >= due
    BY DEF Safe, LoadsAreNotLost
  <2>1. DOMAIN << >> = {} /\ Parts # {}
    BY PartAssumption
  <2>2. \A s \in Slots : ~Good(s)
    BY <2>1 DEF Flying, Good
  <2> QED
    BY <2>2 DEF Current
<1> QED
  BY <1>1, Invariant, PTL

\* A signed-in tab has exactly one socket or one reconnect to come, unless
\* somebody signed in while an earlier socket was still to close.
THEOREM OneSocketOrTimer == Spec => []SocketOrTimer
<1>1. Safe => SocketOrTimer
  BY DEF Safe, OneSocket, Sockets, SocketOrTimer
<1> QED
  BY <1>1, Invariant, PTL
==============================================================================
