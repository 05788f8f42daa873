--------------------------- MODULE SessionsProofs -----------------------------
(***************************************************************************)
(* The safety of refresh tokens, for any users, any number of calls at a   *)
(* time and any clock readings, equal ones included.                       *)
(*                                                                         *)
(* The strengthening says what a call between two of its statements may    *)
(* rely on: the token it was given is one a browser has, its session       *)
(* exists, and, as long as it is the only call that refreshes the session, *)
(* that the session has no usable token but the one it is replacing.       *)
(***************************************************************************)
EXTENDS Sessions, FiniteSetTheorems, TLAPS

\* A call's variables fit what it does next, and its session exists, unless it
\* is about to store the first token of it.
JobsFit ==
  /\ DOMAIN job = Calls
  /\ \A t \in DOMAIN rows : rows[t].session \in DOMAIN rows
  /\ \A c \in Calls :
       /\ job[c].kind \in {"none", "register", "login", "refresh"}
       /\ job[c].kind = "none" <=> pc[c] = "idle"
       /\ pc[c] \in {"check", "revoke"} =>
            /\ job[c].kind = "refresh"
            /\ job[c].token \in held
            /\ rows[job[c].token].session = job[c].session
       /\ job[c].kind = "refresh" => job[c].session \in DOMAIN rows
       /\ job[c].kind \in {"register", "login"} => job[c].new = job[c].session

\* c is between the check and the end of a refresh of session s.
Replacing(c, s) ==
  job[c].kind = "refresh" /\ job[c].session = s /\ pc[c] \in {"revoke", "store"}

\* Nothing brings an ended session back.
EndedStays ==
  /\ ended \subseteq DOMAIN rows
  /\ \A s \in ended : LiveTokens(s) = {} /\ \A c \in Calls : ~Replacing(c, s)

\* Until two calls refresh a session at a time, the one call that does has to do
\* with its only usable token.
Rotation ==
  \A s \in Tokens \ overlapped :
    /\ \A c, d \in Serving(s) : c = d
    /\ \A t, x \in LiveTokens(s) : t = x
    /\ \A c \in Serving(s) :
         /\ pc[c] = "revoke" => LiveTokens(s) \subseteq {job[c].token}
         /\ pc[c] = "store" => LiveTokens(s) = {}

\* The next token of session s is on its way to a browser.
Coming(s) ==
  \E c \in Calls : /\ job[c].session = s
                   /\ \/ pc[c] = "store" /\ job[c].kind = "refresh"
                      \/ pc[c] = "reply" /\ Live(job[c].new)

Reasons ==
  /\ \A s \in Sessions :
       \/ LiveTokens(s) \cap held # {}
       \/ s \in loggedOut \cup outdated \cup broken
       \/ Coming(s)
  /\ \A c \in Calls : pc[c] = "reply" => Live(job[c].new) \/ job[c].session \in outdated

IInv == TypeOK /\ JobsFit /\ RepliesAreUnique /\ EndedStays /\ Rotation /\ Reasons

------------------------------------------------------------------------------
\* Before anybody has registered there is nothing to say.
LEMMA InitInv == Init => IInv
  BY DEF Init, IInv, TypeOK, JobsFit, RepliesAreUnique, EndedStays, Rotation, Reasons,
     Sessions, LiveTokens, Live, Serving, NoJob, Replacing, Row

\* Revoking a token, or its expiry, takes away that token only.
LEMMA RowsDim ==
  ASSUME TypeOK, NEW t \in DOMAIN rows,
         \/ rows' = [rows EXCEPT ![t].revoked = TRUE]
         \/ rows' = [rows EXCEPT ![t].expired = TRUE]
  PROVE  /\ DOMAIN rows' = DOMAIN rows
         /\ rows' \in [DOMAIN rows -> Row]
         /\ \A x \in DOMAIN rows : rows'[x].session = rows[x].session
         /\ ~Live(t)'
         /\ \A x : x # t => (Live(x)' <=> Live(x))
         /\ \A x : Live(x)' => Live(x)
         /\ \A s : LiveTokens(s)' = LiveTokens(s) \ {t}
<1>1. rows[t] \in Row /\ rows \in [DOMAIN rows -> Row]
  BY DEF TypeOK
<1>2. /\ DOMAIN rows' = DOMAIN rows
      /\ \A x \in DOMAIN rows : x # t => rows'[x] = rows[x]
      /\ rows'[t] \in Row /\ rows'[t].session = rows[t].session
      /\ rows'[t].revoked \/ rows'[t].expired
  BY <1>1 DEF Row
<1>3. rows' \in [DOMAIN rows -> Row]
  BY <1>1, <1>2
<1>4. \A x \in DOMAIN rows : rows'[x].session = rows[x].session
  BY <1>2
<1>5. ~Live(t)' /\ \A x : x # t => (Live(x)' <=> Live(x))
  BY <1>2 DEF Live
<1>6. \A s : LiveTokens(s)' = LiveTokens(s) \ {t}
  BY <1>2, <1>4, <1>5 DEF LiveTokens
<1> QED
  BY <1>2, <1>3, <1>4, <1>5, <1>6

\* Storing a token adds that token only.
LEMMA RowsGrow ==
  ASSUME TypeOK, NEW t \in Tokens, NEW q \in Tokens, t \notin DOMAIN rows,
         rows' = NewRow(t, q)
  PROVE  /\ DOMAIN rows' = DOMAIN rows \cup {t}
         /\ rows' \in [DOMAIN rows' -> Row]
         /\ \A x \in DOMAIN rows : rows'[x] = rows[x]
         /\ rows'[t].session = q
         /\ Live(t)' /\ ~Live(t)
         /\ \A x : x # t => (Live(x)' <=> Live(x))
         /\ \A s : LiveTokens(s)' = LiveTokens(s) \cup (IF s = q THEN {t} ELSE {})
<1>1. /\ DOMAIN rows' = DOMAIN rows \cup {t}
      /\ \A x \in DOMAIN rows : rows'[x] = rows[x]
      /\ rows'[t] = [session |-> q, revoked |-> FALSE, expired |-> FALSE]
      /\ rows' = [x \in DOMAIN rows' |-> rows'[x]]
  BY DEF NewRow
<1>2. rows' \in [DOMAIN rows' -> Row]
  <2>1. rows'[t] \in Row
    BY <1>1 DEF Row
  <2>2. \A x \in DOMAIN rows' : rows'[x] \in Row
    BY <1>1, <2>1 DEF TypeOK
  <2> QED
    BY <1>1, <2>2
<1>3. Live(t)' /\ ~Live(t) /\ \A x : x # t => (Live(x)' <=> Live(x))
  BY <1>1 DEF Live
<1>4. \A s : LiveTokens(s)' = LiveTokens(s) \cup (IF s = q THEN {t} ELSE {})
  BY <1>1, <1>3 DEF LiveTokens, Live
<1> QED
  BY <1>1, <1>2, <1>3, <1>4
------------------------------------------------------------------------------
(* One lemma per action                                                     *)

\* A login or a registration draws the name of a session that may exist already;
\* then it will not be stored.
LEMMA StartInv ==
  ASSUME IInv, NEW c \in Calls, NEW u \in Users, NEW kind \in {"register", "login"},
         Start(c, u, kind)
  PROVE  IInv'
<1>1. PICK tick \in Ticks :
        job' = [job EXCEPT ![c] = [kind |-> kind, new |-> <<u, tick>>,
                                   session |-> <<u, tick>>]]
  BY DEF Start
<1>2. /\ pc' = [pc EXCEPT ![c] = "store"] /\ pc[c] = "idle"
      /\ pc'[c] = "store" /\ job'[c].kind = kind
      /\ job'[c].new = <<u, tick>> /\ job'[c].session = <<u, tick>>
      /\ \A d \in Calls : d # c => pc'[d] = pc[d] /\ job'[d] = job[d]
      /\ DOMAIN job' = Calls /\ <<u, tick>> \in Tokens
      /\ UNCHANGED <<accounts, rows, held, history>>
  BY <1>1 DEF Start, Goto, IInv, TypeOK, JobsFit, Tokens
<1> HIDE DEF Tokens
<1>3. /\ \A s : LiveTokens(s)' = LiveTokens(s)
      /\ \A s : Serving(s)' = Serving(s)
      /\ \A x : Live(x)' = Live(x)
  BY <1>2 DEF IInv, JobsFit, LiveTokens, Live, Serving, history
<1>4. TypeOK'
  <2>1. pc' \in [Calls -> {"idle", "check", "revoke", "store", "reply"}]
    BY <1>2 DEF IInv, TypeOK
  <2>2. ASSUME NEW d \in Calls, d # c
        PROVE  /\ pc'[d] = "idle" => job'[d] = NoJob
               /\ pc'[d] \in {"check", "revoke"} =>
                    job'[d] \in [kind : {"refresh"}, token : DOMAIN rows, session : Tokens]
               /\ pc'[d] \in {"store", "reply"} =>
                    /\ job'[d].session \in Tokens
                    /\ job'[d].new \in IF pc'[d] = "reply" THEN DOMAIN rows ELSE Tokens
    BY <1>2, <2>2 DEF IInv, TypeOK
  <2> QED
    BY <1>2, <2>1, <2>2 DEF IInv, TypeOK, history
<1>5. JobsFit'
  BY <1>2, <1>3 DEF IInv, TypeOK, JobsFit, history
<1>6. RepliesAreUnique'
  BY <1>2, <1>3 DEF IInv, TypeOK, JobsFit, RepliesAreUnique, history
<1>7. EndedStays'
  BY <1>2, <1>3 DEF IInv, TypeOK, JobsFit, EndedStays, Replacing, history
<1>8. Rotation'
  BY <1>2, <1>3 DEF IInv, TypeOK, JobsFit, Rotation, Serving, history
<1>9. Reasons'
  BY <1>2, <1>3 DEF IInv, TypeOK, JobsFit, RepliesAreUnique, Reasons, Sessions, Coming, history
<1> QED
  BY <1>4, <1>5, <1>6, <1>7, <1>8, <1>9 DEF IInv

\* A second refresh of a session puts it among the overlapped ones.
LEMMA RefreshInv ==
  ASSUME IInv, NEW c \in Calls, NEW t \in held, Refresh(c, t)
  PROVE  IInv'
<1> DEFINE q == rows[t].session
<1>1. t \in DOMAIN rows /\ q \in Tokens /\ q \in DOMAIN rows /\ q = rows[t].session
  BY DEF IInv, TypeOK, JobsFit, Row
<1>2. /\ pc' = [pc EXCEPT ![c] = "check"] /\ pc[c] = "idle" /\ job[c].kind = "none"
      /\ pc'[c] = "check"
      /\ job'[c] = [kind |-> "refresh", token |-> t, session |-> q]
      /\ \A d \in Calls : d # c => pc'[d] = pc[d] /\ job'[d] = job[d]
      /\ DOMAIN job' = Calls
      /\ UNCHANGED <<accounts, rows, held, loggedOut, outdated, broken, ended>>
      /\ overlapped' = IF Serving(q) # {} THEN overlapped \cup {q} ELSE overlapped
  BY DEF Refresh, Goto, IInv, TypeOK, JobsFit
<1>3. /\ \A s : LiveTokens(s)' = LiveTokens(s)
      /\ \A s : Serving(s)' = IF s = q THEN Serving(s) \cup {c} ELSE Serving(s)
      /\ \A x : Live(x)' = Live(x)
  BY <1>2 DEF LiveTokens, Live, Serving
<1> HIDE DEF q
<1>4. TypeOK'
  BY <1>1, <1>2, <1>3 DEF IInv, TypeOK, JobsFit, history
<1>5. JobsFit'
  BY <1>1, <1>2, <1>3 DEF IInv, TypeOK, JobsFit, history
<1>6. RepliesAreUnique'
  BY <1>1, <1>2, <1>3 DEF IInv, TypeOK, JobsFit, RepliesAreUnique, history
<1>7. EndedStays'
  BY <1>1, <1>2, <1>3 DEF IInv, TypeOK, JobsFit, EndedStays, Replacing, history
<1>8. Rotation'
  BY <1>1, <1>2, <1>3 DEF IInv, TypeOK, JobsFit, Rotation, Serving, history
<1>9. Reasons'
  BY <1>1, <1>2, <1>3
     DEF IInv, TypeOK, JobsFit, RepliesAreUnique, Reasons, Sessions, Coming, history
<1> QED
  BY <1>4, <1>5, <1>6, <1>7, <1>8, <1>9 DEF IInv

\* A refresh that fails the check has changed nothing.
LEMMA FinishInv ==
  ASSUME IInv, NEW c \in Calls, Finish(c), pc[c] = "check",
         UNCHANGED <<accounts, rows, held, history>>
  PROVE  IInv'
<1>2. /\ pc'[c] = "idle" /\ job'[c] = NoJob /\ job'[c].kind = "none"
      /\ pc' = [pc EXCEPT ![c] = "idle"]
      /\ \A d \in Calls : d # c => pc'[d] = pc[d] /\ job'[d] = job[d]
      /\ DOMAIN job' = Calls
      /\ UNCHANGED <<accounts, rows, held, history>>
  BY DEF Finish, Goto, IInv, TypeOK, JobsFit, NoJob
<1>3. /\ \A s : LiveTokens(s)' = LiveTokens(s)
      /\ \A s : Serving(s)' = Serving(s) \ {c}
      /\ \A x : Live(x)' = Live(x)
  BY <1>2 DEF LiveTokens, Live, Serving
<1>4. TypeOK'
  BY <1>2, <1>3 DEF IInv, TypeOK, JobsFit, history
<1>5. JobsFit'
  BY <1>2, <1>3 DEF IInv, TypeOK, JobsFit, history
<1>6. RepliesAreUnique'
  BY <1>2, <1>3 DEF IInv, TypeOK, JobsFit, RepliesAreUnique, history
<1>7. EndedStays'
  BY <1>2, <1>3 DEF IInv, TypeOK, JobsFit, EndedStays, Replacing, history
<1>8. Rotation'
  BY <1>2, <1>3 DEF IInv, TypeOK, JobsFit, Rotation, Serving, history
<1>9. Reasons'
  BY <1>2, <1>3 DEF IInv, TypeOK, JobsFit, RepliesAreUnique, Reasons, Sessions, Coming, history
<1> QED
  BY <1>4, <1>5, <1>6, <1>7, <1>8, <1>9 DEF IInv

\* A refresh goes on with a usable token, which is its session's only one.
LEMMA ValidateInv ==
  ASSUME IInv, NEW c \in Calls, ValidateRefreshTokenStorage(c)
  PROVE  IInv'
<1>1. CASE ~Live(job[c].token)
  BY <1>1, FinishInv DEF ValidateRefreshTokenStorage
<1>2. CASE Live(job[c].token)
  <2> DEFINE q == job[c].session
  <2>1. /\ pc[c] = "check" /\ pc'[c] = "revoke" /\ pc' = [pc EXCEPT ![c] = "revoke"]
        /\ \A d \in Calls : d # c => pc'[d] = pc[d]
        /\ UNCHANGED <<accounts, rows, held, job, history>>
    BY <1>2 DEF ValidateRefreshTokenStorage, Goto, IInv, TypeOK
  <2>2. job[c].token \in LiveTokens(q) /\ job[c].kind = "refresh" /\ c \in Serving(q)
    BY <1>2, <2>1 DEF IInv, JobsFit, LiveTokens, Live, Serving
  <2>3. /\ \A s : LiveTokens(s)' = LiveTokens(s)
        /\ \A s : Serving(s)' = Serving(s)
        /\ \A x : Live(x)' = Live(x)
    BY <2>1, <2>2 DEF LiveTokens, Live, Serving
  <2> HIDE DEF q
  <2>4. TypeOK'
    BY <2>1, <2>2, <2>3 DEF q, IInv, TypeOK, JobsFit, history
  <2>5. JobsFit'
    BY <2>1, <2>2, <2>3 DEF q, IInv, TypeOK, JobsFit, history
  <2>6. RepliesAreUnique'
    BY <2>1, <2>2, <2>3 DEF q, IInv, TypeOK, JobsFit, RepliesAreUnique, history
  <2>7. EndedStays'
    BY <2>1, <2>2, <2>3 DEF q, IInv, TypeOK, JobsFit, EndedStays, Replacing, history
  <2>8. Rotation'
    BY <2>1, <2>2, <2>3 DEF q, IInv, TypeOK, JobsFit, Rotation, Serving, history
  <2>9. Reasons'
    BY <2>1, <2>2, <2>3 DEF q, IInv, TypeOK, JobsFit, RepliesAreUnique, Reasons, Sessions, Coming, history
  <2> QED
    BY <2>4, <2>5, <2>6, <2>7, <2>8, <2>9 DEF IInv
<1> QED
  BY <1>1, <1>2

\* From here to StoreRefreshToken the session has no usable token.
LEMMA RevokeInv ==
  ASSUME IInv, NEW c \in Calls, Revoke(c)
  PROVE  IInv'
<1>0. PICK t, q : t = job[c].token /\ q = job[c].session
  OBVIOUS
<1>1. PICK tick \in Ticks :
        job' = [job EXCEPT ![c] = [kind |-> "refresh", token |-> t,
                                   new |-> <<t[1], tick>>, session |-> q]]
  BY <1>0 DEF Revoke
<1> DEFINE n == <<t[1], tick>>
<1>2. /\ pc[c] = "revoke" /\ job[c].kind = "refresh"
      /\ t = job[c].token /\ t \in held /\ t \in DOMAIN rows /\ rows[t].session = q
      /\ q = job[c].session /\ q \in Tokens /\ q \in DOMAIN rows
      /\ n \in Tokens
      /\ c \in Serving(q) /\ rows' = [rows EXCEPT ![t].revoked = TRUE]
  BY <1>0 DEF Revoke, RevokeRefreshToken, IInv, TypeOK, JobsFit, Tokens, Serving
<1>3. /\ pc' = [pc EXCEPT ![c] = "store"] /\ pc'[c] = "store"
      /\ job'[c] = [kind |-> "refresh", token |-> t, new |-> n, session |-> q]
      /\ \A d \in Calls : d # c => pc'[d] = pc[d] /\ job'[d] = job[d]
      /\ DOMAIN job' = Calls
      /\ UNCHANGED <<accounts, held, history>>
  BY <1>1 DEF Revoke, Goto, IInv, TypeOK, JobsFit
<1> HIDE DEF n
<1>a. /\ DOMAIN rows' = DOMAIN rows
      /\ rows' \in [DOMAIN rows -> Row]
      /\ \A x \in DOMAIN rows : rows'[x].session = rows[x].session
      /\ ~Live(t)'
      /\ \A x : x # t => (Live(x)' <=> Live(x))
      /\ \A x : Live(x)' => Live(x)
      /\ \A s : LiveTokens(s)' = LiveTokens(s) \ {t}
  BY <1>2, RowsDim DEF IInv
<1>b. \A s : Serving(s)' = Serving(s)
  BY <1>2, <1>3 DEF Serving
<1>4. TypeOK'
  BY <1>2, <1>3, <1>a, <1>b DEF IInv, TypeOK, JobsFit, history
<1>5. JobsFit'
  BY <1>2, <1>3, <1>a, <1>b DEF IInv, TypeOK, JobsFit, history
<1>6. RepliesAreUnique'
  BY <1>2, <1>3, <1>a, <1>b DEF IInv, TypeOK, JobsFit, RepliesAreUnique, history
<1>7. EndedStays'
  BY <1>2, <1>3, <1>a, <1>b DEF IInv, TypeOK, JobsFit, EndedStays, Replacing, history
<1>8. Rotation'
  BY <1>2, <1>3, <1>a, <1>b DEF IInv, TypeOK, JobsFit, Rotation, Serving, history
<1>9. Reasons'
  <2>1. ASSUME NEW s \in Sessions', s = q
        PROVE  LiveTokens(s)' \cap held' # {} \/ s \in outdated \/ Coming(s)'
    BY <1>2, <1>3, <1>a, <2>1 DEF Coming
  <2>2. ASSUME NEW s \in Sessions', s # q
        PROVE  \/ LiveTokens(s)' \cap held' # {}
               \/ s \in loggedOut \cup outdated \cup broken
               \/ Coming(s)'
    <3>1. s \in Sessions
      BY <1>2, <1>3, <1>a, <2>2 DEF Sessions
    <3>2. LiveTokens(s)' = LiveTokens(s)
      BY <1>2, <1>3, <1>a, <2>2 DEF LiveTokens
    <3>3. Coming(s) => Coming(s)'
      BY <1>2, <1>3, <1>a, <2>2 DEF Coming, IInv, RepliesAreUnique
    <3> QED
      BY <1>2, <1>3, <1>a, <3>1, <3>2, <3>3 DEF IInv, Reasons
  <2>3. ASSUME NEW d \in Calls, pc'[d] = "reply"
        PROVE  (Live(job[d].new) \/ job[d].session \in outdated)'
    <3>1. PICK x : x = job'[d].new
      OBVIOUS
    <3>2. (Live(job[d].new))' <=> Live(x)'
      BY <3>1 DEF Live
    <3>3. Live(x)' \/ job'[d].session \in outdated'
      BY <1>2, <1>3, <1>a, <2>3, <3>1 DEF IInv, TypeOK, Reasons, RepliesAreUnique, history
    <3> QED
      BY <3>2, <3>3
  <2> QED
    BY <1>2, <1>3, <1>a, <2>1, <2>2, <2>3 DEF Reasons, history
<1> QED
  BY <1>4, <1>5, <1>6, <1>7, <1>8, <1>9 DEF IInv

\* The new token is the only usable one of its session.
LEMMA StoreInv ==
  ASSUME IInv, NEW c \in Calls, StoreRefreshToken(c)
  PROVE  IInv'
<1>0. PICK t, q : t = job[c].new /\ q = job[c].session
  OBVIOUS
<1>1. /\ pc[c] = "store" /\ t = job[c].new /\ q = job[c].session
      /\ t \in Tokens /\ q \in Tokens /\ t \notin DOMAIN rows
      /\ job[c].kind \in {"register", "login", "refresh"}
      /\ rows' = NewRow(t, q) /\ t[1] \in Users
      /\ accounts' = accounts \cup {t[1]}
  BY <1>0 DEF StoreRefreshToken, IInv, TypeOK, JobsFit, Tokens
<1>2. /\ pc' = [pc EXCEPT ![c] = "reply"] /\ pc'[c] = "reply"
      /\ \A d \in Calls : d # c => pc'[d] = pc[d]
      /\ UNCHANGED <<held, job, history>>
  BY DEF StoreRefreshToken, Goto, IInv, TypeOK
<1>a. /\ DOMAIN rows' = DOMAIN rows \cup {t}
      /\ rows' \in [DOMAIN rows' -> Row]
      /\ \A x \in DOMAIN rows : rows'[x] = rows[x]
      /\ rows'[t].session = q
      /\ Live(t)' /\ ~Live(t)
      /\ \A x : x # t => (Live(x)' <=> Live(x))
      /\ \A s : LiveTokens(s)' = LiveTokens(s) \cup (IF s = q THEN {t} ELSE {})
  BY <1>1, RowsGrow DEF IInv
<1>b. \A s : Serving(s)' = IF s = q THEN Serving(s) \cup {c} ELSE Serving(s)
  BY <1>1, <1>2 DEF Serving
<1>c. job[c].kind # "refresh" => q = t /\ Serving(q) = {} /\ LiveTokens(q) = {}
  BY <1>1 DEF IInv, TypeOK, JobsFit, RepliesAreUnique, Serving, LiveTokens, Live
<1>4. TypeOK'
  BY <1>1, <1>2, <1>a, <1>b, <1>c DEF IInv, TypeOK, JobsFit, history
<1>5. JobsFit'
  BY <1>1, <1>2, <1>a, <1>b, <1>c DEF IInv, TypeOK, JobsFit, history
<1>6. RepliesAreUnique'
  BY <1>1, <1>2, <1>a, <1>b, <1>c DEF IInv, TypeOK, JobsFit, RepliesAreUnique, history
<1>7. EndedStays'
  BY <1>1, <1>2, <1>a, <1>b, <1>c DEF IInv, TypeOK, JobsFit, EndedStays, Replacing, history
<1>8. Rotation'
  BY <1>1, <1>2, <1>a, <1>b, <1>c DEF IInv, TypeOK, JobsFit, Rotation, Serving, history
<1>9. Reasons'
  <2>1. ASSUME NEW s \in Sessions', s = q
        PROVE  LiveTokens(s)' \cap held' # {} \/ s \in outdated \/ Coming(s)'
    BY <1>1, <1>2, <1>a, <2>1 DEF Coming
  <2>2. ASSUME NEW s \in Sessions', s # q
        PROVE  \/ LiveTokens(s)' \cap held' # {}
               \/ s \in loggedOut \cup outdated \cup broken
               \/ Coming(s)'
    <3>1. s \in Sessions
      BY <1>1, <1>2, <1>a, <2>2 DEF Sessions
    <3>2. LiveTokens(s)' = LiveTokens(s)
      BY <1>1, <1>2, <1>a, <2>2 DEF LiveTokens
    <3>3. Coming(s) => Coming(s)'
      BY <1>1, <1>2, <1>a, <2>2 DEF Coming, IInv, RepliesAreUnique
    <3> QED
      BY <1>1, <1>2, <1>a, <3>1, <3>2, <3>3 DEF IInv, Reasons
  <2>3. ASSUME NEW d \in Calls, pc'[d] = "reply"
        PROVE  (Live(job[d].new) \/ job[d].session \in outdated)'
    <3>1. PICK x : x = job'[d].new
      OBVIOUS
    <3>2. (Live(job[d].new))' <=> Live(x)'
      BY <3>1 DEF Live
    <3>3. Live(x)' \/ job'[d].session \in outdated'
      BY <1>1, <1>2, <1>a, <2>3, <3>1 DEF IInv, TypeOK, Reasons, RepliesAreUnique, history
    <3> QED
      BY <3>2, <3>3
  <2> QED
    BY <1>1, <1>2, <1>a, <2>1, <2>2, <2>3 DEF Reasons, history
<1> QED
  BY <1>4, <1>5, <1>6, <1>7, <1>8, <1>9 DEF IInv

\* The new token reaches the browser, unless it has expired on the way.
LEMMA ReplyInv ==
  ASSUME IInv, NEW c \in Calls, Reply(c)
  PROVE  IInv'
<1>0. PICK q : q = job[c].session
  OBVIOUS
<1>1. /\ pc[c] = "reply" /\ q = job[c].session /\ job[c].new \in DOMAIN rows /\ job[c].new \notin held
      /\ held' = held \cup {job[c].new} /\ rows[job[c].new].session = job[c].session
      /\ job[c].session \in Tokens
  BY <1>0 DEF Reply, IInv, TypeOK, RepliesAreUnique
<1>2. /\ pc'[c] = "idle" /\ job'[c] = NoJob /\ job'[c].kind = "none"
      /\ pc' = [pc EXCEPT ![c] = "idle"]
      /\ \A d \in Calls : d # c => pc'[d] = pc[d] /\ job'[d] = job[d]
      /\ DOMAIN job' = Calls
      /\ UNCHANGED <<accounts, rows, history>>
  BY DEF Reply, Finish, Goto, IInv, TypeOK, JobsFit, NoJob
<1>3. /\ \A s : LiveTokens(s)' = LiveTokens(s)
      /\ \A s : Serving(s)' = Serving(s) \ {c}
      /\ \A x : Live(x)' = Live(x)
  BY <1>2 DEF LiveTokens, Live, Serving
<1>c. Live(job[c].new) => job[c].new \in LiveTokens(job[c].session) \cap held'
  BY <1>1 DEF LiveTokens
<1>4. TypeOK'
  BY <1>1, <1>2, <1>3, <1>c DEF IInv, TypeOK, JobsFit, history
<1>5. JobsFit'
  BY <1>1, <1>2, <1>3, <1>c DEF IInv, TypeOK, JobsFit, history
<1>6. RepliesAreUnique'
  BY <1>1, <1>2, <1>3, <1>c DEF IInv, TypeOK, JobsFit, RepliesAreUnique, history
<1>7. EndedStays'
  BY <1>1, <1>2, <1>3, <1>c DEF IInv, TypeOK, JobsFit, EndedStays, Replacing, history
<1>8. Rotation'
  BY <1>1, <1>2, <1>3, <1>c DEF IInv, TypeOK, JobsFit, Rotation, Serving, history
<1>9. Reasons'
  <2>1. ASSUME NEW s \in Sessions', s = q
        PROVE  LiveTokens(s)' \cap held' # {} \/ s \in outdated \/ Coming(s)'
    BY <1>1, <1>2, <1>3, <1>c, <2>1 DEF IInv, Reasons
  <2>2. ASSUME NEW s \in Sessions', s # q
        PROVE  \/ LiveTokens(s)' \cap held' # {}
               \/ s \in loggedOut \cup outdated \cup broken
               \/ Coming(s)'
    <3>1. s \in Sessions
      BY <1>1, <1>2, <1>3, <1>c, <2>2 DEF Sessions
    <3>2. LiveTokens(s)' = LiveTokens(s)
      BY <1>1, <1>2, <1>3, <1>c, <2>2 DEF LiveTokens
    <3>3. Coming(s) => Coming(s)'
      BY <1>1, <1>2, <1>3, <1>c, <2>2 DEF Coming, IInv, RepliesAreUnique
    <3> QED
      BY <1>1, <1>2, <1>3, <1>c, <3>1, <3>2, <3>3 DEF IInv, Reasons
  <2>3. ASSUME NEW d \in Calls, pc'[d] = "reply"
        PROVE  (Live(job[d].new) \/ job[d].session \in outdated)'
    <3>1. PICK x : x = job'[d].new
      OBVIOUS
    <3>2. (Live(job[d].new))' <=> Live(x)'
      BY <3>1 DEF Live
    <3>3. Live(x)' \/ job'[d].session \in outdated'
      BY <1>1, <1>2, <1>3, <1>c, <2>3, <3>1 DEF IInv, TypeOK, Reasons, RepliesAreUnique, history
    <3> QED
      BY <3>2, <3>3
  <2> QED
    BY <1>1, <1>2, <1>3, <1>c, <2>1, <2>2, <2>3 DEF Reasons, history
<1> QED
  BY <1>4, <1>5, <1>6, <1>7, <1>8, <1>9 DEF IInv

\* A session whose next token is lost is remembered in broken.
LEMMA GiveUpInv ==
  ASSUME IInv, NEW c \in Calls, GiveUp(c)
  PROVE  IInv'
<1>1. /\ pc'[c] = "idle" /\ job'[c] = NoJob /\ job'[c].kind = "none" /\ pc[c] # "idle"
      /\ pc' = [pc EXCEPT ![c] = "idle"]
      /\ \A d \in Calls : d # c => pc'[d] = pc[d] /\ job'[d] = job[d]
      /\ DOMAIN job' = Calls /\ job[c].session \in Tokens
      /\ UNCHANGED <<accounts, rows, held, loggedOut, outdated, overlapped, ended>>
  BY DEF GiveUp, Finish, Goto, IInv, TypeOK, JobsFit, NoJob
<1>2. /\ broken \subseteq broken' /\ broken' \subseteq broken \cup {job[c].session}
      /\ pc[c] = "reply" => job[c].session \in broken'
      /\ pc[c] = "store" /\ job[c].kind = "refresh" => job[c].session \in broken'
  BY <1>1 DEF GiveUp, Serving
<1>3. /\ \A s : LiveTokens(s)' = LiveTokens(s)
      /\ \A s : Serving(s)' = Serving(s) \ {c}
      /\ \A x : Live(x)' = Live(x)
  BY <1>1 DEF LiveTokens, Live, Serving
<1>4. TypeOK'
  BY <1>1, <1>2, <1>3 DEF IInv, TypeOK, JobsFit, history
<1>5. JobsFit'
  BY <1>1, <1>2, <1>3 DEF IInv, TypeOK, JobsFit, history
<1>6. RepliesAreUnique'
  BY <1>1, <1>2, <1>3 DEF IInv, TypeOK, JobsFit, RepliesAreUnique, history
<1>7. EndedStays'
  BY <1>1, <1>2, <1>3 DEF IInv, TypeOK, JobsFit, EndedStays, Replacing, history
<1>8. Rotation'
  BY <1>1, <1>2, <1>3 DEF IInv, TypeOK, JobsFit, Rotation, Serving, history
<1>9. Reasons'
  BY <1>1, <1>2, <1>3
     DEF IInv, TypeOK, JobsFit, RepliesAreUnique, Reasons, Sessions, Coming, history
<1> QED
  BY <1>4, <1>5, <1>6, <1>7, <1>8, <1>9 DEF IInv

\* A logout takes one token away; its session has ended if that was the last.
LEMMA LogoutInv ==
  ASSUME IInv, NEW t \in held, Logout(t)
  PROVE  IInv'
<1> DEFINE q == rows[t].session
<1>1. /\ t \in held /\ t \in DOMAIN rows /\ q = rows[t].session /\ q \in Tokens /\ q \in DOMAIN rows
      /\ rows' = [rows EXCEPT ![t].revoked = TRUE]
      /\ UNCHANGED <<accounts, held, pc, job, outdated, broken, overlapped>>
      /\ loggedOut' = IF Live(t) THEN loggedOut \cup {q} ELSE loggedOut
      /\ ended' = IF Serving(q) = {} /\ LiveTokens(q) \subseteq {t} THEN ended \cup {q} ELSE ended
  BY DEF Logout, RevokeRefreshToken, IInv, TypeOK, JobsFit, Row
<1> HIDE DEF q
<1>2. /\ DOMAIN rows' = DOMAIN rows
      /\ rows' \in [DOMAIN rows -> Row]
      /\ \A x \in DOMAIN rows : rows'[x].session = rows[x].session
      /\ ~Live(t)'
      /\ \A x : x # t => (Live(x)' <=> Live(x))
      /\ \A x : Live(x)' => Live(x)
      /\ \A s : LiveTokens(s)' = LiveTokens(s) \ {t}
  BY <1>1, RowsDim DEF IInv
<1>3. /\ \A s : Serving(s)' = Serving(s)
      /\ \A s : t \in LiveTokens(s) => s = q
      /\ \A s : \A c \in Calls : Replacing(c, s) => c \in Serving(s)
      /\ Live(t) <=> t \in LiveTokens(q)
  BY <1>1 DEF Serving, LiveTokens, Replacing, IInv, JobsFit
<1>4. TypeOK'
  BY <1>1, <1>2, <1>3 DEF IInv, TypeOK, JobsFit, history
<1>5. JobsFit'
  BY <1>1, <1>2, <1>3 DEF IInv, TypeOK, JobsFit, history
<1>6. RepliesAreUnique'
  BY <1>1, <1>2, <1>3 DEF IInv, TypeOK, JobsFit, RepliesAreUnique, history
<1>7. EndedStays'
  BY <1>1, <1>2, <1>3 DEF IInv, TypeOK, JobsFit, EndedStays, Replacing, history
<1>8. Rotation'
  BY <1>1, <1>2, <1>3 DEF IInv, TypeOK, JobsFit, Rotation, Serving, history
<1>9. Reasons'
  BY <1>1, <1>2, <1>3
     DEF IInv, TypeOK, JobsFit, RepliesAreUnique, Reasons, Sessions, Coming, history
<1> QED
  BY <1>4, <1>5, <1>6, <1>7, <1>8, <1>9 DEF IInv

\* A token that expires takes its session to outdated.
LEMMA ExpireInv ==
  ASSUME IInv, NEW t \in DOMAIN rows, Expire(t)
  PROVE  IInv'
<1> DEFINE q == rows[t].session
<1>1. /\ t \in DOMAIN rows /\ q = rows[t].session /\ q \in Tokens
      /\ rows' = [rows EXCEPT ![t].expired = TRUE]
      /\ UNCHANGED <<accounts, held, pc, job, loggedOut, broken, overlapped, ended>>
      /\ outdated' = outdated \cup {q}
  BY DEF Expire, IInv, TypeOK, Row
<1> HIDE DEF q
<1>2. /\ DOMAIN rows' = DOMAIN rows
      /\ rows' \in [DOMAIN rows -> Row]
      /\ \A x \in DOMAIN rows : rows'[x].session = rows[x].session
      /\ ~Live(t)'
      /\ \A x : x # t => (Live(x)' <=> Live(x))
      /\ \A x : Live(x)' => Live(x)
      /\ \A s : LiveTokens(s)' = LiveTokens(s) \ {t}
  BY <1>1, RowsDim DEF IInv
<1>3. /\ \A s : Serving(s)' = Serving(s)
      /\ \A s : t \in LiveTokens(s) => s = q
      /\ \A s : \A c \in Calls : Replacing(c, s) => c \in Serving(s)
      /\ Live(t) <=> t \in LiveTokens(q)
  BY <1>1 DEF Serving, LiveTokens, Replacing, IInv, JobsFit
<1>4. TypeOK'
  BY <1>1, <1>2, <1>3 DEF IInv, TypeOK, JobsFit, history
<1>5. JobsFit'
  BY <1>1, <1>2, <1>3 DEF IInv, TypeOK, JobsFit, history
<1>6. RepliesAreUnique'
  BY <1>1, <1>2, <1>3 DEF IInv, TypeOK, JobsFit, RepliesAreUnique, history
<1>7. EndedStays'
  BY <1>1, <1>2, <1>3 DEF IInv, TypeOK, JobsFit, EndedStays, Replacing, history
<1>8. Rotation'
  BY <1>1, <1>2, <1>3 DEF IInv, TypeOK, JobsFit, Rotation, Serving, history
<1>9. Reasons'
  BY <1>1, <1>2, <1>3
     DEF IInv, TypeOK, JobsFit, RepliesAreUnique, Reasons, Sessions, Coming, history
<1> QED
  BY <1>4, <1>5, <1>6, <1>7, <1>8, <1>9 DEF IInv

------------------------------------------------------------------------------
\* Every step of every call preserves the invariant.
LEMMA StepInv == IInv /\ [Next]_vars => IInv'
<1> SUFFICES ASSUME IInv, [Next]_vars PROVE IInv'
  OBVIOUS
<1>1. CASE UNCHANGED vars
  BY <1>1 DEF vars, history, IInv, TypeOK, JobsFit, RepliesAreUnique, EndedStays, Rotation,
     Reasons, Sessions, LiveTokens, Live, Serving, Replacing, Coming
<1>2. CASE Next
  BY <1>2, StartInv, RefreshInv, ValidateInv, RevokeInv, StoreInv, ReplyInv, GiveUpInv,
     LogoutInv, ExpireInv DEF Next
<1> QED
  BY <1>1, <1>2

\* The invariant holds of every reachable state.
LEMMA Invariance == Spec => []IInv
  BY InitInv, StepInv, PTL DEF Spec

\* The variables keep their types; browsers only hold tokens that were stored.
THEOREM TypeCorrect == Spec => []TypeOK
<1>1. IInv => TypeOK
  BY DEF IInv
<1> QED
  BY <1>1, Invariance, PTL

\* A session has at most one usable token, until two calls refresh it at a time:
\* the three statements of Refresh are only unsafe against each other.
THEOREM Rotates == Spec => []OneTokenPerSession
<1>1. IInv => OneTokenPerSession
  <2> SUFFICES ASSUME IInv, NEW s \in Sessions \ overlapped
               PROVE  Cardinality(LiveTokens(s)) <= 1
    BY DEF OneTokenPerSession
  <2>1. s \in Tokens \ overlapped
    BY DEF IInv, TypeOK, Sessions, Row
  <2>2. \A t, x \in LiveTokens(s) : t = x
    BY <2>1 DEF IInv, Rotation
  <2>3. CASE LiveTokens(s) = {}
    BY <2>3, FS_EmptySet
  <2>4. CASE LiveTokens(s) # {}
    <3>1. PICK t : LiveTokens(s) = {t}
      BY <2>2, <2>4
    <3> QED
      BY <3>1, FS_Singleton
  <2> QED
    BY <2>3, <2>4
<1> QED
  BY <1>1, Invariance, PTL

\* A session that Logout ended while nothing refreshed it has no usable token
\* ever again, whatever calls come later and whatever clocks they read.
THEOREM LogoutFinal == Spec => []LogoutIsFinal
<1>1. IInv => LogoutIsFinal
  BY DEF IInv, EndedStays, LogoutIsFinal
<1> QED
  BY <1>1, Invariance, PTL

\* A session does not end but by a logout, an expiry, a failed statement or a
\* lost answer.
THEOREM NoSilentEnd == Spec => []SessionsEndForAReason
<1>1. IInv => SessionsEndForAReason
  BY DEF IInv, Reasons, Coming, Serving, SessionsEndForAReason
<1> QED
  BY <1>1, Invariance, PTL

\* Calls that read the same clock do not answer with the same token.
THEOREM UniqueReplies == Spec => []RepliesAreUnique
<1>1. IInv => RepliesAreUnique
  BY DEF IInv
<1> QED
  BY <1>1, Invariance, PTL
==============================================================================
