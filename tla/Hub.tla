-------------------------------- MODULE Hub ----------------------------------
(***************************************************************************)
(* The WebSocket hub: internal/ws/hub.go, internal/ws/client.go and        *)
(* internal/handlers/ws_handler.go.                                        *)
(*                                                                         *)
(* Hub.Run is one goroutine that receives registrations and               *)
(* unregistrations over unbuffered channels and changes the registry under *)
(* a lock.  Every connection has three goroutines: the HTTP handler that   *)
(* upgrades and registers it, then its ReadPump and its WritePump.  Any    *)
(* goroutine that serves an HTTP call may publish: it copies the set of    *)
(* the user's clients under the read lock and, after unlocking, offers the *)
(* event to one client after the other.  A client whose buffer is full is  *)
(* told to quit and unregistered by the publisher.                         *)
(*                                                                         *)
(* A member of Clients stands for a *ws.Client and its connection.  It is  *)
(* used again for a new connection once no goroutine refers to it.         *)
(* The hub's goroutine does not stop before the process does.              *)
(***************************************************************************)
EXTENDS Naturals, Sequences, FiniteSets

CONSTANTS Users, Clients,
          Owner,                   \* Owner[c]: the user c authenticates as
          Publishers,              \* goroutines that serve HTTP calls
          MaxConnectionsPerUser,
          SendCap,                 \* capacity of Client.send (32)
          MaxEvents                \* bound: events published in a behaviour

ASSUME OwnerAssumption == Owner \in [Clients -> Users]
ASSUME CapAssumption == MaxConnectionsPerUser \in Nat /\ SendCap \in Nat \ {0}
ASSUME ClientsAssumption == IsFiniteSet(Clients)

VARIABLES
  users,          \* users[u]: the registered clients of u
  registering,    \* the client whose registration the hub has in hand, if any
  unregistering,  \* the client whose unregistration the hub has in hand, if any
  handler,        \* handler[c], reader[c], writer[c]: what the goroutines of
  reader,         \*   c do next ("off": not started, or returned)
  writer,
  send,           \* send[c]: the buffered channel Client.send
  done,           \* done[c]: the channel Client.done is closed
  open,           \* open[c]: the server has not closed the connection
  peer,           \* peer[c]: the browser at the other end is still there
  writing,        \* writing[c]: the message in WritePump's hands, if any
  got,            \* history: got[c], what the browser received
  owed,           \* history: owed[c], the events for which c was a recipient
  log,            \* history: who published the i-th event, and for whom
  pub             \* pub[p]: p's call of PublishToUser

registry == <<users, registering, unregistering>>
conns == <<open, peer>>
stream == <<send, writing, got>>
histories == <<owed, log>>
vars == <<registry, handler, reader, writer, done, conns, stream, histories, pub>>

Idle == [pc |-> "idle", event |-> 0, left |-> {}, victim |-> {}]

\* Hub.Run is in its select.
HubReady == registering = {} /\ unregistering = {}

\* Goroutines other than c's own that still point to c.
Referenced(c) ==
  \/ c \in users[Owner[c]] \cup registering \cup unregistering
  \/ \E p \in Publishers : c \in pub[p].left \cup pub[p].victim

------------------------------------------------------------------------------
(* WSHandler.ServeHTTP                                                      *)

\* The connection is upgraded before anything is counted.
Upgrade(c) ==
  /\ handler[c] = "off" /\ reader[c] = "off" /\ writer[c] = "off"
  /\ ~Referenced(c)
  /\ handler' = [handler EXCEPT ![c] = "register"]
  /\ open' = [open EXCEPT ![c] = TRUE]
  /\ peer' = [peer EXCEPT ![c] = TRUE]
  /\ done' = [done EXCEPT ![c] = FALSE]
  /\ send' = [send EXCEPT ![c] = << >>]
  /\ writing' = [writing EXCEPT ![c] = << >>]
  /\ got' = [got EXCEPT ![c] = << >>]
  /\ owed' = [owed EXCEPT ![c] = {}]
  /\ UNCHANGED <<registry, reader, writer, log, pub>>

\* Hub.Register: the rendezvous with Hub.Run, then the wait for the result.
Register(c) ==
  /\ handler[c] = "register"
  /\ HubReady
  /\ registering' = {c}
  /\ handler' = [handler EXCEPT ![c] = "await"]
  /\ UNCHANGED <<users, unregistering, reader, writer, done, conns, stream, histories, pub>>

StartPumps(c) ==
  /\ handler[c] = "start"
  /\ handler' = [handler EXCEPT ![c] = "off"]
  /\ reader' = [reader EXCEPT ![c] = "read"]
  /\ writer' = [writer EXCEPT ![c] = "select"]
  /\ UNCHANGED <<registry, done, conns, stream, histories, pub>>

Reject(c) ==
  /\ handler[c] = "reject"
  /\ handler' = [handler EXCEPT ![c] = "off"]
  /\ open' = [open EXCEPT ![c] = FALSE]
  /\ UNCHANGED <<registry, reader, writer, done, peer, stream, histories, pub>>

------------------------------------------------------------------------------
(* Hub.Run, holding the lock                                                *)

\* The result channel has room for one result: the hub never waits for c.
HubRegister(c) ==
  /\ registering = {c}
  /\ registering' = {}
  /\ IF Cardinality(users[Owner[c]]) >= MaxConnectionsPerUser
     THEN /\ handler' = [handler EXCEPT ![c] = "reject"]
          /\ UNCHANGED users
     ELSE /\ handler' = [handler EXCEPT ![c] = "start"]
          /\ users' = [users EXCEPT ![Owner[c]] = @ \cup {c}]
  /\ UNCHANGED <<unregistering, reader, writer, done, conns, stream, histories, pub>>

\* Mutant: the client is not told to quit.
HubUnregisterSilently(c) ==
  /\ unregistering = {c}
  /\ unregistering' = {}
  /\ users' = [users EXCEPT ![Owner[c]] = @ \ {c}]
  /\ UNCHANGED <<registering, handler, reader, writer, done, conns, stream, histories, pub>>

\* Mutant: publishers hold the read lock until they return.
HubUnregisterLockedOut(c) ==
  /\ unregistering = {c}
  /\ \A p \in Publishers : pub[p].pc = "idle"
  /\ unregistering' = {}
  /\ users' = [users EXCEPT ![Owner[c]] = @ \ {c}]
  /\ done' = [done EXCEPT ![c] = @ \/ c \in users[Owner[c]]]
  /\ UNCHANGED <<registering, handler, reader, writer, conns, stream, histories, pub>>

\* Unregistering a client twice, or one that is gone, changes nothing.
HubUnregister(c) ==
  /\ unregistering = {c}
  /\ unregistering' = {}
  /\ users' = [users EXCEPT ![Owner[c]] = @ \ {c}]
  /\ done' = [done EXCEPT ![c] = @ \/ c \in users[Owner[c]]]
  /\ UNCHANGED <<registering, handler, reader, writer, conns, stream, histories, pub>>

------------------------------------------------------------------------------
(* Client.ReadPump                                                          *)

\* Mutant: the deferred calls start with the shutdown.
ReadErrorForgets(c) ==
  /\ reader[c] = "read"
  /\ ~open[c] \/ ~peer[c]
  /\ reader' = [reader EXCEPT ![c] = "shutdown"]
  /\ UNCHANGED <<registry, handler, writer, done, conns, stream, histories, pub>>

\* ReadMessage fails on a closed connection, and once the browser is gone:
\* at the latest when no pong came for pongWait.
ReadError(c) ==
  /\ reader[c] = "read"
  /\ ~open[c] \/ ~peer[c]
  /\ reader' = [reader EXCEPT ![c] = "unregister"]
  /\ UNCHANGED <<registry, handler, writer, done, conns, stream, histories, pub>>

\* Mutant: the client is dropped when the hub is busy.
UnregisterIfReady(c) ==
  /\ reader[c] = "unregister"
  /\ unregistering' = IF HubReady THEN {c} ELSE unregistering
  /\ reader' = [reader EXCEPT ![c] = "shutdown"]
  /\ UNCHANGED <<users, registering, handler, writer, done, conns, stream, histories, pub>>

\* The deferred calls: Unregister waits for the hub to take the client in
\* hand, not for the registry to change.
Unregister(c) ==
  /\ reader[c] = "unregister"
  /\ HubReady
  /\ unregistering' = {c}
  /\ reader' = [reader EXCEPT ![c] = "shutdown"]
  /\ UNCHANGED <<users, registering, handler, writer, done, conns, stream, histories, pub>>

Shutdown(c) ==
  /\ reader[c] = "shutdown"
  /\ done' = [done EXCEPT ![c] = TRUE]
  /\ reader' = [reader EXCEPT ![c] = "close"]
  /\ UNCHANGED <<registry, handler, writer, conns, stream, histories, pub>>

CloseReader(c) ==
  /\ reader[c] = "close"
  /\ open' = [open EXCEPT ![c] = FALSE]
  /\ reader' = [reader EXCEPT ![c] = "off"]
  /\ UNCHANGED <<registry, handler, writer, done, peer, stream, histories, pub>>

------------------------------------------------------------------------------
(* Client.WritePump: its select takes any case that is ready                *)

TakeMessage(c) ==
  /\ writer[c] = "select"
  /\ send[c] # << >>
  /\ writing' = [writing EXCEPT ![c] = <<Head(send[c])>>]
  /\ send' = [send EXCEPT ![c] = Tail(@)]
  /\ writer' = [writer EXCEPT ![c] = "write"]
  /\ UNCHANGED <<registry, handler, reader, done, conns, got, histories, pub>>

\* The kernel takes the bytes, also when nobody reads them any more; or the
\* write fails: the connection is closed or broken, or the browser is too slow
\* for writeWait.
WriteMessage(c) ==
  /\ writer[c] = "write"
  /\ \/ /\ open[c]
        /\ writer' = [writer EXCEPT ![c] = "select"]
        /\ got' = [got EXCEPT ![c] = IF peer[c] THEN @ \o writing[c] ELSE @]
     \/ /\ writer' = [writer EXCEPT ![c] = "close"]
        /\ UNCHANGED got
  /\ writing' = [writing EXCEPT ![c] = << >>]
  /\ UNCHANGED <<registry, handler, reader, done, conns, send, histories, pub>>

\* Mutant: WritePump returns without closing the connection.
TakeDoneLeavesOpen(c) ==
  /\ writer[c] = "select"
  /\ done[c]
  /\ writer' = [writer EXCEPT ![c] = "off"]
  /\ UNCHANGED <<registry, handler, reader, done, conns, stream, histories, pub>>

TakeDone(c) ==
  /\ writer[c] = "select"
  /\ done[c]
  /\ writer' = [writer EXCEPT ![c] = "close"]
  /\ UNCHANGED <<registry, handler, reader, done, conns, stream, histories, pub>>

\* A ping that succeeds changes nothing.
PingFails(c) ==
  /\ writer[c] = "select"
  /\ writer' = [writer EXCEPT ![c] = "close"]
  /\ UNCHANGED <<registry, handler, reader, done, conns, stream, histories, pub>>

CloseWriter(c) ==
  /\ writer[c] = "close"
  /\ open' = [open EXCEPT ![c] = FALSE]
  /\ writer' = [writer EXCEPT ![c] = "off"]
  /\ UNCHANGED <<registry, handler, reader, done, peer, stream, histories, pub>>

\* The browser leaves, crashes, breaks the protocol or loses its network.
PeerLeaves(c) ==
  /\ open[c]
  /\ peer' = [peer EXCEPT ![c] = FALSE]
  /\ UNCHANGED <<registry, handler, reader, writer, done, open, stream, histories, pub>>

------------------------------------------------------------------------------
(* Hub.PublishToUser                                                        *)

\* Mutant: every client is a recipient.
SnapshotOfAll(p, u) ==
  /\ pub[p].pc = "idle"
  /\ Len(log) < MaxEvents
  /\ log' = Append(log, [by |-> p, to |-> u])
  /\ owed' = owed
  /\ pub' = [pub EXCEPT ![p] = [pc |-> "offer", event |-> Len(log) + 1,
                                left |-> UNION {users[v] : v \in Users}, victim |-> {}]]
  /\ UNCHANGED <<registry, handler, reader, writer, done, conns, stream>>

\* The recipients, copied under the read lock.
Snapshot(p, u) ==
  /\ pub[p].pc = "idle"
  /\ Len(log) < MaxEvents
  /\ log' = Append(log, [by |-> p, to |-> u])
  /\ owed' = [c \in Clients |-> IF c \in users[u] THEN owed[c] \cup {Len(log) + 1}
                                                  ELSE owed[c]]
  /\ pub' = [pub EXCEPT ![p] = [pc |-> "offer", event |-> Len(log) + 1,
                                left |-> users[u], victim |-> {}]]
  /\ UNCHANGED <<registry, handler, reader, writer, done, conns, stream>>

\* Mutant: an event that does not fit is dropped.
OfferOrDrop(p, c) ==
  /\ pub[p].pc = "offer"
  /\ c \in pub[p].left
  /\ send' = [send EXCEPT ![c] =
                IF Len(@) < SendCap THEN Append(@, pub[p].event) ELSE @]
  /\ pub' = [pub EXCEPT ![p].left = @ \ {c}]
  /\ UNCHANGED <<registry, handler, reader, writer, done, conns, writing, got, histories>>

\* Mutant: the buffer takes one message too many.
OfferOneMore(p, c) ==
  /\ pub[p].pc = "offer"
  /\ c \in pub[p].left
  /\ Len(send[c]) <= SendCap
  /\ send' = [send EXCEPT ![c] = Append(@, pub[p].event)]
  /\ pub' = [pub EXCEPT ![p].left = @ \ {c}]
  /\ UNCHANGED <<registry, handler, reader, writer, done, conns, writing, got, histories>>

\* The select in the loop; the order of a map's keys is any order.
Offer(p, c) ==
  /\ pub[p].pc = "offer"
  /\ c \in pub[p].left
  /\ \/ /\ Len(send[c]) < SendCap
        /\ send' = [send EXCEPT ![c] = Append(@, pub[p].event)]
        /\ pub' = [pub EXCEPT ![p].left = @ \ {c}]
        /\ UNCHANGED done
     \/ /\ done[c]
        /\ pub' = [pub EXCEPT ![p].left = @ \ {c}]
        /\ UNCHANGED <<send, done>>
     \/ /\ Len(send[c]) = SendCap
        /\ ~done[c]
        /\ done' = [done EXCEPT ![c] = TRUE]
        /\ pub' = [pub EXCEPT ![p].pc = "evict", ![p].left = @ \ {c}, ![p].victim = {c}]
        /\ UNCHANGED send
  /\ UNCHANGED <<registry, handler, reader, writer, conns, writing, got, histories>>

\* The publisher waits for the hub to take the full client in hand.
Evict(p) ==
  /\ pub[p].pc = "evict"
  /\ HubReady
  /\ unregistering' = pub[p].victim
  /\ pub' = [pub EXCEPT ![p].pc = "offer", ![p].victim = {}]
  /\ UNCHANGED <<users, registering, handler, reader, writer, done, conns, stream, histories>>

Return(p) ==
  /\ pub[p].pc = "offer"
  /\ pub[p].left = {}
  /\ pub' = [pub EXCEPT ![p] = Idle]
  /\ UNCHANGED <<registry, handler, reader, writer, done, conns, stream, histories>>

------------------------------------------------------------------------------
Init ==
  /\ users = [u \in Users |-> {}]
  /\ registering = {}
  /\ unregistering = {}
  /\ handler = [c \in Clients |-> "off"]
  /\ reader = [c \in Clients |-> "off"]
  /\ writer = [c \in Clients |-> "off"]
  /\ send = [c \in Clients |-> << >>]
  /\ done = [c \in Clients |-> FALSE]
  /\ open = [c \in Clients |-> FALSE]
  /\ peer = [c \in Clients |-> FALSE]
  /\ writing = [c \in Clients |-> << >>]
  /\ got = [c \in Clients |-> << >>]
  /\ owed = [c \in Clients |-> {}]
  /\ log = << >>
  /\ pub = [p \in Publishers |-> Idle]

HubStep == \E c \in Clients : HubRegister(c) \/ HubUnregister(c)
Handle(c) == StartPumps(c) \/ Reject(c)
Read(c) == ReadError(c) \/ Shutdown(c) \/ CloseReader(c)
Write(c) == TakeMessage(c) \/ WriteMessage(c) \/ TakeDone(c) \/ CloseWriter(c)
Publish(p) == (\E c \in Clients : Offer(p, c)) \/ Return(p)

Next ==
  \/ HubStep
  \/ \E c \in Clients : \/ Upgrade(c) \/ Register(c) \/ Handle(c)
                        \/ Read(c) \/ Unregister(c)
                        \/ Write(c) \/ PingFails(c) \/ PeerLeaves(c)
  \/ \E p \in Publishers : \/ \E u \in Users : Snapshot(p, u)
                           \/ Publish(p) \/ Evict(p)

Spec == Init /\ [][Next]_vars

\* Goroutines that can go on are scheduled.  Senders queue on a channel, and
\* select picks at random: none that waits for the hub waits for ever.
FairSpec ==
  /\ Spec
  /\ WF_vars(HubStep)
  /\ \A c \in Clients : /\ WF_vars(Handle(c)) /\ WF_vars(Read(c)) /\ WF_vars(Write(c))
                        /\ SF_vars(Register(c)) /\ SF_vars(Unregister(c))
                        /\ SF_vars(TakeDone(c))
  /\ \A p \in Publishers : WF_vars(Publish(p)) /\ SF_vars(Evict(p))
------------------------------------------------------------------------------
Events == 1 .. Len(log)

TypeOK ==
  /\ users \in [Users -> SUBSET Clients]
  /\ registering \in SUBSET Clients /\ unregistering \in SUBSET Clients
  /\ handler \in [Clients -> {"off", "register", "await", "start", "reject"}]
  /\ reader \in [Clients -> {"off", "read", "unregister", "shutdown", "close"}]
  /\ writer \in [Clients -> {"off", "select", "write", "close"}]
  /\ send \in [Clients -> Seq(Nat)]
  /\ \A c \in Clients : Len(send[c]) <= SendCap
  /\ done \in [Clients -> BOOLEAN]
  /\ open \in [Clients -> BOOLEAN]
  /\ peer \in [Clients -> BOOLEAN]
  /\ writing \in [Clients -> Seq(Nat)]
  /\ got \in [Clients -> Seq(Nat)]
  /\ owed \in [Clients -> SUBSET Nat]
  /\ log \in Seq([by : Publishers, to : Users])
  /\ pub \in [Publishers -> [pc : {"idle", "offer", "evict"}, event : Nat,
                             left : SUBSET Clients, victim : SUBSET Clients]]

\* The pumps of c run, or are about to.
Serving(c) == handler[c] = "start" \/ reader[c] # "off" \/ writer[c] # "off"

\* Slots are neither exceeded nor leaked: a registered client is its owner's,
\* and its ReadPump is still to unregister it or the hub is doing so.  No
\* client comes back to the registry after it was unregistered.
SlotsAreAccounted ==
  \A u \in Users :
    /\ Cardinality(users[u]) <= MaxConnectionsPerUser
    /\ \A c \in users[u] : /\ Owner[c] = u
                           /\ \/ handler[c] = "start"
                              \/ reader[c] \in {"read", "unregister"}
                              \/ c \in unregistering

\* Nobody is left listening to a connection that will stay silent: a client
\* with running pumps that is not in the registry was told to quit.
NoDeafClient == \A c \in Clients : Serving(c) /\ c \notin users[Owner[c]] => done[c]

Contains(s, e) == \E i \in DOMAIN s : s[i] = e

\* What went or goes to the browser of c, in order.
Stream(c) == got[c] \o writing[c] \o send[c]

\* An event is never lost silently: as long as a connection works and its
\* client was not told to quit, every event published while it was registered
\* has been delivered, is under way, or is about to be offered to it.
NoSilentLoss ==
  \A c \in Clients :
    peer[c] /\ open[c] /\ ~done[c] /\ writer[c] # "close" =>
      \A e \in owed[c] :
        \/ Contains(Stream(c), e)
        \/ \E p \in Publishers : pub[p].event = e /\ c \in pub[p].left

\* A browser receives only events for its user, none twice, and those of one
\* HTTP call in the order of the calls of PublishToUser.
OwnEventsInOrder ==
  \A c \in Clients :
    LET s == Stream(c) IN
    /\ \A i \in DOMAIN s : s[i] \in Events /\ log[s[i]].to = Owner[c]
    /\ \A i, j \in DOMAIN s :
         i < j => s[i] # s[j] /\ (log[s[i]].by = log[s[j]].by => s[i] < s[j])

\* README, WS_MAX_CONNECTIONS_PER_USER: "Max concurrent WS connections per
\* user", counting the accepted connections that are open at both ends.
OpenConnectionsAreCapped ==
  \A u \in Users :
    Cardinality({c \in Clients : Owner[c] = u /\ open[c] /\ peer[c] /\ Serving(c)})
      <= MaxConnectionsPerUser

\* A slot comes back: when the browser is gone or the server closed the
\* connection, the client does not stay in the registry.
SlotsComeBack ==
  \A c \in Clients :
    (c \in users[Owner[c]] /\ (~peer[c] \/ ~open[c])) ~> c \notin users[Owner[c]]

\* A client that was told to quit is disconnected, so that the browser learns
\* about the gap in its events and connects again.
QuittersAreClosed == \A c \in Clients : done[c] ~> ~open[c]

\* Publishing returns: publishers, pumps and handlers that wait for the hub
\* never wait for each other, so HTTP calls are not held up by browsers.
PublishingReturns == \A p \in Publishers : pub[p].pc # "idle" ~> pub[p].pc = "idle"
==============================================================================
