------------------------------ MODULE HubProofs -------------------------------
(***************************************************************************)
(* The safety of the hub, for any users, connections, publishers, limits   *)
(* and buffer sizes.                                                       *)
(*                                                                         *)
(* The order of events needs more than the other properties: what was      *)
(* delivered, is being written and is buffered is one stream in order      *)
(* (StreamOK), and what a publisher is about to offer may follow it        *)
(* (MayFollow).                                                            *)
(***************************************************************************)
EXTENDS Hub, FiniteSetTheorems, SequenceTheorems, TLAPS

\* What the goroutines of a client and the publishers owe to the order of their
\* statements: a client waits for the hub only in its handler, its pumps do not
\* run before that, and a message is held only while it is being written.
Tidy ==
  /\ \A c \in registering : handler[c] = "await"
  /\ \A c \in Clients : handler[c] # "off" => reader[c] = "off" /\ writer[c] = "off"
  /\ \A c \in Clients : writer[c] # "write" => writing[c] = << >>
  /\ \A p \in Publishers : pub[p].pc = "idle" => pub[p].left = {}

------------------------------------------------------------------------------
\* The type of a publisher's call.
Calls == [pc : {"idle", "offer", "evict"}, event : Nat,
          left : SUBSET Clients, victim : SUBSET Clients]

\* An offer takes the client from the publisher's list; it changes no other call.
LEMMA OfferCall ==
  ASSUME TypeOK, NEW p \in Publishers, NEW c \in Clients, Offer(p, c)
  PROVE  /\ pub' \in [Publishers -> Calls]
         /\ pub'[p].left = pub[p].left \ {c}
         /\ pub'[p].event = pub[p].event
         /\ pub'[p].pc # "idle"
         /\ \A q \in Publishers \ {p} : pub'[q] = pub[q]
<1>1. pub \in [Publishers -> Calls]
  BY DEF TypeOK, Calls
<1>2. pub[p] \in Calls
  BY <1>1
<1>3. CASE pub' = [pub EXCEPT ![p].left = @ \ {c}]
  <2>1. pub' = [pub EXCEPT ![p] = [@ EXCEPT !.left = pub[p].left \ {c}]]
    BY <1>3, <1>1
  <2>2. [pub[p] EXCEPT !.left = pub[p].left \ {c}] \in Calls
    BY <1>2 DEF Calls
  <2>3. /\ [pub[p] EXCEPT !.left = pub[p].left \ {c}].left = pub[p].left \ {c}
        /\ [pub[p] EXCEPT !.left = pub[p].left \ {c}].event = pub[p].event
        /\ [pub[p] EXCEPT !.left = pub[p].left \ {c}].pc = pub[p].pc
    BY <1>2 DEF Calls
  <2>4. pub[p].pc = "offer"
    BY DEF Offer
  <2> QED
    BY <1>1, <2>1, <2>2, <2>3, <2>4
<1>4. CASE pub' = [pub EXCEPT ![p].pc = "evict", ![p].left = @ \ {c}, ![p].victim = {c}]
  <2> DEFINE r == [pub[p] EXCEPT !.pc = "evict", !.left = pub[p].left \ {c}, !.victim = {c}]
  <2>1. pub' = [pub EXCEPT ![p] = r]
    BY <1>4, <1>1
  <2>2. r \in Calls
    BY <1>2 DEF Calls
  <2>3. r.left = pub[p].left \ {c} /\ r.event = pub[p].event /\ r.pc = "evict"
    BY <1>2 DEF Calls
  <2> HIDE DEF r
  <2> QED
    BY <1>1, <2>1, <2>2, <2>3
<1> QED
  BY <1>3, <1>4 DEF Offer

\* An eviction changes the publisher's call to the loop again.
LEMMA EvictCall ==
  ASSUME TypeOK, NEW p \in Publishers, Evict(p)
  PROVE  /\ pub' \in [Publishers -> Calls]
         /\ pub'[p].left = pub[p].left
         /\ pub'[p].event = pub[p].event
         /\ pub'[p].pc # "idle"
         /\ \A q \in Publishers \ {p} : pub'[q] = pub[q]
<1> DEFINE r == [pub[p] EXCEPT !.pc = "offer", !.victim = {}]
<1>1. pub \in [Publishers -> Calls] /\ pub[p] \in Calls
  BY DEF TypeOK, Calls
<1>2. pub' = [pub EXCEPT ![p] = r]
  BY <1>1 DEF Evict
<1>3. r \in Calls
  BY <1>1 DEF Calls
<1>4. r.left = pub[p].left /\ r.event = pub[p].event /\ r.pc = "offer"
  BY <1>1 DEF Calls
<1> HIDE DEF r
<1> QED
  BY <1>1, <1>2, <1>3, <1>4

\* Every step keeps the types, and no buffer is filled beyond its capacity.
LEMMA TypeStep ==
  ASSUME TypeOK, [Next]_vars
  PROVE  TypeOK'
<1>1. CASE UNCHANGED vars
  BY <1>1 DEF vars, registry, conns, stream, histories, TypeOK, Idle
<1>2. ASSUME NEW c \in Clients, Upgrade(c) PROVE TypeOK'
  BY <1>2, CapAssumption, OwnerAssumption
     DEF Upgrade, registry, conns, stream, histories, TypeOK, Idle
<1>3. ASSUME NEW c \in Clients, Register(c) PROVE TypeOK'
  BY <1>3, CapAssumption, OwnerAssumption
     DEF Register, registry, conns, stream, histories, TypeOK, Idle
<1>4. ASSUME NEW c \in Clients, StartPumps(c) PROVE TypeOK'
  BY <1>4, CapAssumption, OwnerAssumption
     DEF StartPumps, registry, conns, stream, histories, TypeOK, Idle
<1>5. ASSUME NEW c \in Clients, Reject(c) PROVE TypeOK'
  BY <1>5, CapAssumption, OwnerAssumption
     DEF Reject, registry, conns, stream, histories, TypeOK, Idle
<1>6. ASSUME NEW c \in Clients, HubRegister(c) PROVE TypeOK'
  <2>1. CASE Cardinality(users[Owner[c]]) >= MaxConnectionsPerUser
    <3>1. handler' = [handler EXCEPT ![c] = "reject"] /\ users' = users
      BY <1>6, <2>1 DEF HubRegister
    <3> QED
      BY <1>6, <3>1, OwnerAssumption DEF HubRegister, registry, conns, stream, histories, TypeOK
  <2>2. CASE ~(Cardinality(users[Owner[c]]) >= MaxConnectionsPerUser)
    <3>1. /\ handler' = [handler EXCEPT ![c] = "start"]
          /\ users' = [users EXCEPT ![Owner[c]] = @ \cup {c}]
      BY <1>6, <2>2 DEF HubRegister
    <3> QED
      BY <1>6, <3>1, OwnerAssumption DEF HubRegister, registry, conns, stream, histories, TypeOK
  <2> QED
    BY <2>1, <2>2
<1>7. ASSUME NEW c \in Clients, HubUnregister(c) PROVE TypeOK'
  BY <1>7, CapAssumption, OwnerAssumption
     DEF HubUnregister, registry, conns, stream, histories, TypeOK, Idle
<1>8. ASSUME NEW c \in Clients, ReadError(c) PROVE TypeOK'
  BY <1>8, CapAssumption, OwnerAssumption
     DEF ReadError, registry, conns, stream, histories, TypeOK, Idle
<1>9. ASSUME NEW c \in Clients, Unregister(c) PROVE TypeOK'
  BY <1>9, CapAssumption, OwnerAssumption
     DEF Unregister, registry, conns, stream, histories, TypeOK, Idle
<1>10. ASSUME NEW c \in Clients, Shutdown(c) PROVE TypeOK'
  BY <1>10, CapAssumption, OwnerAssumption
     DEF Shutdown, registry, conns, stream, histories, TypeOK, Idle
<1>11. ASSUME NEW c \in Clients, CloseReader(c) PROVE TypeOK'
  BY <1>11, CapAssumption, OwnerAssumption
     DEF CloseReader, registry, conns, stream, histories, TypeOK, Idle
<1>12. ASSUME NEW c \in Clients, TakeMessage(c) PROVE TypeOK'
  BY <1>12, CapAssumption, OwnerAssumption
     DEF TakeMessage, registry, conns, stream, histories, TypeOK, Idle
<1>13. ASSUME NEW c \in Clients, WriteMessage(c) PROVE TypeOK'
  <2>1. got[c] \in Seq(Nat) /\ writing[c] \in Seq(Nat)
    BY DEF TypeOK
  <2>2. got[c] \o writing[c] \in Seq(Nat)
    BY <2>1, ConcatProperties
  <2>5. writing' \in [Clients -> Seq(Nat)]
    BY <1>13, EmptySeq DEF WriteMessage, TypeOK
  <2>3. CASE /\ writer' = [writer EXCEPT ![c] = "select"]
             /\ got' = [got EXCEPT ![c] = IF peer[c] THEN @ \o writing[c] ELSE @]
    <3>1. got' \in [Clients -> Seq(Nat)]
      BY <2>2, <2>3 DEF TypeOK
    <3> QED
      BY <1>13, <2>3, <2>5, <3>1 DEF WriteMessage, registry, conns, stream, histories, TypeOK
  <2>4. CASE writer' = [writer EXCEPT ![c] = "close"] /\ got' = got
    BY <1>13, <2>4, <2>5 DEF WriteMessage, registry, conns, stream, histories, TypeOK
  <2> QED
    BY <1>13, <2>3, <2>4 DEF WriteMessage
<1>14. ASSUME NEW c \in Clients, TakeDone(c) PROVE TypeOK'
  BY <1>14, CapAssumption, OwnerAssumption
     DEF TakeDone, registry, conns, stream, histories, TypeOK, Idle
<1>15. ASSUME NEW c \in Clients, PingFails(c) PROVE TypeOK'
  BY <1>15, CapAssumption, OwnerAssumption
     DEF PingFails, registry, conns, stream, histories, TypeOK, Idle
<1>16. ASSUME NEW c \in Clients, CloseWriter(c) PROVE TypeOK'
  BY <1>16, CapAssumption, OwnerAssumption
     DEF CloseWriter, registry, conns, stream, histories, TypeOK, Idle
<1>17. ASSUME NEW c \in Clients, PeerLeaves(c) PROVE TypeOK'
  BY <1>17, CapAssumption, OwnerAssumption
     DEF PeerLeaves, registry, conns, stream, histories, TypeOK, Idle
<1>18. ASSUME NEW p \in Publishers, NEW u \in Users, Snapshot(p, u) PROVE TypeOK'
  BY <1>18, CapAssumption, OwnerAssumption
     DEF Snapshot, registry, conns, stream, histories, TypeOK, Idle
<1>19. ASSUME NEW p \in Publishers, NEW c \in Clients, Offer(p, c) PROVE TypeOK'
  <2>1. /\ pub[p].event \in Nat /\ pub[p].left \in SUBSET Clients
        /\ send[c] \in Seq(Nat) /\ Len(send[c]) \in Nat
    BY LenProperties DEF TypeOK
  <2>2. /\ Append(send[c], pub[p].event) \in Seq(Nat)
        /\ Len(Append(send[c], pub[p].event)) = Len(send[c]) + 1
    BY <2>1, AppendProperties
  <2>3. pub' \in [Publishers -> Calls]
    BY <1>19, OfferCall
  <2>4. send' \in [Clients -> Seq(Nat)] /\ \A d \in Clients : Len(send'[d]) <= SendCap
    <3>1. CASE send' = send
      BY <3>1 DEF TypeOK
    <3>2. CASE /\ Len(send[c]) < SendCap
               /\ send' = [send EXCEPT ![c] = Append(@, pub[p].event)]
      BY <2>1, <2>2, <3>2, CapAssumption DEF TypeOK
    <3> QED
      BY <1>19, <3>1, <3>2 DEF Offer
  <2>5. done' \in [Clients -> BOOLEAN]
    BY <1>19 DEF Offer, TypeOK
  <2> QED
    BY <1>19, <2>3, <2>4, <2>5 DEF Offer, registry, conns, stream, histories, TypeOK, Calls
<1>20. ASSUME NEW p \in Publishers, Evict(p) PROVE TypeOK'
  <2>1. pub' \in [Publishers -> Calls]
    BY <1>20, EvictCall
  <2>2. unregistering' \in SUBSET Clients
    BY <1>20 DEF Evict, TypeOK
  <2> QED
    BY <1>20, <2>1, <2>2 DEF Evict, registry, conns, stream, histories, TypeOK, Calls
<1>21. ASSUME NEW p \in Publishers, Return(p) PROVE TypeOK'
  BY <1>21, CapAssumption, OwnerAssumption
     DEF Return, registry, conns, stream, histories, TypeOK, Idle
<1> QED
  BY <1>1, <1>2, <1>3, <1>4, <1>5, <1>6, <1>7, <1>8, <1>9, <1>10, <1>11, <1>12,
     <1>13, <1>14, <1>15, <1>16, <1>17, <1>18, <1>19, <1>20, <1>21
     DEF Next, HubStep, Handle, Read, Write, Publish

\* Every step keeps the order of the statements.
LEMMA TidyStep ==
  ASSUME TypeOK, Tidy, [Next]_vars
  PROVE  Tidy'
<1>1. CASE UNCHANGED vars
  BY <1>1 DEF vars, registry, conns, stream, histories, TypeOK, Tidy, Idle, HubReady
<1>2. ASSUME NEW c \in Clients, Upgrade(c) PROVE Tidy'
  BY <1>2 DEF Upgrade, registry, conns, stream, histories, TypeOK, Tidy, Idle, HubReady
<1>3. ASSUME NEW c \in Clients, Register(c) PROVE Tidy'
  BY <1>3 DEF Register, registry, conns, stream, histories, TypeOK, Tidy, Idle, HubReady
<1>4. ASSUME NEW c \in Clients, StartPumps(c) PROVE Tidy'
  BY <1>4 DEF StartPumps, registry, conns, stream, histories, TypeOK, Tidy, Idle, HubReady
<1>5. ASSUME NEW c \in Clients, Reject(c) PROVE Tidy'
  BY <1>5 DEF Reject, registry, conns, stream, histories, TypeOK, Tidy, Idle, HubReady
<1>6. ASSUME NEW c \in Clients, HubRegister(c) PROVE Tidy'
  BY <1>6 DEF HubRegister, registry, conns, stream, histories, TypeOK, Tidy, Idle, HubReady
<1>7. ASSUME NEW c \in Clients, HubUnregister(c) PROVE Tidy'
  BY <1>7 DEF HubUnregister, registry, conns, stream, histories, TypeOK, Tidy, Idle, HubReady
<1>8. ASSUME NEW c \in Clients, ReadError(c) PROVE Tidy'
  BY <1>8 DEF ReadError, registry, conns, stream, histories, TypeOK, Tidy, Idle, HubReady
<1>9. ASSUME NEW c \in Clients, Unregister(c) PROVE Tidy'
  BY <1>9 DEF Unregister, registry, conns, stream, histories, TypeOK, Tidy, Idle, HubReady
<1>10. ASSUME NEW c \in Clients, Shutdown(c) PROVE Tidy'
  BY <1>10 DEF Shutdown, registry, conns, stream, histories, TypeOK, Tidy, Idle, HubReady
<1>11. ASSUME NEW c \in Clients, CloseReader(c) PROVE Tidy'
  BY <1>11 DEF CloseReader, registry, conns, stream, histories, TypeOK, Tidy, Idle, HubReady
<1>12. ASSUME NEW c \in Clients, TakeMessage(c) PROVE Tidy'
  BY <1>12 DEF TakeMessage, registry, conns, stream, histories, TypeOK, Tidy, Idle, HubReady
<1>13. ASSUME NEW c \in Clients, WriteMessage(c) PROVE Tidy'
  BY <1>13 DEF WriteMessage, registry, conns, stream, histories, TypeOK, Tidy, Idle, HubReady
<1>14. ASSUME NEW c \in Clients, TakeDone(c) PROVE Tidy'
  BY <1>14 DEF TakeDone, registry, conns, stream, histories, TypeOK, Tidy, Idle, HubReady
<1>15. ASSUME NEW c \in Clients, PingFails(c) PROVE Tidy'
  BY <1>15 DEF PingFails, registry, conns, stream, histories, TypeOK, Tidy, Idle, HubReady
<1>16. ASSUME NEW c \in Clients, CloseWriter(c) PROVE Tidy'
  BY <1>16 DEF CloseWriter, registry, conns, stream, histories, TypeOK, Tidy, Idle, HubReady
<1>17. ASSUME NEW c \in Clients, PeerLeaves(c) PROVE Tidy'
  BY <1>17 DEF PeerLeaves, registry, conns, stream, histories, TypeOK, Tidy, Idle, HubReady
<1>18. ASSUME NEW p \in Publishers, NEW u \in Users, Snapshot(p, u) PROVE Tidy'
  BY <1>18 DEF Snapshot, registry, conns, stream, histories, TypeOK, Tidy, Idle, HubReady
<1>19. ASSUME NEW p \in Publishers, NEW c \in Clients, Offer(p, c) PROVE Tidy'
  <2>1. \A q \in Publishers : pub'[q].pc = "idle" => pub'[q].left = {}
    BY <1>19, OfferCall DEF Tidy
  <2> QED
    BY <1>19, <2>1 DEF Offer, registry, conns, stream, histories, TypeOK, Tidy
<1>20. ASSUME NEW p \in Publishers, Evict(p) PROVE Tidy'
  BY <1>20 DEF Evict, registry, conns, stream, histories, TypeOK, Tidy, Idle, HubReady
<1>21. ASSUME NEW p \in Publishers, Return(p) PROVE Tidy'
  BY <1>21 DEF Return, registry, conns, stream, histories, TypeOK, Tidy, Idle, HubReady
<1> QED
  BY <1>1, <1>2, <1>3, <1>4, <1>5, <1>6, <1>7, <1>8, <1>9, <1>10, <1>11, <1>12,
     <1>13, <1>14, <1>15, <1>16, <1>17, <1>18, <1>19, <1>20, <1>21
     DEF Next, HubStep, Handle, Read, Write, Publish

\* A client leaves the registry only together with the order to quit.
LEMMA DeafStep ==
  ASSUME TypeOK, Tidy, NoDeafClient, [Next]_vars
  PROVE  NoDeafClient'
<1>1. CASE UNCHANGED vars
  BY <1>1 DEF vars, registry, conns, stream, histories, TypeOK, Tidy, NoDeafClient, Serving
<1>2. ASSUME NEW c \in Clients, Upgrade(c) PROVE NoDeafClient'
  BY <1>2, OwnerAssumption
     DEF Upgrade, registry, conns, stream, histories, TypeOK, Tidy, NoDeafClient, Serving
<1>3. ASSUME NEW c \in Clients, Register(c) PROVE NoDeafClient'
  BY <1>3, OwnerAssumption
     DEF Register, registry, conns, stream, histories, TypeOK, Tidy, NoDeafClient, Serving
<1>4. ASSUME NEW c \in Clients, StartPumps(c) PROVE NoDeafClient'
  BY <1>4, OwnerAssumption
     DEF StartPumps, registry, conns, stream, histories, TypeOK, Tidy, NoDeafClient, Serving
<1>5. ASSUME NEW c \in Clients, Reject(c) PROVE NoDeafClient'
  BY <1>5, OwnerAssumption
     DEF Reject, registry, conns, stream, histories, TypeOK, Tidy, NoDeafClient, Serving
<1>6. ASSUME NEW c \in Clients, HubRegister(c) PROVE NoDeafClient'
  <2>1. CASE Cardinality(users[Owner[c]]) >= MaxConnectionsPerUser
    <3>1. handler' = [handler EXCEPT ![c] = "reject"] /\ users' = users
      BY <1>6, <2>1 DEF HubRegister
    <3> QED
      BY <1>6, <3>1, OwnerAssumption DEF HubRegister, registry, conns, stream, histories, TypeOK, Tidy, NoDeafClient, Serving
  <2>2. CASE ~(Cardinality(users[Owner[c]]) >= MaxConnectionsPerUser)
    <3>1. /\ handler' = [handler EXCEPT ![c] = "start"]
          /\ users' = [users EXCEPT ![Owner[c]] = @ \cup {c}]
      BY <1>6, <2>2 DEF HubRegister
    <3> QED
      BY <1>6, <3>1, OwnerAssumption DEF HubRegister, registry, conns, stream, histories, TypeOK, Tidy, NoDeafClient, Serving
  <2> QED
    BY <2>1, <2>2
<1>7. ASSUME NEW c \in Clients, HubUnregister(c) PROVE NoDeafClient'
  BY <1>7, OwnerAssumption
     DEF HubUnregister, registry, conns, stream, histories, TypeOK, Tidy, NoDeafClient, Serving
<1>8. ASSUME NEW c \in Clients, ReadError(c) PROVE NoDeafClient'
  BY <1>8, OwnerAssumption
     DEF ReadError, registry, conns, stream, histories, TypeOK, Tidy, NoDeafClient, Serving
<1>9. ASSUME NEW c \in Clients, Unregister(c) PROVE NoDeafClient'
  BY <1>9, OwnerAssumption
     DEF Unregister, registry, conns, stream, histories, TypeOK, Tidy, NoDeafClient, Serving
<1>10. ASSUME NEW c \in Clients, Shutdown(c) PROVE NoDeafClient'
  BY <1>10, OwnerAssumption
     DEF Shutdown, registry, conns, stream, histories, TypeOK, Tidy, NoDeafClient, Serving
<1>11. ASSUME NEW c \in Clients, CloseReader(c) PROVE NoDeafClient'
  BY <1>11, OwnerAssumption
     DEF CloseReader, registry, conns, stream, histories, TypeOK, Tidy, NoDeafClient, Serving
<1>12. ASSUME NEW c \in Clients, TakeMessage(c) PROVE NoDeafClient'
  BY <1>12, OwnerAssumption
     DEF TakeMessage, registry, conns, stream, histories, TypeOK, Tidy, NoDeafClient, Serving
<1>13. ASSUME NEW c \in Clients, WriteMessage(c) PROVE NoDeafClient'
  BY <1>13, OwnerAssumption
     DEF WriteMessage, registry, conns, stream, histories, TypeOK, Tidy, NoDeafClient, Serving
<1>14. ASSUME NEW c \in Clients, TakeDone(c) PROVE NoDeafClient'
  BY <1>14, OwnerAssumption
     DEF TakeDone, registry, conns, stream, histories, TypeOK, Tidy, NoDeafClient, Serving
<1>15. ASSUME NEW c \in Clients, PingFails(c) PROVE NoDeafClient'
  BY <1>15, OwnerAssumption
     DEF PingFails, registry, conns, stream, histories, TypeOK, Tidy, NoDeafClient, Serving
<1>16. ASSUME NEW c \in Clients, CloseWriter(c) PROVE NoDeafClient'
  BY <1>16, OwnerAssumption
     DEF CloseWriter, registry, conns, stream, histories, TypeOK, Tidy, NoDeafClient, Serving
<1>17. ASSUME NEW c \in Clients, PeerLeaves(c) PROVE NoDeafClient'
  BY <1>17, OwnerAssumption
     DEF PeerLeaves, registry, conns, stream, histories, TypeOK, Tidy, NoDeafClient, Serving
<1>18. ASSUME NEW p \in Publishers, NEW u \in Users, Snapshot(p, u) PROVE NoDeafClient'
  BY <1>18, OwnerAssumption
     DEF Snapshot, registry, conns, stream, histories, TypeOK, Tidy, NoDeafClient, Serving
<1>19. ASSUME NEW p \in Publishers, NEW c \in Clients, Offer(p, c) PROVE NoDeafClient'
  <2>1. \A d \in Clients : done[d] => done'[d]
    BY <1>19 DEF Offer, TypeOK
  <2> QED
    BY <1>19, <2>1 DEF Offer, registry, conns, stream, histories, NoDeafClient, Serving
<1>20. ASSUME NEW p \in Publishers, Evict(p) PROVE NoDeafClient'
  BY <1>20, OwnerAssumption
     DEF Evict, registry, conns, stream, histories, TypeOK, Tidy, NoDeafClient, Serving
<1>21. ASSUME NEW p \in Publishers, Return(p) PROVE NoDeafClient'
  BY <1>21, OwnerAssumption
     DEF Return, registry, conns, stream, histories, TypeOK, Tidy, NoDeafClient, Serving
<1> QED
  BY <1>1, <1>2, <1>3, <1>4, <1>5, <1>6, <1>7, <1>8, <1>9, <1>10, <1>11, <1>12,
     <1>13, <1>14, <1>15, <1>16, <1>17, <1>18, <1>19, <1>20, <1>21
     DEF Next, HubStep, Handle, Read, Write, Publish

\* A registration takes a free slot, an unregistration gives one back, and no
\* client forgets to unregister.
LEMMA SlotsStep ==
  ASSUME TypeOK, Tidy, SlotsAreAccounted, [Next]_vars
  PROVE  SlotsAreAccounted'
<1>1. CASE UNCHANGED vars
  BY <1>1
     DEF vars, registry, conns, stream, histories, TypeOK, Tidy, HubReady, Referenced, SlotsAreAccounted
<1>2. ASSUME NEW c \in Clients, Upgrade(c) PROVE SlotsAreAccounted'
  BY <1>2
     DEF Upgrade, registry, conns, stream, histories, TypeOK, Tidy, HubReady, Referenced, SlotsAreAccounted
<1>3. ASSUME NEW c \in Clients, Register(c) PROVE SlotsAreAccounted'
  BY <1>3
     DEF Register, registry, conns, stream, histories, TypeOK, Tidy, HubReady, Referenced, SlotsAreAccounted
<1>4. ASSUME NEW c \in Clients, StartPumps(c) PROVE SlotsAreAccounted'
  BY <1>4
     DEF StartPumps, registry, conns, stream, histories, TypeOK, Tidy, HubReady, Referenced, SlotsAreAccounted
<1>5. ASSUME NEW c \in Clients, Reject(c) PROVE SlotsAreAccounted'
  BY <1>5
     DEF Reject, registry, conns, stream, histories, TypeOK, Tidy, HubReady, Referenced, SlotsAreAccounted
<1>6. ASSUME NEW c \in Clients, HubRegister(c) PROVE SlotsAreAccounted'
  <2>1. CASE Cardinality(users[Owner[c]]) >= MaxConnectionsPerUser
    <3>1. handler' = [handler EXCEPT ![c] = "reject"] /\ users' = users
      BY <1>6, <2>1 DEF HubRegister
    <3> QED
      BY <1>6, <3>1 DEF HubRegister, registry, conns, stream, histories, TypeOK, Tidy, SlotsAreAccounted
  <2>2. CASE ~(Cardinality(users[Owner[c]]) >= MaxConnectionsPerUser)
    <3>1. /\ handler' = [handler EXCEPT ![c] = "start"]
          /\ users' = [users EXCEPT ![Owner[c]] = @ \cup {c}]
      BY <1>6, <2>2 DEF HubRegister
    <3>2. Owner[c] \in Users /\ users[Owner[c]] \in SUBSET Clients
      BY OwnerAssumption DEF TypeOK
    <3>3. /\ Cardinality(users[Owner[c]]) \in Nat
          /\ Cardinality(users[Owner[c]] \cup {c}) <= Cardinality(users[Owner[c]]) + 1
      BY <3>2, ClientsAssumption, FS_Subset, FS_AddElement, FS_CardinalityType
    <3>4. Cardinality(users[Owner[c]] \cup {c}) <= MaxConnectionsPerUser
      <4>1. Cardinality(users[Owner[c]]) + 1 <= MaxConnectionsPerUser
        BY <2>2, <3>3, CapAssumption
      <4>2. Cardinality(users[Owner[c]] \cup {c}) \in Nat
        BY <3>2, ClientsAssumption, FS_Subset, FS_AddElement, FS_CardinalityType
      <4> QED
        BY <3>3, <4>1, <4>2, CapAssumption
    <3>5. ASSUME NEW u \in Users PROVE Cardinality(users'[u]) <= MaxConnectionsPerUser
      <4>1. CASE u = Owner[c]
        BY <3>1, <3>2, <3>4, <4>1 DEF TypeOK
      <4>2. CASE u # Owner[c]
        BY <3>1, <4>2 DEF SlotsAreAccounted, TypeOK
      <4> QED
        BY <4>1, <4>2
    <3>6. ASSUME NEW u \in Users, NEW d \in users'[u]
          PROVE  /\ Owner[d] = u
                 /\ \/ handler'[d] = "start"
                    \/ reader'[d] \in {"read", "unregister"}
                    \/ d \in unregistering'
      <4>1. CASE d = c
        <5>1. handler'[d] = "start"
          BY <3>1, <4>1 DEF TypeOK
        <5>2. Owner[d] = u
          BY <3>1, <4>1 DEF SlotsAreAccounted, TypeOK
        <5> QED
          BY <5>1, <5>2
      <4>2. CASE d # c
        <5>1. d \in users[u] /\ d \in Clients
          BY <3>1, <4>2 DEF TypeOK
        <5>2. handler'[d] = handler[d]
          BY <3>1, <4>2, <5>1 DEF TypeOK
        <5> QED
          BY <1>6, <5>1, <5>2 DEF HubRegister, SlotsAreAccounted
      <4> QED
        BY <4>1, <4>2
    <3> QED
      BY <3>5, <3>6 DEF SlotsAreAccounted
  <2> QED
    BY <2>1, <2>2
<1>7. ASSUME NEW c \in Clients, HubUnregister(c) PROVE SlotsAreAccounted'
  <2>1. ASSUME NEW u \in Users PROVE Cardinality(users'[u]) <= MaxConnectionsPerUser
    <3>1. users[u] \in SUBSET Clients /\ users'[u] \in SUBSET users[u]
      BY <1>7 DEF HubUnregister, TypeOK
    <3>2. /\ Cardinality(users'[u]) <= Cardinality(users[u])
          /\ Cardinality(users'[u]) \in Nat /\ Cardinality(users[u]) \in Nat
      BY <3>1, ClientsAssumption, FS_Subset, FS_CardinalityType
    <3>3. Cardinality(users[u]) <= MaxConnectionsPerUser
      BY DEF SlotsAreAccounted
    <3> QED
      BY <3>2, <3>3, CapAssumption
  <2>2. ASSUME NEW u \in Users, NEW d \in users'[u]
        PROVE  /\ Owner[d] = u
               /\ \/ handler'[d] = "start"
                  \/ reader'[d] \in {"read", "unregister"}
                  \/ d \in unregistering'
    <3>1. d \in users[u]
      BY <1>7 DEF HubUnregister, TypeOK
    <3>2. d # c
      BY <1>7, <3>1 DEF HubUnregister, TypeOK, SlotsAreAccounted
    <3> QED
      BY <1>7, <3>1, <3>2 DEF HubUnregister, SlotsAreAccounted
  <2> QED
    BY <2>1, <2>2 DEF SlotsAreAccounted
<1>8. ASSUME NEW c \in Clients, ReadError(c) PROVE SlotsAreAccounted'
  BY <1>8
     DEF ReadError, registry, conns, stream, histories, TypeOK, Tidy, HubReady, Referenced, SlotsAreAccounted
<1>9. ASSUME NEW c \in Clients, Unregister(c) PROVE SlotsAreAccounted'
  BY <1>9
     DEF Unregister, registry, conns, stream, histories, TypeOK, Tidy, HubReady, Referenced, SlotsAreAccounted
<1>10. ASSUME NEW c \in Clients, Shutdown(c) PROVE SlotsAreAccounted'
  BY <1>10
     DEF Shutdown, registry, conns, stream, histories, TypeOK, Tidy, HubReady, Referenced, SlotsAreAccounted
<1>11. ASSUME NEW c \in Clients, CloseReader(c) PROVE SlotsAreAccounted'
  BY <1>11
     DEF CloseReader, registry, conns, stream, histories, TypeOK, Tidy, HubReady, Referenced, SlotsAreAccounted
<1>12. ASSUME NEW c \in Clients, TakeMessage(c) PROVE SlotsAreAccounted'
  BY <1>12
     DEF TakeMessage, registry, conns, stream, histories, TypeOK, Tidy, HubReady, Referenced, SlotsAreAccounted
<1>13. ASSUME NEW c \in Clients, WriteMessage(c) PROVE SlotsAreAccounted'
  BY <1>13
     DEF WriteMessage, registry, conns, stream, histories, TypeOK, Tidy, HubReady, Referenced, SlotsAreAccounted
<1>14. ASSUME NEW c \in Clients, TakeDone(c) PROVE SlotsAreAccounted'
  BY <1>14
     DEF TakeDone, registry, conns, stream, histories, TypeOK, Tidy, HubReady, Referenced, SlotsAreAccounted
<1>15. ASSUME NEW c \in Clients, PingFails(c) PROVE SlotsAreAccounted'
  BY <1>15
     DEF PingFails, registry, conns, stream, histories, TypeOK, Tidy, HubReady, Referenced, SlotsAreAccounted
<1>16. ASSUME NEW c \in Clients, CloseWriter(c) PROVE SlotsAreAccounted'
  BY <1>16
     DEF CloseWriter, registry, conns, stream, histories, TypeOK, Tidy, HubReady, Referenced, SlotsAreAccounted
<1>17. ASSUME NEW c \in Clients, PeerLeaves(c) PROVE SlotsAreAccounted'
  BY <1>17
     DEF PeerLeaves, registry, conns, stream, histories, TypeOK, Tidy, HubReady, Referenced, SlotsAreAccounted
<1>18. ASSUME NEW p \in Publishers, NEW u \in Users, Snapshot(p, u) PROVE SlotsAreAccounted'
  BY <1>18
     DEF Snapshot, registry, conns, stream, histories, TypeOK, Tidy, HubReady, Referenced, SlotsAreAccounted
<1>19. ASSUME NEW p \in Publishers, NEW c \in Clients, Offer(p, c) PROVE SlotsAreAccounted'
  BY <1>19
     DEF Offer, registry, conns, stream, histories, TypeOK, Tidy, HubReady, Referenced, SlotsAreAccounted
<1>20. ASSUME NEW p \in Publishers, Evict(p) PROVE SlotsAreAccounted'
  BY <1>20
     DEF Evict, registry, conns, stream, histories, TypeOK, Tidy, HubReady, Referenced, SlotsAreAccounted
<1>21. ASSUME NEW p \in Publishers, Return(p) PROVE SlotsAreAccounted'
  BY <1>21
     DEF Return, registry, conns, stream, histories, TypeOK, Tidy, HubReady, Referenced, SlotsAreAccounted
<1> QED
  BY <1>1, <1>2, <1>3, <1>4, <1>5, <1>6, <1>7, <1>8, <1>9, <1>10, <1>11, <1>12,
     <1>13, <1>14, <1>15, <1>16, <1>17, <1>18, <1>19, <1>20, <1>21
     DEF Next, HubStep, Handle, Read, Write, Publish

Works(c) == peer[c] /\ open[c] /\ ~done[c] /\ writer[c] # "close"

Pending(c, e) == \E p \in Publishers : pub[p].event = e /\ c \in pub[p].left

\* NoSilentLoss, part by part of the stream.
NoLoss ==
  \A c \in Clients : Works(c) =>
    \A e \in owed[c] : \/ Contains(got[c], e)
                      \/ Contains(writing[c], e)
                      \/ Contains(send[c], e)
                      \/ Pending(c, e)

\* A concatenation contains what its parts contain.
LEMMA ContainsConcat ==
  ASSUME NEW s \in Seq(Nat), NEW t \in Seq(Nat), NEW e,
         Contains(s, e) \/ Contains(t, e)
  PROVE  Contains(s \o t, e)
<1>1. /\ Len(s) \in Nat /\ DOMAIN s = 1 .. Len(s)
      /\ Len(t) \in Nat /\ DOMAIN t = 1 .. Len(t)
  BY LenProperties
<1>2. /\ s \o t \in Seq(Nat) /\ Len(s \o t) = Len(s) + Len(t)
      /\ \A i \in 1 .. Len(s) + Len(t) :
           (s \o t)[i] = IF i <= Len(s) THEN s[i] ELSE t[i - Len(s)]
  BY ConcatProperties
<1>3. DOMAIN (s \o t) = 1 .. Len(s) + Len(t)
  BY <1>2, LenProperties
<1>4. CASE Contains(s, e)
  <2>1. PICK i \in 1 .. Len(s) : s[i] = e
    BY <1>1, <1>4 DEF Contains
  <2>2. i \in 1 .. Len(s) + Len(t) /\ (s \o t)[i] = e
    BY <1>1, <1>2, <2>1
  <2> QED
    BY <1>3, <2>2 DEF Contains
<1>5. CASE Contains(t, e)
  <2>1. PICK i \in 1 .. Len(t) : t[i] = e
    BY <1>1, <1>5 DEF Contains
  <2>2. /\ Len(s) + i \in 1 .. Len(s) + Len(t)
        /\ ~(Len(s) + i <= Len(s)) /\ (Len(s) + i) - Len(s) = i
    BY <1>1, <2>1
  <2>3. (s \o t)[Len(s) + i] = e
    BY <1>2, <2>1, <2>2
  <2> QED
    BY <1>3, <2>2, <2>3 DEF Contains
<1> QED
  BY <1>4, <1>5

\* What a sequence contains is its head or in its tail.
LEMMA ContainsHeadTail ==
  ASSUME NEW s \in Seq(Nat), s # << >>, NEW e, Contains(s, e)
  PROVE  Contains(<<Head(s)>>, e) \/ Contains(Tail(s), e)
<1>1. Len(s) \in Nat /\ DOMAIN s = 1 .. Len(s)
  BY LenProperties
<1>2. /\ Tail(s) \in Seq(Nat) /\ Len(Tail(s)) = Len(s) - 1
      /\ \A i \in 1 .. Len(Tail(s)) : Tail(s)[i] = s[i + 1]
  BY HeadTailProperties
<1>3. DOMAIN Tail(s) = 1 .. Len(Tail(s))
  BY <1>2, LenProperties
<1>4. PICK i \in 1 .. Len(s) : s[i] = e
  BY <1>1 DEF Contains
<1>5. CASE i = 1
  <2>1. DOMAIN <<Head(s)>> = {1} /\ <<Head(s)>>[1] = e
    BY <1>4, <1>5
  <2> QED
    BY <2>1 DEF Contains
<1>6. CASE i # 1
  <2>1. i - 1 \in 1 .. Len(Tail(s)) /\ (i - 1) + 1 = i
    BY <1>1, <1>2, <1>6
  <2>2. Tail(s)[i - 1] = e
    BY <1>2, <1>4, <2>1
  <2> QED
    BY <1>3, <2>1, <2>2 DEF Contains
<1> QED
  BY <1>5, <1>6

\* An appended element is contained, and so is all that was there before.
LEMMA ContainsAppend ==
  ASSUME NEW s \in Seq(Nat), NEW x \in Nat, NEW e, Contains(s, e) \/ e = x
  PROVE  Contains(Append(s, x), e)
<1>1. Append(s, x) = s \o <<x>> /\ <<x>> \in Seq(Nat)
  BY AppendIsConcat
<1>2. ASSUME e = x PROVE Contains(<<x>>, e)
  <2>1. DOMAIN <<x>> = {1} /\ <<x>>[1] = x
    OBVIOUS
  <2> QED
    BY <1>2, <2>1 DEF Contains
<1> QED
  BY <1>1, <1>2, ContainsConcat

\* A step moves an owed event towards the browser, or the connection stops
\* working, or the client is told to quit.
LEMMA LossStep ==
  ASSUME TypeOK, Tidy, NoLoss, [Next]_vars
  PROVE  NoLoss'
<1>1. CASE UNCHANGED vars
  BY <1>1 DEF vars, registry, conns, stream, histories, TypeOK, Tidy, NoLoss, Works, Pending
<1>2. ASSUME NEW c \in Clients, Upgrade(c) PROVE NoLoss'
  BY <1>2 DEF Upgrade, registry, conns, stream, histories, TypeOK, Tidy, NoLoss, Works, Pending
<1>3. ASSUME NEW c \in Clients, Register(c) PROVE NoLoss'
  BY <1>3 DEF Register, registry, conns, stream, histories, TypeOK, Tidy, NoLoss, Works, Pending
<1>4. ASSUME NEW c \in Clients, StartPumps(c) PROVE NoLoss'
  <2>1. \A d \in Clients : Works(d)' => Works(d)
    BY <1>4 DEF StartPumps, TypeOK, Tidy, Works, registry, conns, stream, histories
  <2> QED
    BY <1>4, <2>1 DEF StartPumps, registry, conns, stream, histories, NoLoss, Pending
<1>5. ASSUME NEW c \in Clients, Reject(c) PROVE NoLoss'
  BY <1>5 DEF Reject, registry, conns, stream, histories, TypeOK, Tidy, NoLoss, Works, Pending
<1>6. ASSUME NEW c \in Clients, HubRegister(c) PROVE NoLoss'
  BY <1>6 DEF HubRegister, registry, conns, stream, histories, TypeOK, Tidy, NoLoss, Works, Pending
<1>7. ASSUME NEW c \in Clients, HubUnregister(c) PROVE NoLoss'
  BY <1>7
     DEF HubUnregister, registry, conns, stream, histories, TypeOK, Tidy, NoLoss, Works, Pending
<1>8. ASSUME NEW c \in Clients, ReadError(c) PROVE NoLoss'
  BY <1>8 DEF ReadError, registry, conns, stream, histories, TypeOK, Tidy, NoLoss, Works, Pending
<1>9. ASSUME NEW c \in Clients, Unregister(c) PROVE NoLoss'
  BY <1>9 DEF Unregister, registry, conns, stream, histories, TypeOK, Tidy, NoLoss, Works, Pending
<1>10. ASSUME NEW c \in Clients, Shutdown(c) PROVE NoLoss'
  BY <1>10 DEF Shutdown, registry, conns, stream, histories, TypeOK, Tidy, NoLoss, Works, Pending
<1>11. ASSUME NEW c \in Clients, CloseReader(c) PROVE NoLoss'
  BY <1>11 DEF CloseReader, registry, conns, stream, histories, TypeOK, Tidy, NoLoss, Works, Pending
<1>12. ASSUME NEW c \in Clients, TakeMessage(c) PROVE NoLoss'
  <2> SUFFICES ASSUME NEW d \in Clients, Works(d)', NEW e \in owed'[d]
               PROVE  (\/ Contains(got[d], e) \/ Contains(writing[d], e)
                       \/ Contains(send[d], e) \/ Pending(d, e))'
    BY DEF NoLoss
  <2>1. Works(d) /\ e \in owed[d]
    BY <1>12 DEF TakeMessage, TypeOK, Works, registry, conns, stream, histories
  <2>2. \/ Contains(got[d], e) \/ Contains(writing[d], e)
        \/ Contains(send[d], e) \/ Pending(d, e)
    BY <2>1 DEF NoLoss
  <2>3. got' = got /\ (Pending(d, e) => Pending(d, e)')
    BY <1>12 DEF TakeMessage, Pending, registry, conns, stream, histories
  <2>4. CASE d # c
    <3>1. writing'[d] = writing[d] /\ send'[d] = send[d]
      BY <1>12, <2>4 DEF TakeMessage, TypeOK
    <3> QED
      BY <2>2, <2>3, <3>1
  <2>5. CASE d = c
    <3>1. /\ writing'[c] = <<Head(send[c])>> /\ send'[c] = Tail(send[c])
          /\ send[c] \in Seq(Nat) /\ send[c] # << >>
      BY <1>12 DEF TakeMessage, TypeOK
    <3>2. ~Contains(writing[c], e)
      BY <1>12 DEF TakeMessage, Tidy, Contains
    <3> QED
      BY <2>2, <2>3, <2>5, <3>1, <3>2, ContainsHeadTail
  <2> QED
    BY <2>4, <2>5
<1>13. ASSUME NEW c \in Clients, WriteMessage(c) PROVE NoLoss'
  <2> SUFFICES ASSUME NEW d \in Clients, Works(d)', NEW e \in owed'[d]
               PROVE  (\/ Contains(got[d], e) \/ Contains(writing[d], e)
                       \/ Contains(send[d], e) \/ Pending(d, e))'
    BY DEF NoLoss
  <2>1. Works(d) /\ e \in owed[d]
    BY <1>13 DEF WriteMessage, TypeOK, Works, registry, conns, stream, histories
  <2>2. \/ Contains(got[d], e) \/ Contains(writing[d], e)
        \/ Contains(send[d], e) \/ Pending(d, e)
    BY <2>1 DEF NoLoss
  <2>3. send' = send /\ (Pending(d, e) => Pending(d, e)')
    BY <1>13 DEF WriteMessage, Pending, registry, conns, stream, histories
  <2>4. CASE d # c
    <3>1. writing'[d] = writing[d] /\ got'[d] = got[d]
      BY <1>13, <2>4 DEF WriteMessage, TypeOK
    <3> QED
      BY <2>2, <2>3, <3>1
  <2>5. CASE d = c
    <3>1. /\ got'[c] = got[c] \o writing[c]
          /\ got[c] \in Seq(Nat) /\ writing[c] \in Seq(Nat)
      BY <1>13, <2>1, <2>5 DEF WriteMessage, TypeOK, Works
    <3> QED
      BY <2>2, <2>3, <2>5, <3>1, ContainsConcat
  <2> QED
    BY <2>4, <2>5
<1>14. ASSUME NEW c \in Clients, TakeDone(c) PROVE NoLoss'
  BY <1>14 DEF TakeDone, registry, conns, stream, histories, TypeOK, Tidy, NoLoss, Works, Pending
<1>15. ASSUME NEW c \in Clients, PingFails(c) PROVE NoLoss'
  BY <1>15 DEF PingFails, registry, conns, stream, histories, TypeOK, Tidy, NoLoss, Works, Pending
<1>16. ASSUME NEW c \in Clients, CloseWriter(c) PROVE NoLoss'
  BY <1>16 DEF CloseWriter, registry, conns, stream, histories, TypeOK, Tidy, NoLoss, Works, Pending
<1>17. ASSUME NEW c \in Clients, PeerLeaves(c) PROVE NoLoss'
  BY <1>17 DEF PeerLeaves, registry, conns, stream, histories, TypeOK, Tidy, NoLoss, Works, Pending
<1>18. ASSUME NEW p \in Publishers, NEW u \in Users, Snapshot(p, u) PROVE NoLoss'
  <2> SUFFICES ASSUME NEW d \in Clients, Works(d)', NEW e \in owed'[d]
               PROVE  (\/ Contains(got[d], e) \/ Contains(writing[d], e)
                       \/ Contains(send[d], e) \/ Pending(d, e))'
    BY DEF NoLoss
  <2>1. Works(d) /\ got' = got /\ writing' = writing /\ send' = send
    BY <1>18 DEF Snapshot, Works, registry, conns, stream, histories
  <2>2. CASE e \in owed[d]
    <3>1. ASSUME NEW q \in Publishers, d \in pub[q].left PROVE pub'[q] = pub[q]
      BY <1>18, <3>1 DEF Snapshot, Tidy, TypeOK
    <3>2. Pending(d, e) => Pending(d, e)'
      BY <3>1 DEF Pending
    <3> QED
      BY <2>1, <2>2, <3>2 DEF NoLoss
  <2>3. CASE e \notin owed[d]
    <3>1. e = Len(log) + 1 /\ d \in users[u]
      BY <1>18, <2>3 DEF Snapshot
    <3>2. pub'[p].event = e /\ d \in pub'[p].left
      BY <1>18, <3>1 DEF Snapshot, TypeOK
    <3> QED
      BY <3>2 DEF Pending
  <2> QED
    BY <2>2, <2>3
<1>19. ASSUME NEW p \in Publishers, NEW c \in Clients, Offer(p, c) PROVE NoLoss'
  <2> SUFFICES ASSUME NEW d \in Clients, Works(d)', NEW e \in owed'[d]
               PROVE  (\/ Contains(got[d], e) \/ Contains(writing[d], e)
                       \/ Contains(send[d], e) \/ Pending(d, e))'
    BY DEF NoLoss
  <2>1. /\ Works(d) /\ e \in owed[d] /\ got' = got /\ writing' = writing
    BY <1>19 DEF Offer, TypeOK, Works, registry, conns, stream, histories
  <2>2. \/ Contains(got[d], e) \/ Contains(writing[d], e)
        \/ Contains(send[d], e) \/ Pending(d, e)
    BY <2>1 DEF NoLoss
  <2>3. CASE d # c
    <3>1. send'[d] = send[d]
      BY <1>19, <2>3 DEF Offer, TypeOK
    <3>2. Pending(d, e) => Pending(d, e)'
      BY <1>19, <2>3, OfferCall DEF Pending
    <3> QED
      BY <2>1, <2>2, <3>1, <3>2
  <2>4. CASE d = c
    <3>1. ~done'[c] /\ ~done[c]
      BY <2>1, <2>4 DEF Works
    <3>2. /\ send'[c] = Append(send[c], pub[p].event)
          /\ send[c] \in Seq(Nat) /\ pub[p].event \in Nat
      BY <1>19, <3>1 DEF Offer, TypeOK
    <3>3. ASSUME Pending(d, e), e # pub[p].event PROVE Pending(d, e)'
      BY <1>19, <3>3, OfferCall DEF Pending
    <3> QED
      BY <2>1, <2>2, <2>4, <3>2, <3>3, ContainsAppend
  <2> QED
    BY <2>3, <2>4
<1>20. ASSUME NEW p \in Publishers, Evict(p) PROVE NoLoss'
  <2>1. \A d \in Clients, e \in Nat : Pending(d, e) => Pending(d, e)'
    BY <1>20, EvictCall DEF Pending
  <2> QED
    BY <1>20, <2>1 DEF Evict, registry, conns, stream, histories, TypeOK, NoLoss, Works
<1>21. ASSUME NEW p \in Publishers, Return(p) PROVE NoLoss'
  <2>1. ASSUME NEW d \in Clients, NEW q \in Publishers, d \in pub[q].left
        PROVE  pub'[q] = pub[q]
    BY <1>21, <2>1 DEF Return, TypeOK
  <2>2. \A d \in Clients, e \in Nat : Pending(d, e) => Pending(d, e)'
    BY <2>1 DEF Pending
  <2> QED
    BY <1>21, <2>2 DEF Return, registry, conns, stream, histories, TypeOK, NoLoss, Works
<1> QED
  BY <1>1, <1>2, <1>3, <1>4, <1>5, <1>6, <1>7, <1>8, <1>9, <1>10, <1>11, <1>12,
     <1>13, <1>14, <1>15, <1>16, <1>17, <1>18, <1>19, <1>20, <1>21
     DEF Next, HubStep, Handle, Read, Write, Publish

\* The hub starts with an empty registry and nobody connected.
LEMMA InitInv ==
  Init => TypeOK /\ Tidy /\ NoDeafClient /\ SlotsAreAccounted /\ NoLoss
<1> SUFFICES ASSUME Init
            PROVE  TypeOK /\ Tidy /\ NoDeafClient /\ SlotsAreAccounted /\ NoLoss
  OBVIOUS
<1>1. /\ << >> \in Seq(Nat) /\ Len(<< >>) = 0
      /\ << >> \in Seq([by : Publishers, to : Users])
  BY EmptySeq
<1>2. TypeOK
  BY <1>1, CapAssumption DEF Init, TypeOK, Idle
<1>3. Tidy /\ NoDeafClient
  BY DEF Init, Tidy, NoDeafClient, Serving, Idle
<1>4. SlotsAreAccounted
  BY FS_EmptySet, CapAssumption DEF Init, SlotsAreAccounted
<1>5. NoLoss
  BY DEF Init, NoLoss
<1> QED
  BY <1>2, <1>3, <1>4, <1>5

Safe == TypeOK /\ Tidy /\ NoDeafClient /\ SlotsAreAccounted /\ NoLoss

\* The five facts together are an inductive invariant of the hub.
THEOREM Invariance == Spec => []Safe
<1>1. Init => Safe
  BY InitInv DEF Safe
<1>2. Safe /\ [Next]_vars => Safe'
  BY TypeStep, TidyStep, DeafStep, SlotsStep, LossStep DEF Safe
<1> QED
  BY <1>1, <1>2, PTL DEF Spec

\* Every variable keeps its type, and no send buffer holds more than its
\* capacity, whatever the interleaving of pumps, publishers and hub.
THEOREM TypeCorrect == Spec => []TypeOK
<1>1. Safe => TypeOK
  BY DEF Safe
<1> QED
  BY <1>1, Invariance, PTL

\* The limit of connections per user holds, and a slot is never leaked: each
\* registered client has a goroutine that is still to unregister it.
THEOREM SlotsAccounted == Spec => []SlotsAreAccounted
<1>1. Safe => SlotsAreAccounted
  BY DEF Safe
<1> QED
  BY <1>1, Invariance, PTL

\* No connection is left open and silent: a running client that is not in the
\* registry has been told to quit.
THEOREM NobodyIsDeaf == Spec => []NoDeafClient
<1>1. Safe => NoDeafClient
  BY DEF Safe
<1> QED
  BY <1>1, Invariance, PTL

\* No event is lost silently: as long as a connection works, every event that
\* was published while its client was registered has been delivered, is in the
\* buffer or in WritePump's hands, or is about to be offered.
THEOREM NothingIsLost == Spec => []NoSilentLoss
<1>1. Safe => NoSilentLoss
  <2> SUFFICES ASSUME TypeOK, NoLoss, NEW c \in Clients, Works(c), NEW e \in owed[c]
               PROVE  Contains(Stream(c), e) \/ Pending(c, e)
    BY DEF Safe, NoSilentLoss, Works, Pending
  <2>1. got[c] \in Seq(Nat) /\ writing[c] \in Seq(Nat) /\ send[c] \in Seq(Nat)
    BY DEF TypeOK
  <2>2. got[c] \o writing[c] \in Seq(Nat)
    BY <2>1, ConcatProperties
  <2>3. \/ Contains(got[c], e) \/ Contains(writing[c], e)
        \/ Contains(send[c], e) \/ Pending(c, e)
    BY DEF NoLoss
  <2>4. Stream(c) = (got[c] \o writing[c]) \o send[c]
    BY DEF Stream
  <2> QED
    BY <2>1, <2>2, <2>3, <2>4, ContainsConcat
<1> QED
  BY <1>1, Invariance, PTL

------------------------------------------------------------------------------
(* The order of events, with the log and the parts of a stream as           *)
(* parameters: only Snapshot changes the log.                               *)

\* Event x may be delivered before event y.
Before(lg, x, y) == x # y /\ (lg[x].by = lg[y].by => x < y)

Addressed(lg, u, s) == \A i \in DOMAIN s : s[i] \in 1 .. Len(lg) /\ lg[s[i]].to = u

InOrder(lg, s) == \A i, j \in DOMAIN s : i < j => Before(lg, s[i], s[j])

Precede(lg, s, t) == \A i \in DOMAIN s, j \in DOMAIN t : Before(lg, s[i], t[j])

\* OwnEventsInOrder, part by part of the stream: g was received, w is being
\* written, and s is in the buffer.
StreamOK(lg, u, g, w, s) ==
  /\ Addressed(lg, u, g) /\ Addressed(lg, u, w) /\ Addressed(lg, u, s)
  /\ InOrder(lg, g) /\ InOrder(lg, w) /\ InOrder(lg, s)
  /\ Precede(lg, g, w) /\ Precede(lg, g, s) /\ Precede(lg, w, s)

\* Event e of publisher p may still be added to such a stream.
MayFollow(lg, p, u, e, g, w, s) ==
  /\ e \in 1 .. Len(lg) /\ lg[e].by = p /\ lg[e].to = u
  /\ Precede(lg, g, <<e>>) /\ Precede(lg, w, <<e>>) /\ Precede(lg, s, <<e>>)

\* What is delivered is in order, and what a publisher is still to offer to a
\* client comes after all that the client was given.
Ordered ==
  /\ \A c \in Clients : StreamOK(log, Owner[c], got[c], writing[c], send[c])
  /\ \A p \in Publishers : \A c \in pub[p].left :
       MayFollow(log, p, Owner[c], pub[p].event, got[c], writing[c], send[c])

\* A concatenation consists of its parts, the first before the second.
LEMMA ElementsOfConcat ==
  ASSUME NEW s \in Seq(Nat), NEW t \in Seq(Nat)
  PROVE  /\ s \o t \in Seq(Nat)
         /\ \A i \in DOMAIN (s \o t) :
              \/ i \in DOMAIN s /\ (s \o t)[i] = s[i]
              \/ i - Len(s) \in DOMAIN t /\ ~(i \in DOMAIN s) /\ (s \o t)[i] = t[i - Len(s)]
<1>1. /\ Len(s) \in Nat /\ DOMAIN s = 1 .. Len(s)
      /\ Len(t) \in Nat /\ DOMAIN t = 1 .. Len(t)
  BY LenProperties
<1>2. /\ s \o t \in Seq(Nat) /\ Len(s \o t) = Len(s) + Len(t)
      /\ \A i \in 1 .. Len(s) + Len(t) :
           (s \o t)[i] = IF i <= Len(s) THEN s[i] ELSE t[i - Len(s)]
  BY ConcatProperties
<1>3. DOMAIN (s \o t) = 1 .. Len(s) + Len(t)
  BY <1>2, LenProperties
<1> DEFINE n == Len(s)
           m == Len(t)
<1> HIDE DEF n, m
<1>4. \A i \in 1 .. n + m : n \in Nat /\ m \in Nat =>
        (i <= n => i \in 1 .. n) /\ (~(i <= n) => i - n \in 1 .. m /\ i \notin 1 .. n)
  OBVIOUS
<1> QED
  BY <1>1, <1>2, <1>3, <1>4 DEF n, m

\* Parts in order, one before the other, are in order when joined.
LEMMA OrderOfConcat ==
  ASSUME NEW lg, NEW u, NEW s \in Seq(Nat), NEW t \in Seq(Nat)
  PROVE  /\ Addressed(lg, u, s) /\ Addressed(lg, u, t) => Addressed(lg, u, s \o t)
         /\ InOrder(lg, s) /\ InOrder(lg, t) /\ Precede(lg, s, t) => InOrder(lg, s \o t)
         /\ \A r : /\ Precede(lg, s, r) /\ Precede(lg, t, r) => Precede(lg, s \o t, r)
                   /\ Precede(lg, r, s) /\ Precede(lg, r, t) => Precede(lg, r, s \o t)
<1> DEFINE v == s \o t
           n == Len(s)
<1>1. \A i \in DOMAIN v : \/ i \in DOMAIN s /\ v[i] = s[i]
                          \/ i - n \in DOMAIN t /\ i \notin DOMAIN s /\ v[i] = t[i - n]
  BY ElementsOfConcat
<1>2. n \in Nat /\ DOMAIN s = 1 .. n
  BY LenProperties
<1>3. DOMAIN v \subseteq Nat \ {0}
  <2>1. v \in Seq(Nat)
    BY ElementsOfConcat
  <2>2. DOMAIN v = 1 .. Len(v) /\ Len(v) \in Nat
    BY <2>1, LenProperties
  <2> QED
    BY <2>2
<1> HIDE DEF v, n
<1>4. ASSUME Addressed(lg, u, s), Addressed(lg, u, t) PROVE Addressed(lg, u, v)
  BY <1>1, <1>4 DEF Addressed
<1>5. ASSUME InOrder(lg, s), InOrder(lg, t), Precede(lg, s, t) PROVE InOrder(lg, v)
  <2> SUFFICES ASSUME NEW i \in DOMAIN v, NEW j \in DOMAIN v, i < j
               PROVE  Before(lg, v[i], v[j])
    BY DEF InOrder
  <2>1. CASE i \in DOMAIN s /\ j \in DOMAIN s
    <3>1. v[i] = s[i] /\ v[j] = s[j]
      BY <1>1, <2>1
    <3> QED
      BY <1>5, <2>1, <3>1 DEF InOrder
  <2>2. CASE i \in DOMAIN s /\ j \notin DOMAIN s
    <3>1. v[i] = s[i] /\ j - n \in DOMAIN t /\ v[j] = t[j - n]
      BY <1>1, <2>2
    <3> QED
      BY <1>5, <2>2, <3>1 DEF Precede
  <2>3. CASE i \notin DOMAIN s
    <3>1. j \notin DOMAIN s
      BY <1>2, <1>3, <2>3
    <3>2. i - n \in DOMAIN t /\ v[i] = t[i - n] /\ j - n \in DOMAIN t /\ v[j] = t[j - n]
      BY <1>1, <2>3, <3>1
    <3>3. i - n < j - n
      BY <1>2, <1>3
    <3> QED
      BY <1>5, <3>2, <3>3 DEF InOrder
  <2> QED
    BY <2>1, <2>2, <2>3
<1>6. ASSUME NEW r, Precede(lg, s, r), Precede(lg, t, r) PROVE Precede(lg, v, r)
  BY <1>1, <1>6 DEF Precede
<1>7. ASSUME NEW r, Precede(lg, r, s), Precede(lg, r, t) PROVE Precede(lg, r, v)
  BY <1>1, <1>7 DEF Precede
<1> QED
  BY <1>4, <1>5, <1>6, <1>7 DEF v

\* A singleton is in order, and is before and after what its element is.
LEMMA OrderOfOne ==
  ASSUME NEW lg, NEW u, NEW e \in 1 .. Len(lg), lg[e].to = u
  PROVE  Addressed(lg, u, <<e>>) /\ InOrder(lg, <<e>>)
<1>1. DOMAIN <<e>> = {1} /\ <<e>>[1] = e
  OBVIOUS
<1>2. Addressed(lg, u, <<e>>)
  BY <1>1 DEF Addressed
<1>3. InOrder(lg, <<e>>)
  BY <1>1 DEF InOrder
<1> QED
  BY <1>2, <1>3

\* The head of the buffer goes before its tail, and nothing else changes.
LEMMA OrderOfHeadTail ==
  ASSUME NEW lg, NEW u, NEW s \in Seq(Nat), s # << >>, Addressed(lg, u, s), InOrder(lg, s)
  PROVE  /\ Addressed(lg, u, <<Head(s)>>) /\ Addressed(lg, u, Tail(s))
         /\ InOrder(lg, <<Head(s)>>) /\ InOrder(lg, Tail(s))
         /\ Precede(lg, <<Head(s)>>, Tail(s))
         /\ \A r : /\ Precede(lg, r, s) => Precede(lg, r, <<Head(s)>>) /\ Precede(lg, r, Tail(s))
                   /\ Precede(lg, s, r) => Precede(lg, <<Head(s)>>, r) /\ Precede(lg, Tail(s), r)
<1> DEFINE h == <<Head(s)>>
           t == Tail(s)
           n == Len(s)
<1>1. n \in Nat /\ DOMAIN s = 1 .. n
  BY LenProperties
<1>2. n # 0
  BY EmptySeq, LenProperties
<1>3. /\ t \in Seq(Nat) /\ Len(t) = n - 1
      /\ \A i \in 1 .. Len(t) : t[i] = s[i + 1]
  BY HeadTailProperties
<1>4. DOMAIN t = 1 .. n - 1
  BY <1>3, LenProperties
<1>5. DOMAIN h = {1} /\ h[1] = s[1] /\ 1 \in DOMAIN s
  BY <1>1, <1>2
<1>6. \A i \in DOMAIN t : i \in Nat /\ i + 1 \in DOMAIN s /\ 1 < i + 1 /\ t[i] = s[i + 1]
  BY <1>1, <1>3, <1>4
<1> HIDE DEF h, t, n
<1>7. Addressed(lg, u, h) /\ Addressed(lg, u, t)
  BY <1>5, <1>6 DEF Addressed
<1>8. InOrder(lg, h)
  BY <1>5 DEF InOrder
<1>9. InOrder(lg, t)
  <2> SUFFICES ASSUME NEW i \in DOMAIN t, NEW j \in DOMAIN t, i < j
               PROVE  Before(lg, t[i], t[j])
    BY DEF InOrder
  <2>1. i + 1 < j + 1
    BY <1>6
  <2> QED
    BY <1>6, <2>1 DEF InOrder
<1>10. Precede(lg, h, t)
  BY <1>5, <1>6 DEF InOrder, Precede
<1>11. ASSUME NEW r, Precede(lg, r, s) PROVE Precede(lg, r, h) /\ Precede(lg, r, t)
  BY <1>5, <1>6, <1>11 DEF Precede
<1>12. ASSUME NEW r, Precede(lg, s, r) PROVE Precede(lg, h, r) /\ Precede(lg, t, r)
  BY <1>5, <1>6, <1>12 DEF Precede
<1> QED
  BY <1>7, <1>8, <1>9, <1>10, <1>11, <1>12 DEF h, t

\* Nothing is in order.
LEMMA OrderOfNone ==
  ASSUME NEW lg, NEW u
  PROVE  /\ Addressed(lg, u, << >>) /\ InOrder(lg, << >>)
         /\ \A r : Precede(lg, << >>, r) /\ Precede(lg, r, << >>)
<1>1. DOMAIN << >> = {}
  OBVIOUS
<1> QED
  BY <1>1 DEF Addressed, InOrder, Precede

\* The log only grows: what it says of events that were published stays.
LEMMA OrderIsKept ==
  ASSUME NEW lg, NEW ng, 1 .. Len(lg) \subseteq 1 .. Len(ng),
         \A e \in 1 .. Len(lg) : ng[e] = lg[e],
         NEW u, NEW g, NEW w, NEW s, StreamOK(lg, u, g, w, s)
  PROVE  StreamOK(ng, u, g, w, s)
<1>1. \A x, y \in 1 .. Len(lg) : Before(lg, x, y) => Before(ng, x, y)
  BY DEF Before
<1>2. \A q \in {g, w, s} : \A i \in DOMAIN q : q[i] \in 1 .. Len(lg)
  BY DEF StreamOK, Addressed
<1>3. \A q \in {g, w, s} : Addressed(lg, u, q) => Addressed(ng, u, q)
  BY <1>2 DEF Addressed
<1>4. \A q \in {g, w, s} : InOrder(lg, q) => InOrder(ng, q)
  BY <1>1, <1>2 DEF InOrder
<1>5. \A q, r \in {g, w, s} : Precede(lg, q, r) => Precede(ng, q, r)
  BY <1>1, <1>2 DEF Precede
<1> QED
  BY <1>3, <1>4, <1>5 DEF StreamOK

\* What may follow a stream still may when more was published.
LEMMA FollowIsKept ==
  ASSUME NEW lg, NEW ng, 1 .. Len(lg) \subseteq 1 .. Len(ng),
         \A e \in 1 .. Len(lg) : ng[e] = lg[e],
         NEW p, NEW u, NEW e, NEW g, NEW w, NEW s, StreamOK(lg, u, g, w, s),
         MayFollow(lg, p, u, e, g, w, s)
  PROVE  MayFollow(ng, p, u, e, g, w, s)
<1>1. \A x, y \in 1 .. Len(lg) : Before(lg, x, y) => Before(ng, x, y)
  BY DEF Before
<1>2. \A q \in {g, w, s} : \A i \in DOMAIN q : q[i] \in 1 .. Len(lg)
  BY DEF StreamOK, Addressed
<1>3. DOMAIN <<e>> = {1} /\ <<e>>[1] = e /\ e \in 1 .. Len(lg)
  BY DEF MayFollow
<1>4. \A q \in {g, w, s} : Precede(lg, q, <<e>>) => Precede(ng, q, <<e>>)
  BY <1>1, <1>2, <1>3 DEF Precede
<1> QED
  BY <1>3, <1>4 DEF MayFollow

\* A step that leaves the streams and the log alone, and gives no publisher a
\* client, keeps the order.
LEMMA QuietStep ==
  ASSUME Ordered, UNCHANGED <<got, writing, send, log>>,
         \A p \in Publishers : \A c \in pub'[p].left :
           c \in pub[p].left /\ pub'[p].event = pub[p].event
  PROVE  Ordered'
<1>1. \A c \in Clients : StreamOK(log, Owner[c], got[c], writing[c], send[c])'
  BY DEF Ordered
<1>2. ASSUME NEW p \in Publishers, NEW c \in pub'[p].left
      PROVE  MayFollow(log, p, Owner[c], pub[p].event, got[c], writing[c], send[c])'
  <2>1. c \in pub[p].left /\ pub'[p].event = pub[p].event
    BY <1>2
  <2> QED
    BY <2>1 DEF Ordered
<1> QED
  BY <1>1, <1>2 DEF Ordered

\* No step delivers an event out of order, twice, or to somebody else.
LEMMA OrderStep ==
  ASSUME TypeOK, Tidy, SlotsAreAccounted, Ordered, [Next]_vars
  PROVE  Ordered'
<1>0. /\ \A c \in Clients : got[c] \in Seq(Nat) /\ writing[c] \in Seq(Nat) /\ send[c] \in Seq(Nat)
      /\ \A p \in Publishers : pub[p].left \subseteq Clients
  BY DEF TypeOK
<1>1. CASE UNCHANGED vars
  BY <1>1, QuietStep DEF vars, stream, histories
<1>2. ASSUME NEW c \in Clients, Upgrade(c) PROVE Ordered'
  <2>1. /\ log' = log /\ pub' = pub
        /\ got' = [got EXCEPT ![c] = << >>]
        /\ writing' = [writing EXCEPT ![c] = << >>]
        /\ send' = [send EXCEPT ![c] = << >>]
        /\ \A p \in Publishers : c \notin pub[p].left
    BY <1>2 DEF Upgrade, Referenced
  <2>2. /\ got'[c] = << >> /\ writing'[c] = << >> /\ send'[c] = << >>
        /\ \A d \in Clients \ {c} :
             got'[d] = got[d] /\ writing'[d] = writing[d] /\ send'[d] = send[d]
    BY <2>1 DEF TypeOK
  <2>3. StreamOK(log, Owner[c], << >>, << >>, << >>)
    BY OrderOfNone DEF StreamOK
  <2>4. \A d \in Clients : StreamOK(log', Owner[d], got'[d], writing'[d], send'[d])
    BY <2>1, <2>2, <2>3 DEF Ordered
  <2>5. \A p \in Publishers : \A d \in pub'[p].left :
          MayFollow(log', p, Owner[d], pub'[p].event, got'[d], writing'[d], send'[d])
    BY <1>0, <2>1, <2>2 DEF Ordered
  <2> QED
    BY <2>4, <2>5 DEF Ordered
<1>3. ASSUME NEW c \in Clients, TakeMessage(c) PROVE Ordered'
  <2> DEFINE h == <<Head(send[c])>>
             t == Tail(send[c])
  <2>1. /\ log' = log /\ pub' = pub /\ got' = got /\ send[c] # << >> /\ writing[c] = << >>
        /\ writing' = [writing EXCEPT ![c] = h] /\ send' = [send EXCEPT ![c] = t]
    BY <1>3 DEF TakeMessage, histories, Tidy
  <2>2. /\ writing'[c] = h /\ send'[c] = t
        /\ \A d \in Clients \ {c} : writing'[d] = writing[d] /\ send'[d] = send[d]
    BY <2>1 DEF TypeOK
  <2>3. /\ Addressed(log, Owner[c], h) /\ Addressed(log, Owner[c], t)
        /\ InOrder(log, h) /\ InOrder(log, t) /\ Precede(log, h, t)
        /\ \A r : /\ Precede(log, r, send[c]) => Precede(log, r, h) /\ Precede(log, r, t)
                  /\ Precede(log, send[c], r) => Precede(log, h, r) /\ Precede(log, t, r)
    BY <1>0, <2>1, OrderOfHeadTail DEF Ordered, StreamOK
  <2> HIDE DEF h, t
  <2>4. StreamOK(log, Owner[c], got[c], h, t)
    BY <2>3 DEF Ordered, StreamOK
  <2>5. \A d \in Clients : StreamOK(log', Owner[d], got'[d], writing'[d], send'[d])
    BY <2>1, <2>2, <2>4 DEF Ordered
  <2>6. ASSUME NEW p \in Publishers, NEW d \in pub[p].left
        PROVE  MayFollow(log, p, Owner[d], pub[p].event, got[d], writing'[d], send'[d])
    <3>1. d \in Clients /\ MayFollow(log, p, Owner[d], pub[p].event, got[d], writing[d], send[d])
      BY <1>0 DEF Ordered
    <3>2. CASE d = c
      BY <2>2, <2>3, <3>1, <3>2 DEF MayFollow
    <3>3. CASE d # c
      BY <2>2, <3>1, <3>3
    <3> QED
      BY <3>2, <3>3
  <2> QED
    BY <2>1, <2>5, <2>6 DEF Ordered
<1>4. ASSUME NEW c \in Clients, WriteMessage(c) PROVE Ordered'
  <2>1. /\ log' = log /\ pub' = pub /\ send' = send
        /\ writing' = [writing EXCEPT ![c] = << >>]
        /\ \/ got' = got
           \/ got' = [got EXCEPT ![c] = got[c] \o writing[c]]
    BY <1>4 DEF WriteMessage, histories, TypeOK
  <2>2. /\ writing'[c] = << >>
        /\ got'[c] = got[c] \/ got'[c] = got[c] \o writing[c]
        /\ \A d \in Clients \ {c} : writing'[d] = writing[d] /\ got'[d] = got[d]
    BY <2>1 DEF TypeOK
  <2>3. StreamOK(log, Owner[c], got[c], writing[c], send[c])
    BY DEF Ordered
  <2>4. /\ Addressed(log, Owner[c], got[c] \o writing[c])
        /\ InOrder(log, got[c] \o writing[c])
        /\ \A r : Precede(log, got[c], r) /\ Precede(log, writing[c], r)
                    => Precede(log, got[c] \o writing[c], r)
    BY <1>0, <2>3, OrderOfConcat DEF StreamOK
  <2>5. StreamOK(log, Owner[c], got'[c], << >>, send[c])
    BY <2>2, <2>3, <2>4, OrderOfNone DEF StreamOK
  <2>6. \A d \in Clients : StreamOK(log', Owner[d], got'[d], writing'[d], send'[d])
    BY <2>1, <2>2, <2>5 DEF Ordered
  <2>7. ASSUME NEW p \in Publishers, NEW d \in pub[p].left
        PROVE  MayFollow(log, p, Owner[d], pub[p].event, got'[d], writing'[d], send[d])
    <3>1. d \in Clients /\ MayFollow(log, p, Owner[d], pub[p].event, got[d], writing[d], send[d])
      BY <1>0 DEF Ordered
    <3>2. CASE d = c
      BY <2>2, <2>4, <3>1, <3>2, OrderOfNone DEF MayFollow
    <3>3. CASE d # c
      BY <2>2, <3>1, <3>3
    <3> QED
      BY <3>2, <3>3
  <2> QED
    BY <2>1, <2>6, <2>7 DEF Ordered
<1>5. ASSUME NEW p \in Publishers, NEW u \in Users, Snapshot(p, u) PROVE Ordered'
  <2> DEFINE n == Len(log)
             e == n + 1
  <2>1. /\ log \in Seq([by : Publishers, to : Users])
        /\ [by |-> p, to |-> u] \in [by : Publishers, to : Users]
    BY DEF TypeOK
  <2>2. /\ n \in Nat /\ log' = Append(log, [by |-> p, to |-> u])
        /\ got' = got /\ writing' = writing /\ send' = send
    BY <1>5, <2>1, LenProperties DEF Snapshot, stream
  <2>3. /\ Len(log') = e /\ \A i \in 1 .. n : log'[i] = log[i]
        /\ log'[e] = [by |-> p, to |-> u]
    BY <2>1, <2>2, AppendProperties
  <2>4. /\ pub'[p].event = e /\ pub'[p].left = users[u]
        /\ \A q \in Publishers \ {p} : pub'[q] = pub[q]
    BY <1>5 DEF Snapshot, TypeOK
  <2>5. 1 .. n \subseteq 1 .. e /\ e \in 1 .. e /\ \A x \in 1 .. n : x # e /\ x < e
    BY <2>2
  <2> HIDE DEF e, n
  <2>6. /\ 1 .. Len(log) \subseteq 1 .. Len(log')
        /\ \A x \in 1 .. Len(log) : log'[x] = log[x]
    BY <2>3, <2>5 DEF n
  <2>7. \A d \in Clients : StreamOK(log', Owner[d], got[d], writing[d], send[d])
    BY <2>6, OrderIsKept DEF Ordered
  <2>8. ASSUME NEW q \in Publishers \ {p}, NEW d \in pub[q].left
        PROVE  MayFollow(log', q, Owner[d], pub[q].event, got[d], writing[d], send[d])
    <3>1. d \in Clients
      BY <1>0
    <3> QED
      BY <2>6, <3>1, FollowIsKept DEF Ordered
  <2>9. ASSUME NEW d \in users[u]
        PROVE  MayFollow(log', p, Owner[d], e, got[d], writing[d], send[d])
    <3>1. d \in Clients /\ Owner[d] = u
      BY DEF TypeOK, SlotsAreAccounted
    <3>2. \A q \in {got[d], writing[d], send[d]} : \A i \in DOMAIN q : q[i] \in 1 .. n
      BY <3>1 DEF Ordered, StreamOK, Addressed, n
    <3>3. DOMAIN <<e>> = {1} /\ <<e>>[1] = e
      OBVIOUS
    <3>4. \A x \in 1 .. n : Before(log', x, e)
      BY <2>5 DEF Before
    <3>5. \A q \in {got[d], writing[d], send[d]} : Precede(log', q, <<e>>)
      BY <3>2, <3>3, <3>4 DEF Precede
    <3> QED
      BY <2>3, <2>5, <3>1, <3>5 DEF MayFollow
  <2> QED
    BY <2>2, <2>4, <2>7, <2>8, <2>9 DEF Ordered
<1>6. ASSUME NEW p \in Publishers, NEW c \in Clients, Offer(p, c) PROVE Ordered'
  <2>1. /\ log' = log /\ got' = got /\ writing' = writing
        /\ c \in pub[p].left
        /\ \/ send' = send
           \/ send' = [send EXCEPT ![c] = Append(send[c], pub[p].event)]
    BY <1>6 DEF Offer, histories, TypeOK
  <2>2. /\ pub'[p].left = pub[p].left \ {c} /\ pub'[p].event = pub[p].event
        /\ \A q \in Publishers \ {p} : pub'[q] = pub[q]
    BY <1>6, OfferCall
  <2>3. CASE send' = send
    <3>1. \A q \in Publishers : \A d \in pub'[q].left :
            d \in pub[q].left /\ pub'[q].event = pub[q].event
      BY <2>2
    <3> QED
      BY <2>1, <2>3, <3>1, QuietStep
  <2>4. CASE send' = [send EXCEPT ![c] = Append(send[c], pub[p].event)]
    <3> DEFINE e == pub[p].event
    <3>1. e \in Nat /\ send[c] \in Seq(Nat)
      BY DEF TypeOK
    <3>2. Append(send[c], e) = send[c] \o <<e>> /\ <<e>> \in Seq(Nat)
      BY <3>1, AppendIsConcat
    <3>3. /\ send'[c] = send[c] \o <<e>>
          /\ \A d \in Clients \ {c} : send'[d] = send[d]
      BY <2>4, <3>2 DEF TypeOK
    <3>4. /\ StreamOK(log, Owner[c], got[c], writing[c], send[c])
          /\ MayFollow(log, p, Owner[c], e, got[c], writing[c], send[c])
      BY <2>1 DEF Ordered
    <3> HIDE DEF e
    <3>5. Addressed(log, Owner[c], <<e>>) /\ InOrder(log, <<e>>)
      BY <3>4, OrderOfOne DEF MayFollow
    <3>6. /\ Addressed(log, Owner[c], send[c] \o <<e>>)
          /\ InOrder(log, send[c] \o <<e>>)
      BY <3>1, <3>2, <3>4, <3>5, OrderOfConcat DEF StreamOK, MayFollow
    <3>7. \A r : /\ Precede(log, r, send[c]) /\ Precede(log, r, <<e>>)
                      => Precede(log, r, send[c] \o <<e>>)
                 /\ Precede(log, send[c], r) /\ Precede(log, <<e>>, r)
                      => Precede(log, send[c] \o <<e>>, r)
      BY <3>1, <3>2, OrderOfConcat
    <3>8. StreamOK(log, Owner[c], got[c], writing[c], send[c] \o <<e>>)
      BY <3>4, <3>6, <3>7 DEF StreamOK, MayFollow
    <3>9. \A d \in Clients : StreamOK(log', Owner[d], got'[d], writing'[d], send'[d])
      BY <2>1, <3>3, <3>8 DEF Ordered
    <3>10. ASSUME NEW q \in Publishers, NEW d \in pub'[q].left
           PROVE  MayFollow(log, q, Owner[d], pub'[q].event, got[d], writing[d], send'[d])
      <4>1. /\ d \in pub[q].left /\ d \in Clients /\ pub'[q].event = pub[q].event
            /\ (q = p => d # c)
        BY <1>0, <2>2
      <4>2. MayFollow(log, q, Owner[d], pub[q].event, got[d], writing[d], send[d])
        BY <4>1 DEF Ordered
      <4>3. CASE d # c
        BY <3>3, <4>1, <4>2, <4>3
      <4>4. CASE d = c
        <5> DEFINE f == pub[q].event
        <5>1. q # p /\ log[f].by = q /\ log[e].by = p
          BY <3>4, <4>1, <4>2, <4>4 DEF MayFollow
        <5>2. Before(log, e, f)
          BY <5>1 DEF Before
        <5>3. /\ DOMAIN <<e>> = {1} /\ <<e>>[1] = e
              /\ DOMAIN <<f>> = {1} /\ <<f>>[1] = f
          OBVIOUS
        <5> HIDE DEF f
        <5>4. Precede(log, <<e>>, <<f>>)
          BY <5>2, <5>3 DEF Precede
        <5>5. MayFollow(log, q, Owner[c], f, got[c], writing[c], send[c] \o <<e>>)
          BY <3>7, <4>2, <4>4, <5>4 DEF MayFollow, f
        <5> QED
          BY <3>3, <4>1, <4>4, <5>5 DEF f
      <4> QED
        BY <4>3, <4>4
    <3> QED
      BY <2>1, <3>9, <3>10 DEF Ordered
  <2> QED
    BY <2>1, <2>3, <2>4
<1>7. ASSUME NEW p \in Publishers, Evict(p) PROVE Ordered'
  <2>1. UNCHANGED <<got, writing, send, log>>
    BY <1>7 DEF Evict, stream, histories
  <2> QED
    BY <1>7, <2>1, EvictCall, QuietStep
<1>8. ASSUME NEW p \in Publishers, Return(p) PROVE Ordered'
  <2>1. UNCHANGED <<got, writing, send, log>>
    BY <1>8 DEF Return, stream, histories
  <2>2. pub'[p].left = {} /\ \A q \in Publishers \ {p} : pub'[q] = pub[q]
    BY <1>8 DEF Return, TypeOK, Idle
  <2> QED
    BY <2>1, <2>2, QuietStep
<1>9. ASSUME NEW c \in Clients,
             \/ HubRegister(c) \/ HubUnregister(c)
             \/ Register(c) \/ StartPumps(c) \/ Reject(c)
             \/ ReadError(c) \/ Shutdown(c) \/ CloseReader(c) \/ Unregister(c)
             \/ TakeDone(c) \/ CloseWriter(c) \/ PingFails(c) \/ PeerLeaves(c)
      PROVE  Ordered'
  <2>1. UNCHANGED <<got, writing, send, log>> /\ pub' = pub
    BY <1>9 DEF HubRegister, HubUnregister, Register, StartPumps, Reject, ReadError, Shutdown,
                CloseReader, Unregister, TakeDone, CloseWriter, PingFails, PeerLeaves,
                stream, histories
  <2> QED
    BY <2>1, QuietStep
<1> QED
  BY <1>1, <1>2, <1>3, <1>4, <1>5, <1>6, <1>7, <1>8, <1>9
     DEF Next, HubStep, Handle, Read, Write, Publish

\* A browser receives only events for its user, none twice, and those of one
\* HTTP call in the order of the calls of PublishToUser, whatever the
\* interleaving of publishers and pumps and whatever is lost to a broken
\* connection.
THEOREM InOrderOnly == Spec => []OwnEventsInOrder
<1>1. Init => Ordered
  <2> SUFFICES ASSUME Init PROVE Ordered
    OBVIOUS
  <2>1. /\ \A c \in Clients : got[c] = << >> /\ writing[c] = << >> /\ send[c] = << >>
        /\ \A p \in Publishers : pub[p].left = {}
    BY DEF Init, Idle
  <2>2. \A c \in Clients : StreamOK(log, Owner[c], << >>, << >>, << >>)
    BY OrderOfNone DEF StreamOK
  <2> QED
    BY <2>1, <2>2 DEF Ordered
<1>2. Safe /\ Ordered /\ [Next]_vars => Ordered'
  BY OrderStep DEF Safe
<1>3. Safe /\ Ordered => OwnEventsInOrder
  <2> SUFFICES ASSUME TypeOK, Ordered, NEW c \in Clients
               PROVE  LET s == Stream(c) IN
                      /\ \A i \in DOMAIN s : s[i] \in Events /\ log[s[i]].to = Owner[c]
                      /\ \A i, j \in DOMAIN s :
                           i < j => s[i] # s[j] /\ (log[s[i]].by = log[s[j]].by => s[i] < s[j])
    BY DEF Safe, OwnEventsInOrder
  <2>1. /\ got[c] \in Seq(Nat) /\ writing[c] \in Seq(Nat) /\ send[c] \in Seq(Nat)
        /\ StreamOK(log, Owner[c], got[c], writing[c], send[c])
    BY DEF TypeOK, Ordered
  <2> DEFINE v == got[c] \o writing[c]
  <2>2. v \in Seq(Nat)
    BY <2>1, ConcatProperties
  <2>3. /\ Addressed(log, Owner[c], v) /\ InOrder(log, v) /\ Precede(log, v, send[c])
    BY <2>1, OrderOfConcat DEF StreamOK
  <2>4. Stream(c) = v \o send[c]
    BY DEF Stream
  <2> HIDE DEF v
  <2>5. Addressed(log, Owner[c], v \o send[c]) /\ InOrder(log, v \o send[c])
    BY <2>1, <2>2, <2>3, OrderOfConcat DEF StreamOK
  <2> QED
    BY <2>4, <2>5 DEF Addressed, InOrder, Before, Events
<1> QED
  BY <1>1, <1>2, <1>3, Invariance, PTL DEF Spec
==============================================================================
