------------------------------- MODULE Server --------------------------------
(***************************************************************************)
(* The server process (cmd/api/main.go) and its pool of database           *)
(* connections (internal/db/db.go, over database/sql).                     *)
(*                                                                         *)
(* A member of Calls is a goroutine that serves HTTP calls one after       *)
(* another.  A query or a transaction keeps a connection until its rows    *)
(* are closed or it ends, and waits while DBMaxOpenConns of them are       *)
(* taken.  Most calls have one at a time.  FindMatches and ListTrades      *)
(* (trade_service.go) do not: they run queries for each row while the rows *)
(* of an outer query are open, and those need a second connection.         *)
(*                                                                         *)
(* Which call gets a connection that comes back is decided by database/sql *)
(* at random.  What the statements say is left out here.                   *)
(***************************************************************************)
EXTENDS Naturals, FiniteSets

CONSTANTS Calls,
          Nesting,     \* the calls that serve FindMatches and ListTrades
          MaxOpen,     \* cfg.DBMaxOpenConns
          MaxQueries   \* bound: the queries of a call after its first

ASSUME CallsAssumption == IsFiniteSet(Calls) /\ Nesting \subseteq Calls
ASSUME PoolAssumption == MaxOpen \in Nat \ {0} /\ MaxQueries \in Nat

VARIABLES
  phase,        \* of the process
  pc,           \* pc[c]: what c waits for or does
  left,         \* left[c]: the queries that c still has to run
  outer, inner  \* the calls that have a first, and a second, connection

vars == <<phase, pc, left, outer, inner>>

Goto(c, label) == pc' = [pc EXCEPT ![c] = label]

\* Fewer than MaxOpen connections are taken.
Free == Cardinality(outer) + Cardinality(inner) < MaxOpen

AllIdle == \A c \in Calls : pc[c] = "idle"

------------------------------------------------------------------------------
(* Calls                                                                    *)

\* Mutant: calls are accepted during the shutdown.
AcceptAlways(c, n) ==
  /\ phase \in {"serving", "draining"} /\ pc[c] = "idle"
  /\ Goto(c, "ask")
  /\ left' = [left EXCEPT ![c] = n]
  /\ UNCHANGED <<phase, outer, inner>>

\* A call with n queries (or transactions) after the first one.
Accept(c, n) ==
  /\ phase = "serving" /\ pc[c] = "idle"
  /\ Goto(c, "ask")
  /\ left' = [left EXCEPT ![c] = n]
  /\ UNCHANGED <<phase, outer, inner>>

\* The call gets a connection.
Connection(c) ==
  /\ pc[c] = "ask" /\ Free
  /\ outer' = outer \cup {c}
  /\ Goto(c, "busy")
  /\ UNCHANGED <<phase, left, inner>>

\* Mutant: the next query is run before the transaction ends.
QueryWithin(c) ==
  /\ pc[c] = "busy" /\ c \notin Nesting /\ left[c] > 0
  /\ left' = [left EXCEPT ![c] = @ - 1]
  /\ Goto(c, "askInner")
  /\ UNCHANGED <<phase, outer, inner>>

\* The rows are closed, or the transaction ends, before the next query.
Query(c) ==
  /\ pc[c] = "busy" /\ c \notin Nesting /\ left[c] > 0
  /\ left' = [left EXCEPT ![c] = @ - 1]
  /\ outer' = outer \ {c}
  /\ Goto(c, "ask")
  /\ UNCHANGED <<phase, inner>>

\* rows.Next: a query for this row, while the rows stay open.
NextRow(c) ==
  /\ pc[c] = "busy" /\ c \in Nesting /\ left[c] > 0
  /\ left' = [left EXCEPT ![c] = @ - 1]
  /\ Goto(c, "askInner")
  /\ UNCHANGED <<phase, outer, inner>>

\* queryMatchSide and listTradeItems get a connection of their own.
InnerConnection(c) ==
  /\ pc[c] = "askInner" /\ Free
  /\ inner' = inner \cup {c}
  /\ Goto(c, "inner")
  /\ UNCHANGED <<phase, left, outer>>

\* Mutant: the inner rows are not closed.
InnerLeaks(c) ==
  /\ pc[c] = "inner"
  /\ Goto(c, "busy")
  /\ UNCHANGED <<phase, left, outer, inner>>

InnerDone(c) ==
  /\ pc[c] = "inner"
  /\ inner' = inner \ {c}
  /\ Goto(c, "busy")
  /\ UNCHANGED <<phase, left, outer>>

\* The call is answered.
Answer(c) ==
  /\ pc[c] = "busy" /\ left[c] = 0
  /\ outer' = outer \ {c}
  /\ Goto(c, "idle")
  /\ UNCHANGED <<phase, left, inner>>

\* A statement fails, or the client hangs up, which cancels the call's
\* statements and its waiting: whatever the call has is closed.
GiveUp(c) ==
  /\ pc[c] # "idle"
  /\ outer' = outer \ {c} /\ inner' = inner \ {c}
  /\ Goto(c, "idle")
  /\ UNCHANGED <<phase, left>>

------------------------------------------------------------------------------
(* The process                                                              *)

\* Connect and RunMigrations; the process exits when they fail.
StartUp ==
  /\ phase = "starting"
  /\ phase' \in {"serving", "stopped"}
  /\ UNCHANGED <<pc, left, outer, inner>>

\* SIGINT or SIGTERM: Shutdown closes the listener and idle connections.
Signal ==
  /\ phase = "serving"
  /\ phase' = "draining"
  /\ UNCHANGED <<pc, left, outer, inner>>

\* Shutdown returns when no call is in flight; then the pool is closed.
ShutdownReturns ==
  /\ phase = "draining" /\ AllIdle
  /\ phase' = "stopped"
  /\ UNCHANGED <<pc, left, outer, inner>>

\* ShutdownTimeout has passed, or ListenAndServe has failed: the process exits
\* in the middle of its calls.
Exit ==
  /\ phase \in {"serving", "draining"}
  /\ phase' = "stopped"
  /\ pc' = [c \in Calls |-> "idle"]
  /\ outer' = {} /\ inner' = {}
  /\ UNCHANGED left

------------------------------------------------------------------------------
Init ==
  /\ phase = "starting"
  /\ pc = [c \in Calls |-> "idle"]
  /\ left = [c \in Calls |-> 0]
  /\ outer = {} /\ inner = {}

\* What a call does once it has started and goes well.
Proceed(c) ==
  \/ Connection(c) \/ Query(c) \/ NextRow(c) \/ InnerConnection(c) \/ InnerDone(c)
  \/ Answer(c)

Next ==
  \/ \E c \in Calls : Proceed(c) \/ GiveUp(c) \/ \E n \in 0 .. MaxQueries : Accept(c, n)
  \/ StartUp \/ Signal \/ ShutdownReturns \/ Exit

Spec == Init /\ [][Next]_vars

\* Statements end.  Connections are given out at random, so no call that asks
\* is passed over for ever.  Nobody has to hang up, and no time has to run out.
Fairness ==
  /\ \A c \in Calls : SF_vars(Connection(c) \/ InnerConnection(c))
  /\ \A c \in Calls : WF_vars(Query(c) \/ NextRow(c) \/ InnerDone(c) \/ Answer(c))
  /\ WF_vars(ShutdownReturns)

FairSpec == Spec /\ Fairness
------------------------------------------------------------------------------
TypeOK ==
  /\ phase \in {"starting", "serving", "draining", "stopped"}
  /\ pc \in [Calls -> {"idle", "ask", "busy", "askInner", "inner"}]
  /\ left \in [Calls -> 0 .. MaxQueries]
  /\ outer = {c \in Calls : pc[c] \in {"busy", "askInner", "inner"}}
  /\ inner = {c \in Calls : pc[c] = "inner"}

\* Every connection is held by a call that waits for one more: nothing goes on
\* until somebody hangs up or the process exits.  The code allows it: nothing
\* limits how many calls run FindMatches and ListTrades at a time.
Standstill == ~Free /\ inner = {} /\ \A c \in outer : pc[c] = "askInner"

\* Nothing but nesting brings the pool to a standstill: then FindMatches and
\* ListTrades have all its connections, one each and MaxOpen calls of them, whatever
\* else was under way, failed or was given up before.
OnlyNestingStalls == Standstill => outer \subseteq Nesting /\ Cardinality(outer) = MaxOpen

\* Every call returns although nobody hangs up, unless the pool has come to a
\* standstill: no other way of waiting for a connection lasts.
CallsReturn == \A c \in Calls : pc[c] # "idle" ~> pc[c] = "idle" \/ Standstill

\* A shutdown ends without its timeout, after the calls in flight, unless they
\* have come to a standstill: then only the timeout ends it.
ShutdownEnds == phase = "draining" ~> phase = "stopped" \/ Standstill
==============================================================================
