------------------------------ MODULE Migrations ------------------------------
(***************************************************************************)
(* Store.RunMigrations (internal/db/db.go), which every backend replica    *)
(* runs before it serves.  Replicas start, crash and are replaced while    *)
(* others migrate; during a roll-out their images hold different numbers   *)
(* of migration files.  Files are numbered in the order of their names.    *)
(*                                                                         *)
(* PostgreSQL (external): the script of a file and the row that records it *)
(* are one transaction; an INSERT of a key that an open transaction has    *)
(* inserted waits for that transaction to end, and fails if it committed.  *)
(* A statement may fail, and the answer to COMMIT may be lost.             *)
(***************************************************************************)
EXTENDS Naturals, FiniteSets

CONSTANTS Replicas,
          Newest,      \* the number of files in the newest image
          Files(_),    \* Files(r): the number of files in the image of r
          MaxFailures  \* bound: how often something outside the code fails

ASSUME FilesAssumption ==
  /\ Newest \in Nat \ {0} /\ MaxFailures \in Nat
  /\ \A r \in Replicas : Files(r) \in 1..Newest

VARIABLES
  pc,        \* pc[r]: where replica r is; "down" and "up" are before and after
  at,        \* at[r]: the file that the loop of r has come to
  recorded,  \* table schema_migrations: the files that were applied
  runs,      \* runs[f]: how often the script of f was committed
  failures

vars == <<pc, at, recorded, runs, failures>>

AllFiles == 1..Newest

Goto(r, label) == pc' = [pc EXCEPT ![r] = label]

\* The loop goes on to the next file, or RunMigrations returns.
NextFile(r) ==
  /\ at' = [at EXCEPT ![r] = @ + 1]
  /\ Goto(r, IF at[r] < Files(r) THEN "check" ELSE "up")

\* Replicas whose open transaction has run the script of file f.
Applying(f) == {r \in Replicas : pc[r] \in {"record", "commit"} /\ at[r] = f}

\* Replicas whose open transaction has inserted the row of file f.
Holding(f) == {r \in Replicas : pc[r] = "commit" /\ at[r] = f}

------------------------------------------------------------------------------
\* The process starts; CREATE TABLE IF NOT EXISTS schema_migrations, and the
\* names of the files are read and sorted.
Start(r) ==
  /\ pc[r] = "down"
  /\ at' = [at EXCEPT ![r] = 1]
  /\ Goto(r, "check")
  /\ UNCHANGED <<recorded, runs, failures>>

\* Is the file in schema_migrations?
Check(r) ==
  /\ pc[r] = "check"
  /\ IF at[r] \in recorded
     THEN NextFile(r)
     ELSE Goto(r, "apply") /\ UNCHANGED at
  /\ UNCHANGED <<recorded, runs, failures>>

\* Mutant: a script that fails is skipped.
ApplyOrSkip(r) ==
  /\ pc[r] = "apply"
  /\ \/ Goto(r, "record") /\ UNCHANGED <<at, failures>>
     \/ failures < MaxFailures /\ failures' = failures + 1 /\ NextFile(r)
  /\ UNCHANGED <<recorded, runs>>

\* BeginTx and the script.  It takes effect with the transaction.  Two scripts
\* that create the same table at the same time may collide.
Apply(r) ==
  /\ pc[r] = "apply"
  /\ \/ Goto(r, "record")
     \/ Applying(at[r]) # {} /\ Goto(r, "down")
  /\ UNCHANGED <<at, recorded, runs, failures>>

\* Mutant: ON CONFLICT DO NOTHING; the row may be there already.
RecordAnyway(r) ==
  /\ pc[r] = "record"
  /\ Holding(at[r]) = {}
  /\ Goto(r, "commit")
  /\ UNCHANGED <<at, recorded, runs, failures>>

\* Mutant: a conflict is tried again instead of given up.
RecordOrRetry(r) ==
  /\ pc[r] = "record"
  /\ Holding(at[r]) = {}
  /\ IF at[r] \in recorded THEN Goto(r, "record") ELSE Goto(r, "commit")
  /\ UNCHANGED <<at, recorded, runs, failures>>

\* Mutant: after a conflict the replica serves.
RecordAndServe(r) ==
  /\ pc[r] = "record"
  /\ Holding(at[r]) = {}
  /\ IF at[r] \in recorded THEN Goto(r, "up") ELSE Goto(r, "commit")
  /\ UNCHANGED <<at, recorded, runs, failures>>

\* INSERT INTO schema_migrations.  The loser of a race rolls back and main
\* exits; it finds the file applied when it is started again.
Record(r) ==
  /\ pc[r] = "record"
  /\ Holding(at[r]) = {}
  /\ IF at[r] \in recorded THEN Goto(r, "down") ELSE Goto(r, "commit")
  /\ UNCHANGED <<at, recorded, runs, failures>>

Committed(r) == /\ recorded' = recorded \cup {at[r]}
                /\ runs' = [runs EXCEPT ![at[r]] = @ + 1]

Commit(r) ==
  /\ pc[r] = "commit"
  /\ Committed(r)
  /\ NextFile(r)
  /\ UNCHANGED failures

\* A statement fails or the process dies: an open transaction is rolled back.
\* RunMigrations returns the error and main exits.
Fail(r) ==
  /\ pc[r] # "down"
  /\ failures < MaxFailures
  /\ failures' = failures + 1
  /\ Goto(r, "down")
  /\ UNCHANGED <<at, recorded, runs>>

\* COMMIT takes effect and its answer is lost.
LoseAnswer(r) ==
  /\ pc[r] = "commit"
  /\ failures < MaxFailures
  /\ failures' = failures + 1
  /\ Committed(r)
  /\ Goto(r, "down")
  /\ UNCHANGED at

------------------------------------------------------------------------------
Init ==
  /\ pc = [r \in Replicas |-> "down"]
  /\ at = [r \in Replicas |-> 1]
  /\ recorded = {}
  /\ runs = [f \in AllFiles |-> 0]
  /\ failures = 0

Run(r) == Start(r) \/ Check(r) \/ Apply(r) \/ Record(r) \/ Commit(r)

Next == \E r \in Replicas : Run(r) \/ Fail(r) \/ LoseAnswer(r)

Spec == Init /\ [][Next]_vars

\* Kubernetes starts a replica again for as long as it exits, and PostgreSQL
\* answers.  Failures from outside come to an end.
FairSpec == Spec /\ \A r \in Replicas : WF_vars(Run(r))
------------------------------------------------------------------------------
TypeOK ==
  /\ pc \in [Replicas -> {"down", "check", "apply", "record", "commit", "up"}]
  /\ at \in [Replicas -> 1..(Newest + 1)]
  /\ recorded \subseteq AllFiles
  /\ runs \in [AllFiles -> Nat]
  /\ failures \in 0..MaxFailures
  /\ \A r \in Replicas : pc[r] \in {"check", "apply", "record", "commit"} => at[r] <= Files(r)

\* However many replicas migrate at once, a script is committed once, and then
\* and only then it is recorded.
AppliedOnce == \A f \in AllFiles : runs[f] = IF f \in recorded THEN 1 ELSE 0

\* Scripts build on each other: none is applied before those that precede it.
AppliedInOrder == \A f \in recorded : 1..f \subseteq recorded

\* A replica serves only when the whole schema its code expects is there.
ServesMigrated == \A r \in Replicas : pc[r] = "up" => 1..Files(r) \subseteq recorded

\* Replicas that race do not keep each other from coming up.
AllComeUp == \A r \in Replicas : <>[](pc[r] = "up")
==============================================================================
