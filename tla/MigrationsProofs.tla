--------------------------- MODULE MigrationsProofs ---------------------------
(***************************************************************************)
(* The safety of RunMigrations for any number of replicas, of files and of *)
(* failures.                                                               *)
(*                                                                         *)
(* Two facts make the properties inductive: a loop has only passed files   *)
(* that are recorded, and a transaction that has inserted its row is the   *)
(* only one that has, and its file is not recorded yet.                    *)
(***************************************************************************)
EXTENDS Migrations, TLAPS

LoopsPassRecorded ==
  \A r \in Replicas : pc[r] # "down" => \A f \in 1..(at[r] - 1) : f \in recorded

LoopsEnd == \A r \in Replicas : pc[r] = "up" => at[r] = Files(r) + 1

Conflicts ==
  \A r \in Replicas : pc[r] = "commit" =>
    /\ at[r] \notin recorded
    /\ \A q \in Replicas : pc[q] = "commit" /\ at[q] = at[r] => q = r

InOrder == \A f \in recorded : \A g \in 1..f : g \in recorded

IInv ==
  /\ TypeOK
  /\ LoopsPassRecorded
  /\ LoopsEnd
  /\ Conflicts
  /\ AppliedOnce
  /\ InOrder

------------------------------------------------------------------------------
\* Initially no file is recorded and no loop runs.
LEMMA InitInv == Init => IInv
  BY FilesAssumption DEF Init, IInv, TypeOK, LoopsPassRecorded, LoopsEnd, Conflicts,
     AppliedOnce, InOrder, AllFiles

\* Going on to the next file, once the present one is recorded.
LEMMA NextFileInv ==
  ASSUME IInv, NEW r \in Replicas, NextFile(r), pc[r] \in {"check", "commit"},
         UNCHANGED failures,
         \/ at[r] \in recorded /\ UNCHANGED <<recorded, runs>>
         \/ pc[r] = "commit" /\ Committed(r)
  PROVE  IInv'
<1>1. /\ at[r] \in 1..Files(r) /\ Files(r) \in 1..Newest
      /\ at' = [at EXCEPT ![r] = at[r] + 1]
      /\ pc' = [pc EXCEPT ![r] = IF at[r] < Files(r) THEN "check" ELSE "up"]
  BY FilesAssumption DEF IInv, TypeOK, NextFile, Goto
<1>2. recorded' = recorded \cup {at[r]}
  BY DEF Committed
<1>a. recorded \subseteq AllFiles /\ runs \in [AllFiles -> Nat] /\ at[r] \in AllFiles
  BY <1>1, FilesAssumption DEF IInv, TypeOK, AllFiles
<1>b. recorded' \subseteq AllFiles /\ runs' \in [AllFiles -> Nat]
  BY <1>2, <1>a DEF Committed
<1>3. TypeOK'
  BY <1>1, <1>b, FilesAssumption DEF IInv, TypeOK
<1>4. LoopsPassRecorded'
  BY <1>1, <1>2 DEF IInv, TypeOK, LoopsPassRecorded
<1>5. LoopsEnd'
  BY <1>1 DEF IInv, TypeOK, LoopsEnd
<1>6. Conflicts'
  BY <1>1, <1>2 DEF IInv, TypeOK, Conflicts, Committed
<1>7. AppliedOnce'
  <2>1. CASE at[r] \in recorded /\ UNCHANGED <<recorded, runs>>
    BY <2>1 DEF IInv, AppliedOnce
  <2>2. CASE pc[r] = "commit" /\ Committed(r)
    <3>1. at[r] \notin recorded
      BY <2>2 DEF IInv, Conflicts
    <3>2. runs[at[r]] = 0 /\ runs' = [runs EXCEPT ![at[r]] = runs[at[r]] + 1]
      BY <1>a, <2>2, <3>1 DEF IInv, AppliedOnce, Committed
    <3> QED
      BY <1>2, <1>a, <3>1, <3>2 DEF IInv, AppliedOnce
  <2> QED
    BY <2>1, <2>2
<1>8. InOrder'
  BY <1>1, <1>2 DEF IInv, TypeOK, InOrder, LoopsPassRecorded
<1> QED
  BY <1>3, <1>4, <1>5, <1>6, <1>7, <1>8 DEF IInv

\* The other steps record nothing.
LEMMA KeepInv ==
  ASSUME IInv, NEW r \in Replicas, UNCHANGED <<recorded, runs>>,
         failures' \in 0..MaxFailures,
         \E label \in {"down", "check", "apply", "record", "commit"} :
           /\ Goto(r, label)
           /\ \/ at' = at /\ (label = "down" \/ pc[r] \in {"check", "apply", "record"})
              \/ label = "check" /\ at' = [at EXCEPT ![r] = 1]
           /\ label = "commit" => Holding(at[r]) = {} /\ at[r] \notin recorded
  PROVE  IInv'
<1>1. PICK label \in {"down", "check", "apply", "record", "commit"} :
        /\ pc' = [pc EXCEPT ![r] = label]
        /\ \/ at' = at /\ (label = "down" \/ pc[r] \in {"check", "apply", "record"})
           \/ label = "check" /\ at' = [at EXCEPT ![r] = 1]
        /\ label = "commit" => Holding(at[r]) = {} /\ at[r] \notin recorded
  BY DEF Goto
<1>2. TypeOK'
  BY <1>1, FilesAssumption DEF IInv, TypeOK
<1>3. LoopsPassRecorded'
  BY <1>1 DEF IInv, TypeOK, LoopsPassRecorded
<1>4. LoopsEnd'
  BY <1>1 DEF IInv, TypeOK, LoopsEnd
<1>5. Conflicts'
  BY <1>1 DEF IInv, TypeOK, Conflicts, Holding
<1>6. AppliedOnce' /\ InOrder'
  BY DEF IInv, AppliedOnce, InOrder
<1> QED
  BY <1>2, <1>3, <1>4, <1>5, <1>6 DEF IInv

\* Every step of every replica preserves the invariant.
LEMMA StepInv == IInv /\ [Next]_vars => IInv'
<1> SUFFICES ASSUME IInv, [Next]_vars PROVE IInv'
  OBVIOUS
<1>1. CASE UNCHANGED vars
  BY <1>1 DEF IInv, TypeOK, LoopsPassRecorded, LoopsEnd, Conflicts, AppliedOnce, InOrder, vars
<1>2. CASE Next
  <2>1. PICK r \in Replicas : Run(r) \/ Fail(r) \/ LoseAnswer(r)
    BY <1>2 DEF Next
  <2>0. failures \in 0..MaxFailures /\ MaxFailures \in Nat
    BY FilesAssumption DEF IInv, TypeOK
  <2>2. CASE Start(r)
    BY <2>0, <2>2, KeepInv DEF Start
  <2>3. CASE Check(r)
    <3>1. CASE at[r] \in recorded
      BY <2>3, <3>1, NextFileInv DEF Check
    <3>2. CASE at[r] \notin recorded
      BY <2>0, <2>3, <3>2, KeepInv DEF Check
    <3> QED BY <3>1, <3>2
  <2>4. CASE Apply(r)
    BY <2>0, <2>4, KeepInv DEF Apply
  <2>5. CASE Record(r)
    BY <2>0, <2>5, KeepInv DEF Record
  <2>6. CASE Commit(r)
    BY <2>6, NextFileInv DEF Commit
  <2>7. CASE Fail(r)
    BY <2>0, <2>7, KeepInv DEF Fail
  <2>8. CASE LoseAnswer(r)
    <3>1. /\ at[r] \in 1..Files(r) /\ Files(r) \in 1..Newest
          /\ at' = at
          /\ pc' = [pc EXCEPT ![r] = "down"]
          /\ recorded' = recorded \cup {at[r]}
          /\ runs' = [runs EXCEPT ![at[r]] = @ + 1]
          /\ failures' \in 0..MaxFailures
      BY <2>8, <2>0, FilesAssumption DEF LoseAnswer, IInv, TypeOK, Goto, Committed
    <3>2. at[r] \notin recorded
      BY <2>8 DEF LoseAnswer, IInv, Conflicts
    <3>a. recorded \subseteq AllFiles /\ runs \in [AllFiles -> Nat] /\ at[r] \in AllFiles
      BY <3>1, FilesAssumption DEF IInv, TypeOK, AllFiles
    <3>b. recorded' \subseteq AllFiles /\ runs' \in [AllFiles -> Nat]
      BY <3>1, <3>a
    <3>3. TypeOK'
      BY <3>1, <3>b, FilesAssumption DEF IInv, TypeOK
    <3>4. LoopsPassRecorded' /\ LoopsEnd'
      BY <3>1 DEF IInv, TypeOK, LoopsPassRecorded, LoopsEnd
    <3>5. Conflicts'
      BY <2>8, <3>1 DEF LoseAnswer, IInv, TypeOK, Conflicts
    <3>6. AppliedOnce'
      BY <3>1, <3>2 DEF IInv, TypeOK, AppliedOnce, AllFiles
    <3>7. InOrder'
      BY <2>8, <3>1 DEF LoseAnswer, IInv, TypeOK, InOrder, LoopsPassRecorded
    <3> QED
      BY <3>3, <3>4, <3>5, <3>6, <3>7 DEF IInv
  <2> QED
    BY <2>1, <2>2, <2>3, <2>4, <2>5, <2>6, <2>7, <2>8 DEF Run
<1> QED
  BY <1>1, <1>2

\* The invariant holds of every reachable state.
LEMMA Invariance == Spec => []IInv
  BY InitInv, StepInv, PTL DEF Spec

\* The tables and program counters keep their types; a loop that is still
\* running has not passed the last file of its image.
THEOREM TypeCorrect == Spec => []TypeOK
<1>1. IInv => TypeOK
  BY DEF IInv
<1> QED
  BY <1>1, Invariance, PTL

\* Each script is committed once, and recorded exactly then, however many
\* replicas run RunMigrations at the same time and wherever they crash.
THEOREM ScriptsRunOnce == Spec => []AppliedOnce
<1>1. IInv => AppliedOnce
  BY DEF IInv
<1> QED
  BY <1>1, Invariance, PTL

\* No script is applied before the scripts that precede it by name.
THEOREM ScriptsInOrder == Spec => []AppliedInOrder
<1>1. IInv => AppliedInOrder
  BY DEF IInv, InOrder, AppliedInOrder
<1> QED
  BY <1>1, Invariance, PTL

\* A replica that serves finds every file of its own image applied.
THEOREM ServersAreMigrated == Spec => []ServesMigrated
<1>1. IInv => ServesMigrated
  BY FilesAssumption DEF IInv, TypeOK, LoopsEnd, LoopsPassRecorded, ServesMigrated
<1> QED
  BY <1>1, Invariance, PTL
==============================================================================
