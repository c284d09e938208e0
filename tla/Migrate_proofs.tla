--------------------------- MODULE Migrate_proofs ---------------------------
(***************************************************************************)
(* Proofs about Migrate for any number of processes and files, any         *)
(* references between them and any contents.  The inductive invariant is   *)
(* IInv.                                                                   *)
(***************************************************************************)
EXTENDS Migrate, TLAPS

(* A script is looked at under the lock. *)
HoldsLock ==
  \A p \in Procs : At(p, "locked") \/ At(p, "running") => lock = p

(* A run begins with the drop scripts if it has --drop, else with the first *)
(* up script.                                                               *)
BeginsAtStart ==
  \A p \in Procs : At(p, "setup") => run[p].pos = IF run[p].drop THEN 1 ELSE N + 1

(* The files named 0000-00... are never recorded. *)
AlwaysUnrecorded ==
  \A s \in Scripts : s.file \in Always => recorded[s] = Nil

(* A file is recorded before a --drop run has come to its drop script only   *)
(* since that run has emptied app_migration.                                 *)
AheadIsDoomed ==
  \A f \in Files :
    DropAhead(f) /\ recorded[[kind |-> "up", file |-> f]] # Nil => f \in doomed

(* What a run has passed is there with the content it has in its directory,  *)
(* unless another run's --drop has undone it.                                *)
PassedIsThere ==
  \A p \in Procs \ hit :
    run[p] # Nil =>
      \A f \in Files \ (Blank \cup doomed) :
        N + f < run[p].pos =>
          /\ tables[f] \in Contents
          /\ f \notin Always => tables[f] = run[p].disk[f]

IInv ==
  /\ TypeOK
  /\ HoldsLock
  /\ BeginsAtStart
  /\ AlwaysUnrecorded
  /\ AheadIsDoomed
  /\ RecordedIsApplied
  /\ SelectStillHolds
  /\ PassedIsThere

-----------------------------------------------------------------------------
(* The kinds of steps. *)

Step(p) ==
  \/ Start(p) \/ Setup(p) \/ Lock(p) \/ Select(p) \/ Skip(p)
  \/ Release(p) \/ Apply(p) \/ Exit(p)

(* A run that ends, for whatever reason, ends by Exit. *)
LEMMA MigrateStepKinds ==
  ASSUME Next
  PROVE  \E p \in Procs : Step(p)
  BY DEF Next, Proceeds, Fail, Reapply, Finish, Crash, Step

(* The work list holds scripts, the drop scripts first. *)
LEMMA ScriptType ==
  ASSUME TypeOK, NEW p \in Procs, run[p] # Nil, run[p].pos <= 2 * N
  PROVE  /\ run[p] \in Run
         /\ Script(p) \in Scripts
         /\ Hash(p) = run[p].disk[Script(p).file]
         /\ Hash(p) \in Contents
         /\ Script(p).kind = "drop" <=> run[p].pos <= N
         /\ Script(p).kind = "up" => Script(p).file = run[p].pos - N
<1>1. run[p] \in Run /\ run[p].pos \in 1..(2 * N) /\ N \in Nat \ {0}
  BY FilesAssumption DEF TypeOK, Run
<1>2. CASE run[p].pos <= N
  <2>1. Script(p) = [kind |-> "drop", file |-> N + 1 - run[p].pos]
    BY <1>2 DEF Script, ScriptAt
  <2>2. N + 1 - run[p].pos \in Files
    BY <1>1, <1>2 DEF Files
  <2> QED BY <1>1, <1>2, <2>1, <2>2 DEF Scripts, Hash, Run
<1>3. CASE ~ (run[p].pos <= N)
  <2>1. Script(p) = [kind |-> "up", file |-> run[p].pos - N]
    BY <1>3 DEF Script, ScriptAt
  <2>2. run[p].pos - N \in Files
    BY <1>1, <1>3 DEF Files
  <2> QED BY <1>1, <1>3, <2>1, <2>2 DEF Scripts, Hash, Run
<1> QED BY <1>2, <1>3

(* What Apply does, in terms of the script. *)
LEMMA ApplyEffect ==
  ASSUME TypeOK, NEW p \in Procs, Apply(p)
  PROVE  /\ run[p] \in Run /\ run[p].phase = "running" /\ run[p].pos <= 2 * N
         /\ Script(p) \in Scripts /\ Script(p).file \in Files \ Blank
         /\ Hash(p) = run[p].disk[Script(p).file] /\ Hash(p) \in Contents
         /\ run[p].pos <= N => Script(p).kind = "drop"
         /\ ~ (run[p].pos <= N) => /\ Script(p).kind = "up"
                                   /\ Script(p).file = run[p].pos - N
<1>1. run[p] # Nil /\ run[p].phase = "running" /\ run[p].pos <= 2 * N
  BY DEF Apply, At, TypeOK
<1>2. Script(p).kind \in {"drop", "up"}
  BY <1>1, ScriptType DEF Scripts
<1> QED BY <1>1, <1>2, ScriptType DEF Scripts, Apply

(* The types survive every step. *)
LEMMA MigrateTypeStep ==
  ASSUME TypeOK,
         NEW p \in Procs, Step(p)
  PROVE  TypeOK'
<1> USE DEF history
<1>1. ASSUME Start(p) PROVE TypeOK'
  <2>1. PICK flags \in Flags, disk \in Disks :
          run' = [run EXCEPT ![p] =
            [drop |-> flags.drop, reapply |-> flags.reapply, disk |-> disk,
             pos |-> IF flags.drop THEN 1 ELSE N + 1, phase |-> "setup"]]
    BY <1>1 DEF Start
  <2>2. (IF flags.drop THEN 1 ELSE N + 1) \in 1..(2 * N + 1)
    BY FilesAssumption
  <2>3. flags.drop \in BOOLEAN /\ flags.reapply \in BOOLEAN /\ disk \in [Files -> Contents]
    BY FilesAssumption
  <2>4. run' \in [Procs -> Run \cup {Nil}] /\ run'[p].phase = "setup"
    BY <2>1, <2>2, <2>3 DEF TypeOK, Run
  <2> QED BY <1>1, <2>1, <2>4 DEF Start, TypeOK
<1>2. ASSUME Setup(p) PROVE TypeOK'
  <2>1. Cleared(p) \in [Scripts -> Contents \cup {Nil}]
    BY DEF Cleared, TypeOK
  <2>2. doomed' \in SUBSET Files /\ hit' \in SUBSET Procs
    BY <1>2 DEF Setup, Others, TypeOK
  <2> QED BY <1>2, <2>1, <2>2, NilAssumption DEF Setup, Moved, At, TypeOK, Run
<1>3. ASSUME Lock(p) PROVE TypeOK'
  BY <1>3, NilAssumption DEF Lock, Moved, At, TypeOK, Run
<1>4. ASSUME Select(p) PROVE TypeOK'
  BY <1>4, NilAssumption DEF Select, Moved, At, TypeOK, Run
<1>5. ASSUME Skip(p) PROVE TypeOK'
  <2>1. run[p] \in Run /\ run[p].pos <= 2 * N
    BY <1>5 DEF Skip, At, TypeOK
  <2>2. run[p].pos + 1 \in 1..(2 * N + 1)
    BY <2>1, FilesAssumption DEF Run
  <2>3. Moved(run[p], "next", run[p].pos + 1) \in Run
    BY <2>1, <2>2 DEF Moved, Run
  <2> QED BY <1>5, <2>3, NilAssumption DEF Skip, TypeOK, Moved
<1>6. ASSUME Release(p) PROVE TypeOK'
  BY <1>6, NilAssumption DEF Release, TypeOK
<1>7. ASSUME Apply(p) PROVE TypeOK'
  <2>1. run[p] \in Run /\ run[p].pos <= 2 * N
    BY <1>7, ApplyEffect
  <2>2. run[p].pos + 1 \in 1..(2 * N + 1)
    BY <2>1, FilesAssumption DEF Run
  <2>3. Moved(run[p], "next", run[p].pos + 1) \in Run
    BY <2>1, <2>2 DEF Moved, Run
  <2>4. tables' \in [Files -> Contents \cup {Nil}]
    BY <1>7, ApplyEffect DEF Apply, TypeOK
  <2>5. recorded' \in [Scripts -> Contents \cup {Nil}]
    BY <1>7, ApplyEffect DEF Apply, TypeOK
  <2>6. doomed' \in SUBSET Files /\ hit' \in SUBSET Procs
    <3>1. Script(p).file \in Files
      BY <1>7, ApplyEffect
    <3> QED BY <1>7, <3>1 DEF Apply, Others, TypeOK
  <2>7. run' = [run EXCEPT ![p] = Moved(run[p], "next", run[p].pos + 1)]
    BY <1>7 DEF Apply
  <2>8. run' \in [Procs -> Run \cup {Nil}]
    BY <2>3, <2>7 DEF TypeOK
  <2>9. ASSUME NEW q \in Procs, run'[q] # Nil, run'[q].phase \in {"locked", "running"}
        PROVE  run'[q].pos <= 2 * N
    <3>1. q # p
      BY <2>7, <2>9 DEF TypeOK, Moved
    <3> QED BY <2>7, <2>9, <3>1 DEF TypeOK
  <2>10. lock' \in Procs \cup {Nil}
    BY <1>7 DEF Apply
  <2> QED BY <2>4, <2>5, <2>6, <2>8, <2>9, <2>10 DEF TypeOK
<1>8. ASSUME Exit(p) PROVE TypeOK'
  BY <1>8, NilAssumption DEF Exit, TypeOK
<1> QED
  BY <1>1, <1>2, <1>3, <1>4, <1>5, <1>6, <1>7, <1>8
  DEF Step

(* Whoever looks at a script holds the lock, and a skipped file's transaction
   gives it back before the next file takes it. *)
LEMMA LockStep ==
  ASSUME TypeOK, HoldsLock,
         NEW p \in Procs, Step(p)
  PROVE  HoldsLock'
<1>1. ASSUME Start(p) PROVE HoldsLock'
  BY <1>1, NilAssumption
  DEF Start, TypeOK, HoldsLock, Run, At
<1>2. ASSUME Setup(p) PROVE HoldsLock'
  BY <1>2, NilAssumption
  DEF Setup, Cleared, Moved, At, TypeOK, HoldsLock, Run, At
<1>3. ASSUME Lock(p) PROVE HoldsLock'
  BY <1>3, NilAssumption
  DEF Lock, LockFree, Moved, At, TypeOK, HoldsLock, Run, At
<1>4. ASSUME Select(p) PROVE HoldsLock'
  BY <1>4, NilAssumption
  DEF Select, Moved, At, TypeOK, HoldsLock, Run, At
<1>5. ASSUME Skip(p) PROVE HoldsLock'
  BY <1>5, NilAssumption
  DEF Skip, Moved, At, TypeOK, HoldsLock, Run, At
<1>6. ASSUME Release(p) PROVE HoldsLock'
  BY <1>6, NilAssumption
  DEF Release, TypeOK, HoldsLock, Run, At
<1>7. ASSUME Apply(p) PROVE HoldsLock'
  BY <1>7, NilAssumption
  DEF Apply, Moved, At, TypeOK, HoldsLock, Run, At
<1>8. ASSUME Exit(p) PROVE HoldsLock'
  BY <1>8, NilAssumption
  DEF Exit, TypeOK, HoldsLock, Run, At
<1> QED
  BY <1>1, <1>2, <1>3, <1>4, <1>5, <1>6, <1>7, <1>8
  DEF Step

(* Only Start brings a run to its beginning. *)
LEMMA BeginStep ==
  ASSUME TypeOK, BeginsAtStart, NEW p \in Procs, Step(p)
  PROVE  BeginsAtStart'
<1> SUFFICES ASSUME NEW q \in Procs, At(q, "setup")'
             PROVE  run'[q].pos = IF run'[q].drop THEN 1 ELSE N + 1
  BY DEF BeginsAtStart
<1>1. CASE Start(p) /\ q = p
  BY <1>1 DEF Start, TypeOK
<1>2. CASE ~ (Start(p) /\ q = p)
  <2>1. run'[q] = run[q]
    BY <1>2 DEF Step, Start, Setup, Lock, Select, Skip, Release, Apply, Exit, Moved, At, TypeOK
  <2> QED BY <2>1 DEF BeginsAtStart, At
<1> QED BY <1>1, <1>2

(* A drop script comes to lie ahead only when a --drop run empties           *)
(* app_migration.                                                            *)
LEMMA AheadStep ==
  ASSUME TypeOK, BeginsAtStart, NEW p \in Procs, Step(p),
         NEW f \in Files, DropAhead(f)'
  PROVE  DropAhead(f) \/ (Setup(p) /\ run[p].drop)
<1>1. PICK q \in Procs : run'[q] # Nil /\ run'[q].phase # "setup" /\ run'[q].pos <= N + 1 - f
  BY DEF DropAhead
<1>2. f \in Nat \ {0} /\ N \in Nat
  BY FilesAssumption DEF Files
<1>3. CASE run'[q] = run[q]
  BY <1>1, <1>3 DEF DropAhead
<1>4. CASE run'[q] # run[q]
  <2>1. q = p
    BY <1>4 DEF Step, Start, Setup, Lock, Select, Skip, Release, Apply, Exit, TypeOK
  <2>2. CASE Setup(p)
    <3>1. At(p, "setup") /\ run'[p].pos = run[p].pos
      BY <2>2 DEF Setup, Moved, TypeOK
    <3>2. run[p].drop
      BY <1>1, <1>2, <2>1, <3>1 DEF BeginsAtStart
    <3> QED BY <2>2, <3>2
  <2>3. CASE Lock(p) \/ Select(p)
    <3>1. run[p] # Nil /\ run[p].phase # "setup" /\ run'[p].pos = run[p].pos
      BY <2>3 DEF Lock, Select, Moved, At, TypeOK
    <3> QED BY <1>1, <2>1, <3>1 DEF DropAhead
  <2>4. CASE Skip(p) \/ Apply(p)
    <3>1. run[p] # Nil /\ run[p].phase # "setup" /\ run'[p].pos = run[p].pos + 1
      BY <2>4 DEF Skip, Apply, Moved, At, TypeOK
    <3>2. run[p].pos \in Nat
      BY <3>1 DEF TypeOK, Run
    <3>3. run[p].pos <= N + 1 - f
      BY <1>1, <1>2, <2>1, <3>1, <3>2
    <3> QED BY <3>1, <3>3 DEF DropAhead
  <2>5. CASE Start(p) \/ Release(p) \/ Exit(p)
    BY <1>1, <1>4, <2>1, <2>5 DEF Start, Release, Exit, TypeOK
  <2> QED BY <2>2, <2>3, <2>4, <2>5 DEF Step
<1> QED BY <1>3, <1>4

(* app_migration says what is so: a script is recorded with what it did, and a
   table goes when it is not recorded, or doomed. *)
LEMMA RecordStep ==
  ASSUME TypeOK, HoldsLock, BeginsAtStart, AlwaysUnrecorded, AheadIsDoomed,
         RecordedIsApplied,
         NEW p \in Procs, Step(p)
  PROVE  AlwaysUnrecorded' /\ AheadIsDoomed' /\ RecordedIsApplied'
<1>1. CASE Setup(p) /\ run[p].drop
  <2>1. \A s \in Scripts : recorded'[s] = Nil
    BY <1>1 DEF Setup, Cleared
  <2>2. \A f \in Files : recorded'[[kind |-> "up", file |-> f]] = Nil
    BY <2>1 DEF Scripts
  <2> QED BY <2>1, <2>2 DEF AlwaysUnrecorded, AheadIsDoomed, RecordedIsApplied
<1>2. CASE Apply(p)
  <2> DEFINE s == Script(p)
  <2>1. /\ run[p] \in Run /\ s \in Scripts /\ s.file \in Files
        /\ run[p].phase = "running" /\ run[p] # Nil
        /\ Hash(p) \in Contents /\ Hash(p) # Nil
    BY <1>2, ApplyEffect, NilAssumption
  <2>2. AlwaysUnrecorded'
    BY <1>2, <2>1 DEF Apply, AlwaysUnrecorded, TypeOK
  <2>3. doomed \subseteq doomed'
    BY <1>2 DEF Apply
  <2>4. ~ Setup(p)
    BY <1>2 DEF Setup, Apply, At
  <2>5. CASE run[p].pos <= N
    <3>1. s.kind = "drop" /\ s.file = N + 1 - run[p].pos
      BY <1>2, <2>1, <2>5, ApplyEffect DEF Script, ScriptAt
    <3>2. ASSUME NEW f \in Files
          PROVE  recorded'[[kind |-> "up", file |-> f]] = recorded[[kind |-> "up", file |-> f]]
      <4> DEFINE u == [kind |-> "up", file |-> f]
      <4>1. u \in Scripts /\ u.kind = "up" /\ u # s
        BY <3>1 DEF Scripts
      <4> QED BY <1>2, <4>1 DEF Apply, TypeOK
    <3>3. AheadIsDoomed'
      BY <2>3, <2>4, <3>2, AheadStep DEF AheadIsDoomed
    <3>4. DropAhead(s.file)
      <4>1. run[p].pos <= N + 1 - s.file
        BY <2>1, <3>1, FilesAssumption DEF Run
      <4> QED BY <2>1, <4>1 DEF DropAhead
    <3>5. RecordedIsApplied'
      <4> SUFFICES ASSUME NEW f \in Files, f \notin doomed',
                          recorded'[[kind |-> "up", file |-> f]] # Nil
                   PROVE  tables'[f] = recorded'[[kind |-> "up", file |-> f]]
        BY DEF RecordedIsApplied
      <4>1. f # s.file
        BY <2>3, <3>2, <3>4 DEF AheadIsDoomed
      <4>2. tables'[f] = tables[f]
        BY <1>2, <2>1, <4>1 DEF Apply, TypeOK
      <4> QED BY <2>3, <3>2, <4>2 DEF RecordedIsApplied
    <3> QED BY <2>2, <3>3, <3>5
  <2>6. CASE ~ (run[p].pos <= N)
    <3>1. s.kind = "up" /\ s = [kind |-> "up", file |-> s.file]
      BY <1>2, <2>1, <2>6, ApplyEffect DEF Scripts
    <3>2. ASSUME NEW f \in Files, f # s.file
          PROVE  recorded'[[kind |-> "up", file |-> f]] = recorded[[kind |-> "up", file |-> f]]
      BY <1>2, <2>1, <3>2 DEF Apply, TypeOK, Scripts
    <3>3. s.file \in Always => recorded' = recorded
      BY <1>2 DEF Apply
    <3>4. s.file \notin Always => recorded'[s] = Hash(p) /\ recorded[s] = Nil
      BY <1>2, <2>1 DEF Apply, Seen, TypeOK
    <3>5. s.file \notin Always /\ DropAhead(s.file) => s.file \in doomed'
      <4>1. s.file \notin Always => recorded' # recorded
        BY <2>1, <3>4
      <4> QED BY <1>2, <3>1, <4>1 DEF Apply
    <3>6. AheadIsDoomed'
      <4> SUFFICES ASSUME NEW f \in Files, DropAhead(f)',
                          recorded'[[kind |-> "up", file |-> f]] # Nil
                   PROVE  f \in doomed'
        BY DEF AheadIsDoomed
      <4>1. DropAhead(f)
        BY <2>4, AheadStep
      <4>2. CASE f = s.file /\ f \notin Always
        BY <3>5, <4>1, <4>2
      <4>3. CASE ~ (f = s.file /\ f \notin Always)
        BY <2>3, <3>2, <3>3, <4>1, <4>3 DEF AheadIsDoomed
      <4> QED BY <4>2, <4>3
    <3>7. RecordedIsApplied'
      <4> SUFFICES ASSUME NEW f \in Files, f \notin doomed',
                          recorded'[[kind |-> "up", file |-> f]] # Nil
                   PROVE  tables'[f] = recorded'[[kind |-> "up", file |-> f]]
        BY DEF RecordedIsApplied
      <4>1. CASE f = s.file /\ f \in Always
        BY <1>2, <2>2, <4>1 DEF AlwaysUnrecorded, Scripts
      <4>2. CASE f = s.file /\ f \notin Always
        BY <1>2, <2>1, <3>1, <3>4, <4>2 DEF Apply, TypeOK
      <4>3. CASE f # s.file
        <5>1. tables'[f] = tables[f]
          BY <1>2, <2>1, <4>3 DEF Apply, TypeOK
        <5> QED BY <2>3, <3>2, <4>3, <5>1 DEF RecordedIsApplied
      <4> QED BY <4>1, <4>2, <4>3
    <3> QED BY <2>2, <3>6, <3>7
  <2> QED BY <2>5, <2>6
<1>3. CASE ~ Apply(p) /\ ~ (Setup(p) /\ run[p].drop)
  <2>1. recorded' = recorded /\ tables' = tables /\ doomed' = doomed
    BY <1>3 DEF Step, Start, Setup, Cleared, Lock, Select, Skip, Release, Exit, history
  <2>2. AheadIsDoomed'
    BY <1>3, <2>1, AheadStep DEF AheadIsDoomed
  <2> QED BY <2>1, <2>2 DEF AlwaysUnrecorded, RecordedIsApplied
<1> QED BY <1>1, <1>2, <1>3

(* Under the lock nothing changes what the SELECT found. *)
LEMMA SelectStep ==
  ASSUME TypeOK, HoldsLock, SelectStillHolds,
         NEW p \in Procs, Step(p)
  PROVE  SelectStillHolds'
<1>1. ASSUME Start(p) PROVE SelectStillHolds'
  BY <1>1, NilAssumption
  DEF Start, TypeOK, Run, HoldsLock, SelectStillHolds, Seen,
      Script, Changed, At
<1>2. ASSUME Setup(p) PROVE SelectStillHolds'
  BY <1>2, NilAssumption
  DEF Setup, Cleared, Moved, TypeOK, Run, HoldsLock, SelectStillHolds, Seen,
      Script, Changed, At
<1>3. ASSUME Lock(p) PROVE SelectStillHolds'
  BY <1>3, NilAssumption
  DEF Lock, LockFree, Moved, TypeOK, Run, HoldsLock, SelectStillHolds, Seen,
      Script, Changed, At
<1>4. ASSUME Select(p) PROVE SelectStillHolds'
  BY <1>4, NilAssumption
  DEF Select, Moved, TypeOK, Run, HoldsLock, SelectStillHolds, Seen,
      Script, Changed, At
<1>5. ASSUME Skip(p) PROVE SelectStillHolds'
  BY <1>5, NilAssumption
  DEF Skip, Moved, TypeOK, Run, HoldsLock, SelectStillHolds, Seen,
      Script, Changed, At
<1>6. ASSUME Release(p) PROVE SelectStillHolds'
  BY <1>6, NilAssumption
  DEF Release, TypeOK, Run, HoldsLock, SelectStillHolds, Seen,
      Script, Changed, At
<1>7. ASSUME Apply(p) PROVE SelectStillHolds'
  BY <1>7, NilAssumption
  DEF Apply, Moved, TypeOK, Run, HoldsLock, SelectStillHolds, Seen,
      Script, Changed, At
<1>8. ASSUME Exit(p) PROVE SelectStillHolds'
  BY <1>8, NilAssumption
  DEF Exit, TypeOK, Run, HoldsLock, SelectStillHolds, Seen,
      Script, Changed, At
<1> QED
  BY <1>1, <1>2, <1>3, <1>4, <1>5, <1>6, <1>7, <1>8
  DEF Step

(* What a run has passed stays: a table of a file that is not run every time is
   created once, and goes only by the drop script of a run, whose records of the
   others are hit by it. *)
LEMMA PassedStep ==
  ASSUME TypeOK, BeginsAtStart, RecordedIsApplied, PassedIsThere,
         NEW p \in Procs, Step(p)
  PROVE  PassedIsThere'
<1> SUFFICES ASSUME NEW q \in Procs, q \notin hit', run'[q] # Nil,
                    NEW f \in Files, f \notin Blank, f \notin doomed',
                    N + f < run'[q].pos
             PROVE  /\ tables'[f] \in Contents
                    /\ f \notin Always => tables'[f] = run'[q].disk[f]
  BY DEF PassedIsThere
<1> USE DEF history
<1>0. f \in Nat \ {0} /\ N \in Nat
  BY FilesAssumption DEF Files
<1>1. CASE Start(p)
  <2>1. q # p
    <3>1. run'[p].pos \in {1, N + 1}
      BY <1>1 DEF Start, TypeOK
    <3> QED BY <1>0, <3>1
  <2> QED BY <1>1, <2>1 DEF Start, TypeOK, PassedIsThere
<1>2. CASE Setup(p)
  <2>1. q # p
    <3>1. run'[p].pos \in {1, N + 1}
      BY <1>2 DEF Setup, Moved, TypeOK, BeginsAtStart, At
    <3> QED BY <1>0, <3>1
  <2>2. run'[q] = run[q] /\ tables' = tables
    BY <1>2, <2>1 DEF Setup, TypeOK
  <2>3. ~ run[p].drop
    BY <1>2, <2>1, <2>2 DEF Setup, Others
  <2>4. q \notin hit /\ f \notin doomed
    BY <1>2, <2>3 DEF Setup
  <2> QED BY <2>2, <2>4 DEF PassedIsThere
<1>3. CASE Lock(p) \/ Select(p)
  BY <1>3 DEF Lock, Select, Moved, At, TypeOK, Run, PassedIsThere
<1>4. CASE Release(p)
  BY <1>4 DEF Release, TypeOK, Run, PassedIsThere
<1>5. CASE Skip(p)
  <2>1. /\ tables' = tables /\ hit' = hit /\ doomed' = doomed
        /\ run[p] # Nil /\ run[p] \in Run /\ run[p].pos <= 2 * N
    BY <1>5 DEF Skip, At, TypeOK
  <2>2. CASE q # p
    BY <1>5, <2>1, <2>2 DEF Skip, TypeOK, PassedIsThere
  <2>3. CASE q = p
    <3>1. run'[p].disk = run[p].disk /\ run'[p].pos = run[p].pos + 1
      BY <1>5 DEF Skip, TypeOK, Moved
    <3>2. CASE N + f < run[p].pos
      BY <2>1, <2>3, <3>1, <3>2 DEF PassedIsThere
    <3>3. CASE ~ (N + f < run[p].pos)
      <4>1. N + f = run[p].pos /\ ~ (run[p].pos <= N) /\ run[p].pos - N = f
        <5>1. run[p].pos \in Nat
          BY <2>1 DEF Run
        <5>2. N + f < run[p].pos + 1
          BY <2>3, <3>1
        <5> QED BY <1>0, <3>3, <5>1, <5>2
      <4>2. Script(p) = [kind |-> "up", file |-> f] /\ Hash(p) = run[p].disk[f]
        <5>1. Script(p) = [kind |-> "up", file |-> f]
          BY <4>1 DEF Script, ScriptAt
        <5> QED BY <5>1 DEF Hash
      <4>3. AlreadyApplied(p)
        BY <1>5, <4>2 DEF Skip
      <4>4. recorded[[kind |-> "up", file |-> f]] = Hash(p) /\ Hash(p) # Nil
        BY <4>2, <4>3 DEF AlreadyApplied, Seen
      <4>5. tables[f] = Hash(p) /\ Hash(p) \in Contents
        BY <2>1, <4>4, ScriptType DEF RecordedIsApplied
      <4> QED BY <2>1, <2>3, <3>1, <4>2, <4>5
    <3> QED BY <3>2, <3>3
  <2> QED BY <2>2, <2>3
<1>6. CASE Apply(p)
  <2> DEFINE s == Script(p)
  <2>1. /\ run[p] \in Run /\ run[p] # Nil /\ s.file \in Files /\ Hash(p) \in Contents
        /\ Hash(p) = run[p].disk[s.file]
    BY <1>6, ApplyEffect, NilAssumption DEF Scripts
  <2>2. f # s.file => tables'[f] = tables[f]
    BY <1>6, <2>1 DEF Apply, TypeOK
  <2>3. s.kind = "up" => tables'[s.file] = Hash(p)
    BY <1>6, <2>1 DEF Apply, TypeOK
  <2>4. s.kind = "up" => s.file \in Always \/ tables[s.file] = Nil
    BY <1>6 DEF Apply, Succeeds
  <2>5. run'[p].disk = run[p].disk /\ run'[p].pos = run[p].pos + 1
    BY <1>6 DEF Apply, TypeOK, Moved
  <2>6. f \notin doomed /\ q \notin hit
    BY <1>6 DEF Apply
  <2>7. CASE run[p].pos <= N
    <3>1. s.kind = "drop"
      BY <1>6, <2>7, ApplyEffect
    <3>2. q = p
      <4>1. q # p => run'[q] = run[q]
        BY <1>6 DEF Apply, TypeOK
      <4> QED BY <1>6, <3>1, <4>1 DEF Apply, Others
    <3>3. run[p].pos \in Nat
      BY <2>1 DEF Run
    <3> QED BY <1>0, <2>5, <2>7, <3>2, <3>3
  <2>8. CASE ~ (run[p].pos <= N)
    <3>1. s.kind = "up" /\ s.file = run[p].pos - N
      BY <1>6, <2>8, ApplyEffect
    <3>2. CASE q # p
      <4>1. run'[q] = run[q]
        BY <1>6, <3>2 DEF Apply, TypeOK
      <4>2. tables[f] \in Contents /\ (f \notin Always => tables[f] = run[q].disk[f])
        BY <2>6, <4>1 DEF PassedIsThere
      <4>3. f = s.file => f \in Always
        BY <2>4, <3>1, <4>2, NilAssumption
      <4> QED BY <2>1, <2>2, <2>3, <3>1, <4>1, <4>2, <4>3
    <3>3. CASE q = p /\ f = s.file
      BY <2>1, <2>3, <2>5, <3>1, <3>3
    <3>4. CASE q = p /\ f # s.file
      <4>1. run[p].pos \in Nat
        BY <2>1 DEF Run
      <4>2. N + f < run[p].pos
        BY <1>0, <2>5, <3>1, <3>4, <4>1
      <4> QED BY <2>1, <2>2, <2>5, <2>6, <3>4, <4>2 DEF PassedIsThere
    <3> QED BY <3>2, <3>3, <3>4
  <2> QED BY <2>7, <2>8
<1>7. CASE Exit(p)
  <2>1. q # p /\ run'[q] = run[q] /\ tables' = tables /\ doomed' = doomed
    BY <1>7 DEF Exit, TypeOK
  <2>2. q \notin hit
    BY <1>7, <2>1 DEF Exit
  <2> QED BY <2>1, <2>2 DEF PassedIsThere
<1> QED
  BY <1>1, <1>2, <1>3, <1>4, <1>5, <1>6, <1>7 DEF Step

-----------------------------------------------------------------------------

(* Nothing runs and nothing is recorded at first. *)
LEMMA MigrateInit == Init => IInv
<1> SUFFICES ASSUME Init PROVE IInv
  OBVIOUS
<1>1. TypeOK
  BY DEF Init, TypeOK
<1>2. HoldsLock /\ BeginsAtStart /\ AheadIsDoomed /\ PassedIsThere
  BY DEF Init, HoldsLock, At, BeginsAtStart, AheadIsDoomed, DropAhead, PassedIsThere
<1>3. AlwaysUnrecorded /\ RecordedIsApplied /\ SelectStillHolds
  BY DEF Init, AlwaysUnrecorded, RecordedIsApplied, Scripts, SelectStillHolds, At
<1> QED BY <1>1, <1>2, <1>3 DEF IInv

(* IInv is inductive: the other theorems about Migrate rest on it.  That a   *)
(* table is dropped only where app_migration does not name it, or where its  *)
(* file is doomed, is what makes it so (AheadIsDoomed).                      *)
THEOREM MigrateInvariance == Spec => []IInv
<1>1. IInv /\ [Next]_vars => IInv'
  <2> SUFFICES ASSUME IInv, [Next]_vars PROVE IInv'
    OBVIOUS
  <2>1. CASE Next
    <3>1. PICK p \in Procs : Step(p)
      BY <2>1, MigrateStepKinds
    <3> QED
      BY <3>1, MigrateTypeStep, LockStep, BeginStep, RecordStep, SelectStep, PassedStep
      DEF IInv
  <2>2. CASE UNCHANGED vars
    <3>1. TypeOK' /\ HoldsLock' /\ BeginsAtStart'
      BY <2>2 DEF vars, history, IInv, TypeOK, HoldsLock, At, BeginsAtStart
    <3>2. AlwaysUnrecorded' /\ AheadIsDoomed' /\ RecordedIsApplied' /\ PassedIsThere'
      BY <2>2 DEF vars, history, IInv, AlwaysUnrecorded, AheadIsDoomed, DropAhead,
        RecordedIsApplied, PassedIsThere
    <3>3. SelectStillHolds'
      BY <2>2 DEF vars, IInv, SelectStillHolds, At, Seen, Script
    <3> QED BY <3>1, <3>2, <3>3 DEF IInv
  <2> QED BY <2>1, <2>2
<1> QED BY MigrateInit, <1>1, PTL DEF Spec

(* Type correctness: whoever looks at a script is at one of the work list. *)
THEOREM MigrateTypeCorrect == Spec => []TypeOK
<1>1. IInv => TypeOK
  BY DEF IInv
<1> QED BY MigrateInvariance, <1>1, PTL

(* A recorded up script's table exists with the recorded content, whatever   *)
(* runs overlapped, also with --drop, and wherever they were killed, unless  *)
(* the file was recorded while a --drop run that had emptied app_migration   *)
(* had yet to drop its table (RecordedIsApplied).                            *)
THEOREM RecordsAreTrue == Spec => []RecordedIsApplied
<1>1. IInv => RecordedIsApplied
  BY DEF IInv
<1> QED BY MigrateInvariance, <1>1, PTL

(* No run redoes what another one has just done. *)
THEOREM SelectHolds == Spec => []SelectStillHolds
<1>1. IInv => SelectStillHolds
  BY DEF IInv
<1> QED BY MigrateInvariance, <1>1, PTL

(* A run that ends with success has brought the schema to the state of its   *)
(* directory, except for what a --drop run beside it has undone              *)
(* (CompletedMeansMigrated).                                                 *)
THEOREM CompletedMigrated == Spec => CompletedMeansMigrated
<1>1. ASSUME IInv, [Next]_vars
      PROVE  [\A p \in Procs :
                Finish(p) /\ p \notin hit =>
                  \A f \in Files \ (Blank \cup doomed) : tables[f] \in Contents
                    /\ (f \notin Always => tables[f] = run[p].disk[f])]_vars
  <2> SUFFICES ASSUME NEW p \in Procs, Finish(p), p \notin hit,
                      NEW f \in Files \ (Blank \cup doomed)
               PROVE  /\ tables[f] \in Contents
                      /\ f \notin Always => tables[f] = run[p].disk[f]
    OBVIOUS
  <2>1. run[p] # Nil /\ N + f < run[p].pos
    BY FilesAssumption DEF Finish, At, Files
  <2> QED BY <1>1, <2>1 DEF IInv, PassedIsThere
<1> QED BY MigrateInvariance, <1>1, PTL DEF Spec, CompletedMeansMigrated

-----------------------------------------------------------------------------
(* How far a run is from its end. *)

Phase == [setup |-> 0, next |-> 1, locked |-> 2, running |-> 3]
Place(q) == 4 * q.pos + Phase[q.phase]

(* A run never goes back to a script it has been at, never changes its flags *)
(* or its directory, and each of its steps ends it or takes it further: of   *)
(* these it has at most 8 N + 2, whatever locks other runs hold meanwhile.   *)
(* That it takes them is a matter of fairness (EveryRunEnds).                *)
RunsMoveForward ==
  [][\A p \in Procs :
       run[p] # Nil /\ run'[p] # run[p] /\ run'[p] # Nil =>
         /\ run'[p].drop = run[p].drop /\ run'[p].reapply = run[p].reapply
         /\ run'[p].disk = run[p].disk
         /\ Place(run[p]) < Place(run'[p]) /\ Place(run'[p]) <= 8 * N + 5]_vars

(* A run's own steps. *)
LEMMA RunAdvances ==
  ASSUME IInv, NEW q \in Procs, Step(q),
         NEW p \in Procs, run[p] # Nil, run'[p] # run[p], run'[p] # Nil
  PROVE  /\ run'[p].drop = run[p].drop /\ run'[p].reapply = run[p].reapply
         /\ run'[p].disk = run[p].disk
         /\ Place(run[p]) < Place(run'[p])
<1>1. run[p] \in Run /\ run[p].pos \in Nat
  BY DEF IInv, TypeOK, Run
<1>2. q = p
  BY DEF Step, Start, Setup, Lock, Select, Skip, Release, Apply, Exit, IInv, TypeOK
<1>3. CASE Setup(p) \/ Lock(p) \/ Select(p)
  <2>1. /\ run'[p].drop = run[p].drop /\ run'[p].reapply = run[p].reapply
        /\ run'[p].disk = run[p].disk /\ run'[p].pos = run[p].pos
    BY <1>3 DEF Setup, Lock, Select, Moved, IInv, TypeOK
  <2>2. \/ run[p].phase = "setup" /\ run'[p].phase = "next"
        \/ run[p].phase = "next" /\ run'[p].phase = "locked"
        \/ run[p].phase = "locked" /\ run'[p].phase = "running"
    BY <1>3 DEF Setup, Lock, Select, Moved, At, IInv, TypeOK
  <2>3. Phase[run[p].phase] \in Nat /\ Phase[run'[p].phase] = Phase[run[p].phase] + 1
    BY <2>2 DEF Phase
  <2> QED BY <1>1, <2>1, <2>3 DEF Place
<1>4. CASE Skip(p) \/ Apply(p)
  <2>1. /\ run'[p].drop = run[p].drop /\ run'[p].reapply = run[p].reapply
        /\ run'[p].disk = run[p].disk /\ run'[p].pos = run[p].pos + 1
        /\ run'[p].phase = "next"
    BY <1>4 DEF Skip, Apply, Moved, IInv, TypeOK
  <2>2. Phase[run[p].phase] \in 0..3 /\ Phase[run'[p].phase] = 1
    BY <1>1, <2>1 DEF Phase, Run
  <2> QED BY <1>1, <2>1, <2>2 DEF Place
<1> QED
  BY <1>2, <1>3, <1>4 DEF Step, Start, Release, Exit, IInv, TypeOK

(* Every step of a run brings it nearer its end (RunsMoveForward). *)
THEOREM RunsGoForward == Spec => RunsMoveForward
<1>1. ASSUME IInv, IInv', [Next]_vars, NEW p \in Procs,
             run[p] # Nil, run'[p] # run[p], run'[p] # Nil
      PROVE  /\ run'[p].drop = run[p].drop /\ run'[p].reapply = run[p].reapply
             /\ run'[p].disk = run[p].disk
             /\ Place(run[p]) < Place(run'[p]) /\ Place(run'[p]) <= 8 * N + 5
  <2>1. PICK q \in Procs : Step(q)
    BY <1>1, MigrateStepKinds DEF vars
  <2>2. /\ run'[p].drop = run[p].drop /\ run'[p].reapply = run[p].reapply
        /\ run'[p].disk = run[p].disk
        /\ Place(run[p]) < Place(run'[p])
    BY <1>1, <2>1, RunAdvances
  <2>3. run'[p].phase # "setup"
    BY <1>1, <2>1
    DEF Step, Start, Setup, Lock, Select, Skip, Release, Apply, Exit, Moved, IInv, TypeOK
  <2>4. TypeOK'
    BY <1>1 DEF IInv
  <2>5. run'[p] \in Run /\ run'[p].pos \in 1..(2 * N + 1) /\ N \in Nat
    BY <1>1, <2>4, FilesAssumption DEF TypeOK, Run
  <2>6. Place(run'[p]) <= 8 * N + 5
    <3>1. CASE run'[p].phase = "next"
      BY <2>5, <3>1 DEF Place, Phase
    <3>2. CASE run'[p].phase \in {"locked", "running"}
      <4>1. run'[p].pos <= 2 * N
        BY <1>1, <2>4, <3>2 DEF TypeOK, At
      <4>2. Phase[run'[p].phase] \in 0..3
        BY <3>2 DEF Phase
      <4> QED BY <2>5, <4>1, <4>2 DEF Place
    <3> QED BY <2>3, <2>5, <3>1, <3>2 DEF Run
  <2> QED BY <2>2, <2>6
<1>2. IInv /\ IInv' /\ [Next]_vars =>
        [\A p \in Procs :
           run[p] # Nil /\ run'[p] # run[p] /\ run'[p] # Nil =>
             /\ run'[p].drop = run[p].drop /\ run'[p].reapply = run[p].reapply
             /\ run'[p].disk = run[p].disk
             /\ Place(run[p]) < Place(run'[p]) /\ Place(run'[p]) <= 8 * N + 5]_vars
  BY <1>1
<1> QED BY MigrateInvariance, <1>2, PTL DEF Spec, RunsMoveForward
=============================================================================
