------------------------------ MODULE Migrate ------------------------------
(***************************************************************************)
(* cmd/migrate: the program that brings the schema up to date, run by hand *)
(* or by several deployments at once, and killed at any point.             *)
(*                                                                         *)
(* File f of the directory has an up script, which creates what f is for,  *)
(* and a drop script.  Every script runs in a transaction of its own that  *)
(* first takes the EXCLUSIVE lock on app_migration; its statements, its    *)
(* row in app_migration and its COMMIT are one step, as PostgreSQL makes   *)
(* them visible.  What a script does is reduced to what makes it fail: an  *)
(* up script when its table exists or a table it refers to does not, a     *)
(* drop script when a table refers to its own.                             *)
(*                                                                         *)
(* Nothing keeps a run apart from one with --drop, which empties           *)
(* app_migration and drops every table in a transaction each: two history  *)
(* variables say what such a run spoils for another.                        *)
(*                                                                         *)
(* --pattern, --exclude and the "-- DB:" line only choose which files are  *)
(* in the list.                                                            *)
(***************************************************************************)
EXTENDS Integers

CONSTANTS N,            \* files, in the order of their names
          Refs,         \* file -> the files its table refers to
          Always,       \* the files named 0000-00...: run every time, never recorded
          Blank,        \* files without a statement
          Procs,        \* migrate processes
          Contents,     \* what a file may contain, told apart by its hash
          Disks,        \* what the directory of a run may hold
          Flags,        \* which of --drop and --reapply a run may be given
          Nil

Files == 1..N

ASSUME FilesAssumption ==
  /\ N \in Nat \ {0}
  /\ Refs \in [Files -> SUBSET Files]
  /\ Always \subseteq Files /\ Blank \subseteq Files
  /\ Disks \subseteq [Files -> Contents]
  /\ Flags \subseteq [drop : BOOLEAN, reapply : BOOLEAN]

Scripts == [kind : {"drop", "up"}, file : Files]
(* Position in the work list: N drop scripts backwards, N up scripts forwards. *)
ScriptAt(i) == IF i <= N THEN [kind |-> "drop", file |-> N + 1 - i]
               ELSE [kind |-> "up", file |-> i - N]

Run == [drop : BOOLEAN, reapply : BOOLEAN, disk : [Files -> Contents],
        pos : 1..(2 * N + 1), phase : {"setup", "next", "locked", "running"}]

ASSUME NilAssumption == Nil \notin Contents /\ Nil \notin Procs /\ Nil \notin Run

VARIABLES
  tables,    \* file -> the content its table was created from, or Nil
  recorded,  \* app_migration: script -> the hash it was recorded with, or Nil
  lock,      \* whose transaction holds app_migration
  run,       \* process -> its flags, its files and where it is, or Nil
  doomed,    \* history: files recorded while a run had yet to drop their table
  hit        \* history: runs beside which another one emptied app_migration
             \* or dropped a table

history == <<doomed, hit>>
vars == <<tables, recorded, lock, run, history>>

TypeOK ==
  /\ tables \in [Files -> Contents \cup {Nil}]
  /\ recorded \in [Scripts -> Contents \cup {Nil}]
  /\ lock \in Procs \cup {Nil}
  /\ run \in [Procs -> Run \cup {Nil}]
  /\ doomed \in SUBSET Files /\ hit \in SUBSET Procs
  /\ \A p \in Procs :
       run[p] # Nil /\ run[p].phase \in {"locked", "running"} => run[p].pos <= 2 * N

Init ==
  /\ tables = [f \in Files |-> Nil]
  /\ recorded = [s \in Scripts |-> Nil]
  /\ lock = Nil
  /\ run = [p \in Procs |-> Nil]
  /\ doomed = {} /\ hit = {}

-----------------------------------------------------------------------------

At(p, phase) == run[p] # Nil /\ run[p].phase = phase
MovedFurther(q, phase, pos) ==
  [drop |-> q.drop, reapply |-> q.reapply, disk |-> q.disk, pos |-> pos + 2, phase |-> phase]
Moved(q, phase, pos) ==
  [drop |-> q.drop, reapply |-> q.reapply, disk |-> q.disk, pos |-> pos, phase |-> phase]

(* Nobody looks for other runs: the Makefile's two targets, both with       *)
(* --drop, may overlap like any others.                                     *)
Start(p) ==
  /\ run[p] = Nil
  /\ \E flags \in Flags, disk \in Disks :
       run' = [run EXCEPT ![p] =
         [drop |-> flags.drop, reapply |-> flags.reapply, disk |-> disk,
          pos |-> IF flags.drop THEN 1 ELSE N + 1, phase |-> "setup"]]
  /\ UNCHANGED <<tables, recorded, lock, history>>

Others(p) == {q \in Procs \ {p} : run[q] # Nil}

(* CREATE TABLE IF NOT EXISTS app_migration, the lock, with --drop the      *)
(* DELETE of all its rows, and COMMIT.                                      *)
NotCleared(p) == recorded
Cleared(p) == IF run[p].drop THEN [s \in Scripts |-> Nil] ELSE recorded

Setup(p) ==
  /\ At(p, "setup")
  /\ lock = Nil
  /\ recorded' = Cleared(p)
  /\ doomed' = IF run[p].drop THEN {} ELSE doomed
  /\ hit' = IF run[p].drop THEN hit \cup Others(p) ELSE hit
  /\ run' = [run EXCEPT ![p] = Moved(@, "next", @.pos)]
  /\ UNCHANGED <<tables, lock>>

-----------------------------------------------------------------------------
(* RunSQLFile. *)

Script(p) == ScriptAt(run[p].pos)
Hash(p) == run[p].disk[Script(p).file]

AnyTime(p) == TRUE
LockFree(p) == lock = Nil

Lock(p) ==
  /\ At(p, "next") /\ run[p].pos <= 2 * N
  /\ LockFree(p)
  /\ lock' = p
  /\ run' = [run EXCEPT ![p] = Moved(@, "locked", @.pos)]
  /\ UNCHANGED <<tables, recorded, history>>

(* SELECT file_hash FROM app_migration: a file named 0000-00... is not asked *)
(* for.                                                                      *)
Seen(p) == IF Script(p).file \in Always THEN Nil ELSE recorded[Script(p)]
AnyRecorded(p) == Seen(p) # Nil
AlreadyApplied(p) == Seen(p) # Nil /\ Seen(p) = Hash(p)
Changed(p) == Seen(p) # Nil /\ Seen(p) # Hash(p)

Select(p) ==
  /\ At(p, "locked")
  /\ Seen(p) = Nil \/ (Changed(p) /\ run[p].reapply)
  /\ run' = [run EXCEPT ![p] = Moved(@, "running", @.pos)]
  /\ UNCHANGED <<tables, recorded, lock, history>>

(* Already applied, or nothing to run.  The function returns without COMMIT *)
(* or Rollback (err is nil, and the err of the SELECT is another variable): *)
(* the lock is held until the cancelled context ends the transaction.       *)
Skip(p) ==
  /\ \/ At(p, "locked") /\ AlreadyApplied(p)
     \/ At(p, "running") /\ Script(p).file \in Blank
  /\ run' = [run EXCEPT ![p] = Moved(@, "next", @.pos + 1)]
  /\ UNCHANGED <<tables, recorded, lock, history>>

NeverReleased(p) == FALSE /\ UNCHANGED vars
Release(p) ==
  /\ lock = p
  /\ run[p] # Nil => run[p].phase \in {"setup", "next"}
  /\ lock' = Nil
  /\ UNCHANGED <<tables, recorded, run, history>>

(* Do the statements of the script succeed? *)
Succeeds(s) ==
  IF s.kind = "drop" THEN \A g \in Files : tables[g] # Nil => s.file \notin Refs[g]
  ELSE /\ s.file \in Always \/ tables[s.file] = Nil
       /\ \A d \in Refs[s.file] : tables[d] # Nil

(* A run has emptied app_migration and not yet come to its drop script of f. *)
DropAhead(f) ==
  \E q \in Procs : run[q] # Nil /\ run[q].phase # "setup" /\ run[q].pos <= N + 1 - f

(* The statements, INSERT INTO app_migration, and COMMIT. *)
Apply(p) ==
  /\ At(p, "running")
  /\ Script(p).file \notin Blank
  /\ Succeeds(Script(p))
  /\ Seen(p) = Nil
  /\ tables' = [tables EXCEPT ![Script(p).file] =
                  IF Script(p).kind = "drop" THEN Nil ELSE Hash(p)]
  /\ recorded' = IF Script(p).file \in Always THEN recorded
                 ELSE [recorded EXCEPT ![Script(p)] = Hash(p)]
  /\ doomed' = IF recorded' # recorded /\ Script(p).kind = "up" /\ DropAhead(Script(p).file)
               THEN doomed \cup {Script(p).file} ELSE doomed
  /\ hit' = IF Script(p).kind = "drop" THEN hit \cup Others(p) ELSE hit
  /\ lock' = Nil
  /\ run' = [run EXCEPT ![p] = Moved(@, "next", @.pos + 1)]

(* os.Exit(1): PostgreSQL rolls the transaction back. *)
Exit(p) ==
  /\ run' = [run EXCEPT ![p] = Nil]
  /\ lock' = IF lock = p THEN Nil ELSE lock
  /\ hit' = hit \ {p}
  /\ UNCHANGED <<tables, recorded, doomed>>

(* A recorded file has changed, or a statement fails. *)
Fail(p) ==
  /\ \/ At(p, "locked") /\ Changed(p) /\ ~ run[p].reapply
     \/ /\ At(p, "running")
        /\ Script(p).file \notin Blank /\ ~ Succeeds(Script(p))
  /\ Exit(p)

(* With --reapply the statements of a changed file run again; then the      *)
(* INSERT meets the row that made it a changed file, as filename is the     *)
(* primary key.  (Here it does so whether or not they succeed; in fact the  *)
(* rows of the SELECT are still open, their Close deferred, and lib/pq lets *)
(* already the first statement fail.)                                       *)
Reapply(p) ==
  /\ At(p, "running")
  /\ Script(p).file \notin Blank
  /\ Changed(p)
  /\ Exit(p)

Finish(p) ==
  /\ At(p, "next") /\ run[p].pos = 2 * N + 1
  /\ Exit(p)

(* Killed, disconnected, timed out, a file that cannot be read. *)
Crash(p) == run[p] # Nil /\ Exit(p)

-----------------------------------------------------------------------------

Proceeds(p) ==
  \/ Setup(p) \/ Lock(p) \/ Select(p) \/ Skip(p)
  \/ Apply(p) \/ Fail(p) \/ Reapply(p) \/ Finish(p)

Next == \E p \in Procs : Start(p) \/ Proceeds(p) \/ Release(p) \/ Crash(p)

Spec == Init /\ [][Next]_vars

(* The process goes on, PostgreSQL hands the table lock to its waiters in   *)
(* turn (hence strong fairness), and a cancelled transaction is rolled back.*)
FairSpec ==
  Spec /\ \A p \in Procs : SF_vars(Proceeds(p)) /\ WF_vars(Release(p))

-----------------------------------------------------------------------------
(* Properties. *)

(* What app_migration says is so, whatever runs overlapped or were killed: a *)
(* recorded up script's table exists and has the recorded content.  The one  *)
(* exception is a file recorded between the moment a --drop run has emptied  *)
(* app_migration and its drop script of that file, which then drops the      *)
(* table and leaves the row, until another --drop empties the records.       *)
RecordedIsApplied ==
  \A f \in Files \ doomed :
    recorded[[kind |-> "up", file |-> f]] # Nil
    => tables[f] = recorded[[kind |-> "up", file |-> f]]

(* What the SELECT saw is still so at the INSERT, although other runs work   *)
(* on the same files: no run redoes what another one has just done.          *)
SelectStillHolds ==
  \A p \in Procs :
    At(p, "running") /\ ~ run[p].reapply => Seen(p) = Nil

(* "Migration completed successfully": when a run ends that way, every file *)
(* of its directory has been applied with the content it has there, by this *)
(* run or by another one, and no changed file was passed over.  A file lost *)
(* as above is passed over with success, also by the run that dropped it    *)
(* and by every later one without --drop; and what another run's --drop has *)
(* undone is left to that run.                                              *)
CompletedMeansMigrated ==
  [][\A p \in Procs :
       Finish(p) /\ p \notin hit =>
         \A f \in Files \ (Blank \cup doomed) : tables[f] \in Contents
           /\ (f \notin Always => tables[f] = run[p].disk[f])]_vars

(* A run ends, also when another one or its own last transaction, which     *)
(* nobody rolled back, holds the lock.                                      *)
EveryRunEnds == \A p \in Procs : run[p] # Nil ~> run[p] = Nil

(* The help text of --reapply: "Reapply changed migrations".                *)
ChangedIsReapplied ==
  [][\A p \in Procs : Reapply(p) => recorded'[Script(p)] = Hash(p)]_vars
=============================================================================
