------------------------------ MODULE Backups ------------------------------
(***************************************************************************)
(* Backup copies of the database (backups/): a dump runs in a child        *)
(* process that writes a file under a temporary name, which is renamed     *)
(* when the dump is whole; a row tells how each run went; after a success  *)
(* old copies are removed.  The process may stop at any step, and the      *)
(* database may be restored from a copy while it is stopped.               *)
(*                                                                         *)
(* Copies are numbered in the order of their names, which are times.  The  *)
(* clock counts ticks, Day of them a day and Month a month.                *)
(***************************************************************************)
EXTENDS Nothing, Integers, FiniteSets

CONSTANTS
  Copies,       \* numbers of runs and of their files
  Day, Month,   \* ticks in a day and in a month
  LastTick,     \* the last tick there is
  CatchUp, Stale, KeepDaily, KeepMonths, ManualDays,
  Container     \* whether pg_dump runs in a container and is piped to a file

Kinds == {"scheduled", "manual", "pre_restore"}

FileRows == [id : Copies, kind : Kinds, at : 0..LastTick, whole : BOOLEAN]

RunRows ==
  [kind : Kinds, status : {"running", "succeeded", "failed"},
   finishedAt : 0..LastTick \cup {None}]

ChildRows ==
  [exited : BOOLEAN, ok : BOOLEAN, flushed : BOOLEAN, drained : BOOLEAN,
   writeFailed : BOOLEAN, timedOut : BOOLEAN, settled : BOOLEAN]

CopyRows ==
  [id : Copies, kind : Kinds, at : 0..LastTick, child : ChildRows,
   stage : {"creating", "dumping", "renamed", "retaining"}]

ASSUME BackupsAssumption ==
  /\ Copies \subseteq Nat
  /\ {Day, Month, KeepDaily} \subseteq Nat \ {0}
  /\ {LastTick, CatchUp, Stale, KeepMonths, ManualDays} \subseteq Nat
  /\ Container \in BOOLEAN
  /\ None \notin RunRows \cup CopyRows \cup 0..LastTick

VARIABLES
  clock,
  process,   \* "down", "starting" or "up"
  run,       \* copy -> its BackupRun row, or None
  files,     \* the copies in the folder: [id, kind, at, whole]
  copy,      \* the run this process is busy with, or None
  ending     \* failed runs whose row is being written

backupVars == <<clock, process, run, files, copy, ending>>

running == copy # None

At(stage) == copy # None /\ copy.stage = stage

Step(stage) == copy' = [copy EXCEPT !.stage = stage]

-----------------------------------------------------------------------------
(* ProcessRunner.run: the child exits, its output is flushed, and only     *)
(* then does the run settle; after the time limit the child is told to     *)
(* stop and is not waited for longer than the grace.                       *)

started ==
  [exited |-> FALSE, ok |-> FALSE, flushed |-> ~Container, drained |-> FALSE,
   writeFailed |-> FALSE, timedOut |-> FALSE, settled |-> FALSE]

(* Mutant of maybeFinish: the exit of pg_dump is taken for the end of the  *)
(* file.                                                                   *)
finishOnExit(child) == [child EXCEPT !.settled = child.exited]

maybeFinish(child) == [child EXCEPT !.settled = child.exited /\ child.flushed]

(* A dump that fails or is stopped exits with another code than 0.         *)
onClose(child) ==
  {maybeFinish([child EXCEPT !.exited = TRUE, !.ok = ok]) : ok \in BOOLEAN}

(* The stream ends when the child closes it, with all of it in the file.   *)
onFlush(child) ==
  {maybeFinish([child EXCEPT !.flushed = TRUE, !.drained = TRUE])}

onWriteError(child) ==
  {maybeFinish([child EXCEPT !.flushed = TRUE, !.writeFailed = TRUE])}

onTimer(child) == {[child EXCEPT !.timedOut = TRUE]}

onGrace(child) ==
  IF child.timedOut THEN {[child EXCEPT !.settled = TRUE, !.ok = FALSE]}
  ELSE {}

onSpawnError(child) ==
  IF child.exited THEN {} ELSE {[child EXCEPT !.settled = TRUE]}

childEvents(child) ==
  (IF child.exited THEN {} ELSE onClose(child))
    \cup (IF child.flushed THEN {} ELSE onFlush(child) \cup onWriteError(child))
    \cup (IF child.timedOut THEN onGrace(child) ELSE onTimer(child))
    \cup onSpawnError(child)

exitedWell(child) == child.ok /\ ~child.writeFailed /\ ~child.timedOut

(* What the file holds: all that a dump that went well had to write.       *)
isWhole(child) == child.ok /\ (Container => child.drained)

-----------------------------------------------------------------------------
(* filesToDelete                                                           *)

scheduled == {f \in files : f.kind = "scheduled"}

monthWhen(f) == f.at \div Month

newer(f) == {g \in scheduled : g.id > f.id}

newestOfMonth(f) == \A g \in newer(f) : monthWhen(g) # monthWhen(f)

laterMonths(f) == {monthWhen(g) : g \in scheduled} \cap (monthWhen(f)+1)..LastTick

(* Mutant of kept: the copies of earlier months are forgotten.             *)
keptDaily(f) == Cardinality(newer(f)) < KeepDaily

kept(f) ==
  \/ Cardinality(newer(f)) < KeepDaily
  \/ newestOfMonth(f) /\ Cardinality(laterMonths(f)) < KeepMonths

filesToDelete ==
  {f \in scheduled : ~kept(f)}
    \cup {f \in files : /\ f.kind = "manual"
                        /\ f.at \div Day < clock \div Day - ManualDays}

-----------------------------------------------------------------------------
(* BackupsService.create                                                   *)

create(id, kind) ==
  /\ ~running
  /\ run[id] = None /\ \A f \in files : f.id < id
  /\ copy' = [id |-> id, kind |-> kind, at |-> clock, stage |-> "creating",
              child |-> started]

Manual(id) ==
  /\ process # "down"
  /\ create(id, "manual")
  /\ UNCHANGED <<clock, process, run, files, ending>>

handleDailyBackup(id) ==
  /\ process # "down"
  /\ create(id, "scheduled")
  /\ UNCHANGED <<clock, process, run, files, ending>>

runRow(status, finished) ==
  [kind |-> copy.kind, status |-> status, finishedAt |-> finished]

Insert ==
  /\ At("creating")
  /\ run' = [run EXCEPT ![copy.id] = runRow("running", None)]
  /\ Step("dumping")
  /\ UNCHANGED <<clock, process, files, ending>>

(* The row cannot be written: there is no run.                             *)
InsertFails ==
  /\ At("creating")
  /\ copy' = None
  /\ UNCHANGED <<clock, process, run, files, ending>>

Dump ==
  /\ At("dumping") /\ ~copy.child.settled
  /\ \E child \in childEvents(copy.child) : copy' = [copy EXCEPT !.child = child]
  /\ UNCHANGED <<clock, process, run, files, ending>>

(* The next request is let in before the row says that this run failed.    *)
DumpFails ==
  /\ \/ At("dumping") /\ copy.child.settled
     \/ At("renamed")
  /\ ending' = ending \cup {copy.id}
  /\ copy' = None
  /\ UNCHANGED <<clock, process, run, files>>

Rename ==
  /\ At("dumping") /\ copy.child.settled
  /\ exitedWell(copy.child)
  /\ files' = files \cup
       {[id |-> copy.id, kind |-> copy.kind, at |-> copy.at,
         whole |-> isWhole(copy.child)]}
  /\ copy' = [copy EXCEPT !.stage = "renamed", !.child = started]
  /\ UNCHANGED <<clock, process, run, ending>>

FinishSucceeded ==
  /\ At("renamed")
  /\ run' = [run EXCEPT ![copy.id] = runRow("succeeded", clock)]
  /\ Step("retaining")
  /\ UNCHANGED <<clock, process, files, ending>>

(* A file that cannot be removed is left for the next time.                *)
applyRetention ==
  /\ At("retaining")
  /\ \E removed \in SUBSET filesToDelete : files' = files \ removed
  /\ copy' = None
  /\ UNCHANGED <<clock, process, run, ending>>

FinishFailed(id) ==
  /\ id \in ending
  /\ run' = [run EXCEPT ![id] = [@ EXCEPT !.status = "failed",
                                          !.finishedAt = clock]]
  /\ ending' = ending \ {id}
  /\ UNCHANGED <<clock, process, files, copy>>

FinishLost(id) ==
  /\ id \in ending
  /\ ending' = ending \ {id}
  /\ UNCHANGED <<clock, process, run, files, copy>>

-----------------------------------------------------------------------------
(* The process stops, starts (onModuleInit), catches up with a copy that   *)
(* is due (onApplicationBootstrap), and the database is restored while it  *)
(* is stopped (scripts/backup-restore.ts): a safety copy is made, and the  *)
(* rows of the runs are not part of a copy.                                *)

succeeded == {id \in Copies : run[id] # None /\ run[id].status = "succeeded"}

lastSuccess == {id \in succeeded : \A i \in succeeded : i <= id}

Stop ==
  /\ process # "down"
  /\ process' = "down"
  /\ copy' = None /\ ending' = {}
  /\ UNCHANGED <<clock, run, files>>

onModuleInit ==
  /\ process = "down"
  /\ process' = "starting"
  /\ run' = [id \in Copies |->
       IF run[id] # None /\ run[id].status = "running"
       THEN [run[id] EXCEPT !.status = "failed", !.finishedAt = clock]
       ELSE run[id]]
  /\ UNCHANGED <<clock, files, copy, ending>>

catchUp(id) ==
  /\ process = "starting"
  /\ process' = "up"
  /\ IF running \/ \E i \in lastSuccess : clock - run[i].finishedAt < CatchUp
     THEN UNCHANGED copy
     ELSE create(id, "scheduled")
  /\ UNCHANGED <<clock, run, files, ending>>

restore(id) ==
  /\ process = "down"
  /\ run[id] = None /\ \A f \in files : f.id < id
  /\ \E f \in files : f.kind # "pre_restore"
  /\ files' = files \cup
       {[id |-> id, kind |-> "pre_restore", at |-> clock, whole |-> TRUE]}
  /\ run' = [i \in Copies |-> None]
  /\ UNCHANGED <<clock, process, copy, ending>>

(* A run takes minutes and a tick is hours.                                *)
Tick ==
  /\ clock < LastTick
  /\ ~running /\ ending = {}
  /\ clock' = clock + 1
  /\ UNCHANGED <<process, run, files, copy, ending>>

-----------------------------------------------------------------------------
(* BackupsService.status                                                   *)

finished == {id \in Copies : run[id] # None /\ run[id].status # "running"}

lastRun == {id \in finished : \A i \in finished : i <= id}

stale ==
  \/ lastSuccess = {}
  \/ \E id \in lastSuccess : clock - run[id].finishedAt > Stale
  \/ \E id \in lastRun : run[id].status = "failed"

BackupsInit ==
  /\ clock = 0
  /\ process = "down"
  /\ run = [id \in Copies |-> None]
  /\ files = {}
  /\ copy = None
  /\ ending = {}

BackupsNext ==
  \/ \E id \in Copies : \/ Manual(id) \/ handleDailyBackup(id) \/ catchUp(id)
                        \/ FinishFailed(id) \/ FinishLost(id) \/ restore(id)
  \/ Insert \/ InsertFails \/ Dump \/ DumpFails \/ Rename
  \/ FinishSucceeded \/ applyRetention
  \/ Stop \/ onModuleInit \/ Tick

BackupsSpec == BackupsInit /\ [][BackupsNext]_backupVars

-----------------------------------------------------------------------------
(* The variables have their types.                                         *)
BackupsTypeOK ==
  /\ clock \in 0..LastTick
  /\ process \in {"down", "starting", "up"}
  /\ run \in [Copies -> RunRows \cup {None}]
  /\ files \subseteq FileRows
  /\ copy \in CopyRows \cup {None}
  /\ ending \subseteq Copies

(* A file that carries the name of a copy holds all of it, whatever went   *)
(* wrong with the child, the stream, the clock or the process.             *)
CopiesAreWhole == \A f \in files : f.whole

(* When the status says that copies are fresh, the folder holds a copy     *)
(* made within the time the status promises.                               *)
FreshMeansCopy ==
  ~stale => \E f \in files : f.whole /\ clock - f.at <= Stale

(* Retention never removes the last scheduled copy of one of the latest    *)
(* months that had one.                                                    *)
MonthsAreKept ==
  \A id \in succeeded : run[id].kind = "scheduled" =>
    LET month == run[id].finishedAt \div Month IN
      \/ \E f \in scheduled : monthWhen(f) = month
      \/ Cardinality({monthWhen(f) : f \in scheduled} \cap (month+1)..LastTick)
           >= KeepMonths

(* There is a copy where one is promised: a fresh one when the status says *)
(* so, and one of each month that retention keeps.                         *)
CopiesAreKept == FreshMeansCopy /\ MonthsAreKept

=============================================================================
