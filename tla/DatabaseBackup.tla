--------------------------- MODULE DatabaseBackup ---------------------------
(***************************************************************************)
(* The daily backup: checkpoint, copy, verification, publication and        *)
(* rotation, while the bot goes on committing and SQLite moves what is      *)
(* committed from the write-ahead log to the file that is being copied.     *)
(* (internal/backup/backup.go, internal/scheduler/backup.go)                *)
(*                                                                         *)
(* The database is as many pages as the copy reads in turn; a version is    *)
(* the number of commits it holds.                                          *)
(***************************************************************************)
EXTENDS Integers, FiniteSets, Sequences

CONSTANTS Pages,       \* number of reads that make a copy
          Keep,        \* BackupRetention
          MaxDays,     \* backups started in a behaviour
          MaxCommits

VARIABLES committed,   \* version of the log
          main,        \* version of the database's file
          stage,       \* where the backup's goroutine is
          temp,        \* the temporary copy: version of each page read so far
          began,       \* version committed when the backup began
          base,        \* the file .backup
          rotated,     \* the files .backup.<timestamp>
          days,
          published, everRotated   \* history: the last copy published, all rotated

vars == <<committed, main, stage, temp, began, base, rotated, days, published, everRotated>>
history == <<published, everRotated>>

Versions == 0 .. MaxCommits
NoFile == [day |-> 0, began |-> 0, pages |-> <<>>]
Files == [day : 0 .. MaxDays, began : Versions, pages : UNION {[1 .. k -> Versions] : k \in 0 .. Pages}]

Stages == {"idle", "checkpoint", "copy", "verify", "publish", "rotate", "prune"}

(* The files and the goroutine have their types.                             *)
TypeOK ==
  /\ committed \in Versions /\ main \in 0 .. committed
  /\ stage \in Stages
  /\ temp \in UNION {[1 .. k -> Versions] : k \in 0 .. Pages}
  /\ began \in 0 .. committed
  /\ base \in Files /\ published \in Files
  /\ rotated \subseteq Files /\ everRotated \subseteq Files
  /\ days \in 0 .. MaxDays

Init ==
  /\ committed = 0 /\ main = 0
  /\ stage = "idle" /\ temp = <<>> /\ began = 0
  /\ base = NoFile /\ rotated = {}
  /\ days = 0
  /\ published = NoFile /\ everRotated = {}

(* The backup ends; a temporary copy is removed, or renamed to .corrupt.     *)
End == stage' = "idle" /\ temp' = <<>> /\ began' = 0

-----------------------------------------------------------------------------
(* The bot and SQLite                                                        *)

Commit ==
  /\ committed < MaxCommits
  /\ committed' = committed + 1
  /\ UNCHANGED <<main, stage, temp, began, base, rotated, days, history>>

AutoCheckpoint ==
  /\ main < committed
  /\ main' = committed
  /\ UNCHANGED <<committed, stage, temp, began, base, rotated, days, history>>

-----------------------------------------------------------------------------
(* DailyBackup                                                               *)

Start ==
  /\ stage = "idle" /\ days < MaxDays
  /\ days' = days + 1
  /\ began' = committed
  /\ stage' = "checkpoint"
  /\ UNCHANGED <<committed, main, temp, base, rotated, history>>

(* Mutant: a checkpoint that was busy is taken for one that succeeded. *)
CheckpointIgnoringBusy ==
  /\ stage = "checkpoint"
  /\ main' \in {main, committed}
  /\ stage' = "copy"
  /\ UNCHANGED <<committed, temp, began, base, rotated, days, history>>

Checkpoint ==
  /\ stage = "checkpoint"
  /\ \/ main' = committed /\ stage' = "copy" /\ UNCHANGED <<temp, began>>
     \/ End /\ UNCHANGED main
  /\ UNCHANGED <<committed, base, rotated, days, history>>

Read ==
  /\ stage = "copy"
  /\ \/ /\ temp' = Append(temp, main)
        /\ stage' = IF Len(temp) + 1 = Pages THEN "verify" ELSE "copy"
        /\ UNCHANGED began
     \/ End
  /\ UNCHANGED <<committed, main, base, rotated, days, history>>

(* integrity_check need not notice that the pages are of two versions.       *)
Verify ==
  /\ stage = "verify"
  /\ \/ stage' = "publish" /\ UNCHANGED <<temp, began>>
     \/ End
  /\ UNCHANGED <<committed, main, base, rotated, days, history>>

Publish ==
  /\ stage = "publish"
  /\ \/ /\ base' = [day |-> days, began |-> began, pages |-> temp]
        /\ published' = base'
        /\ stage' = "rotate" /\ temp' = <<>> /\ began' = 0
     \/ End /\ UNCHANGED <<base, published>>
  /\ UNCHANGED <<committed, main, rotated, days, everRotated>>

Rotate ==
  /\ stage = "rotate"
  /\ \/ /\ rotated' = rotated \cup {base}
        /\ everRotated' = everRotated \cup {base}
        /\ base' = NoFile
        /\ stage' \in {"prune", "idle"}
     \/ stage' = "idle" /\ UNCHANGED <<rotated, everRotated, base>>
  /\ UNCHANGED <<committed, main, temp, began, days, published>>

Newest(files) == {f \in files : Cardinality({g \in files : g.day > f.day}) < Keep}

(* Mutant: the newest are removed, the oldest kept. *)
PruneNewest ==
  /\ stage = "prune"
  /\ \E gone \in SUBSET {f \in rotated : Cardinality({g \in rotated : g.day < f.day}) >= Keep} :
       rotated' = rotated \ gone
  /\ stage' = "idle"
  /\ UNCHANGED <<committed, main, temp, began, base, days, history>>

(* What cannot be removed is tried again after the next backup.              *)
Prune ==
  /\ stage = "prune"
  /\ \E gone \in SUBSET (rotated \ Newest(rotated)) : rotated' = rotated \ gone
  /\ stage' = "idle"
  /\ UNCHANGED <<committed, main, temp, began, base, days, history>>

(* The process restarts; what was committed is in the log and the file.      *)
Restart ==
  /\ stage # "idle"
  /\ End
  /\ UNCHANGED <<committed, main, base, rotated, days, history>>

Next == \/ Commit \/ AutoCheckpoint
        \/ Start \/ Checkpoint \/ Read \/ Verify \/ Publish \/ Rotate \/ Prune
        \/ Restart

Spec == Init /\ [][Next]_vars

-----------------------------------------------------------------------------
(* Properties                                                                *)

Complete(file) == \A p \in DOMAIN file.pages : file.pages[p] >= file.began

(* Whatever fails or restarts in between, the last copy that was published   *)
(* and the newest Keep of those rotated are on disk, and each holds all that *)
(* was committed when its backup began.                                      *)
RestoreLosesNothing ==
  /\ \A f \in rotated \cup {base} : Complete(f)
  /\ published # NoFile => published \in rotated \cup {base}
  /\ Newest(everRotated) \subseteq rotated

(* A copy is of one moment. It does not hold: a checkpoint may fall between  *)
(* two reads of the copy.                                                    *)
OneMoment == \A f \in rotated \cup {base} : \A p, q \in DOMAIN f.pages : f.pages[p] = f.pages[q]
=============================================================================
