----------------------------- MODULE AccessLog -----------------------------
(***************************************************************************)
(* The access log of the subscription endpoint: handlers enqueue records    *)
(* without waiting, one goroutine writes them to the file, and the shutdown *)
(* flushes the queue within a deadline. (internal/subserver/access_log.go)  *)
(***************************************************************************)
EXTENDS Naturals, Sequences, FiniteSets

CONSTANTS Handlers,   \* requests that log one record each
          QueueSize   \* accessLogQueueSize

VARIABLES queue,      \* records on their way
          closed,     \* no record is taken any more
          fileOpen,
          written, dropped, late,  \* where records ended up
          broken,     \* those whose own write ended in an error
          failed,     \* those that met a closed file
          closer,     \* the shutdown's place in Sync
          expired     \* its context

vars == <<queue, closed, fileOpen, written, dropped, late, broken, failed, closer, expired>>

(* Records are in sets, the closing goroutine at one of its places.          *)
TypeOK ==
  /\ queue \in UNION {[1 .. n -> Handlers] : n \in 0 .. QueueSize}
  /\ closed \in BOOLEAN /\ fileOpen \in BOOLEAN /\ expired \in BOOLEAN
  /\ written \subseteq Handlers /\ dropped \subseteq Handlers
  /\ late \subseteq Handlers /\ broken \subseteq Handlers /\ failed \subseteq Handlers
  /\ closer \in {"idle", "wait", "cut", "close", "done"}

Init ==
  /\ queue = <<>> /\ closed = FALSE /\ fileOpen = TRUE
  /\ written = {} /\ dropped = {} /\ late = {} /\ broken = {} /\ failed = {}
  /\ closer = "idle" /\ expired = FALSE

Queued == {queue[i] : i \in DOMAIN queue}
Logged == Queued \cup written \cup dropped \cup late \cup broken \cup failed

Write(h) ==
  /\ h \notin Logged
  /\ IF closed
     THEN late' = late \cup {h} /\ UNCHANGED <<queue, dropped>>
     ELSE IF Len(queue) < QueueSize
     THEN queue' = Append(queue, h) /\ UNCHANGED <<late, dropped>>
     ELSE dropped' = dropped \cup {h} /\ UNCHANGED <<late, queue>>
  /\ UNCHANGED <<closed, fileOpen, written, broken, failed, closer, expired>>

(* The writer goroutine; it ends when the channel is closed and empty. An    *)
(* error of a write is noticed once, in a warning; the record is gone.       *)
WriteRecord ==
  /\ queue # <<>>
  /\ queue' = Tail(queue)
  /\ IF fileOpen
     THEN /\ \/ written' = written \cup {Head(queue)} /\ UNCHANGED broken
             \/ broken' = broken \cup {Head(queue)} /\ UNCHANGED written
          /\ UNCHANGED failed
     ELSE failed' = failed \cup {Head(queue)} /\ UNCHANGED <<written, broken>>
  /\ UNCHANGED <<closed, fileOpen, dropped, late, closer, expired>>

WriterEnded == closed /\ queue = <<>>

Sync ==
  /\ closer = "idle"
  /\ closed' = TRUE /\ closer' = "wait"
  /\ UNCHANGED <<queue, fileOpen, written, dropped, late, broken, failed, expired>>

(* The deadline closes the file under the writer, to make it end.            *)
CutOff ==
  /\ closer = "wait" /\ expired
  /\ fileOpen' = FALSE /\ closer' = "cut"
  /\ UNCHANGED <<queue, closed, written, dropped, late, broken, failed, expired>>

(* Mutant: the deadline ends the wait for the writer too. *)
FlushedAnyway ==
  /\ closer \in {"wait", "cut"} /\ (WriterEnded \/ closer = "cut")
  /\ closer' = IF closer = "wait" THEN "close" ELSE "done"
  /\ UNCHANGED <<queue, closed, fileOpen, written, dropped, late, broken, failed, expired>>

Flushed ==
  /\ closer \in {"wait", "cut"} /\ WriterEnded
  /\ closer' = IF closer = "wait" THEN "close" ELSE "done"
  /\ UNCHANGED <<queue, closed, fileOpen, written, dropped, late, broken, failed, expired>>

CloseFile ==
  /\ closer = "close"
  /\ fileOpen' = FALSE /\ closer' = "done"
  /\ UNCHANGED <<queue, closed, written, dropped, late, broken, failed, expired>>

Deadline ==
  /\ ~expired
  /\ expired' = TRUE
  /\ UNCHANGED <<queue, closed, fileOpen, written, dropped, late, broken, failed, closer>>

Next ==
  \/ \E h \in Handlers : Write(h)
  \/ WriteRecord \/ Sync \/ CutOff \/ Flushed \/ CloseFile \/ Deadline

Spec == Init /\ [][Next]_vars

-----------------------------------------------------------------------------
(* A shutdown that meets its deadline has handed every accepted record to the*)
(* open file, and loses only those whose own write failed there; one that    *)
(* does not still waits until the queue is empty (Sync, run).                *)
FlushedOnClose ==
  closer = "done" => queue = <<>> /\ (failed # {} => expired)
=============================================================================
