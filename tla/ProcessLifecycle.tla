-------------------------- MODULE ProcessLifecycle --------------------------
(***************************************************************************)
(* The process: its startup, the loop over Telegram's updates, the          *)
(* supervised workers, and the graceful shutdown. (cmd/bot/main.go,         *)
(* lifecycle.go, supervisor.go; internal/bot/handler.go)                    *)
(***************************************************************************)
EXTENDS Naturals

CONSTANTS Workers,       \* of startBackgroundWorkers
          MaxHandlers,   \* MaxConcurrentHandlers
          MaxBackoff,    \* doublings from the initial delay to the longest one
          MaxUpdates,    \* updates received in a behaviour
          MaxPanics,     \* panics of workers in a behaviour
          MaxLaunches    \* goroutines started by handlers in a behaviour

VARIABLES phase,      \* where main is
          cancelled,  \* the signal's context
          held,       \* the loop has an update and waits for a slot
          handlers,   \* updates being handled
          worker, backoff,
          background, \* goroutines of the handler's bgWg
          web,        \* what the web server accepts
          updates, panics, launches

vars == <<phase, cancelled, held, handlers, worker, backoff, background, web,
          updates, panics, launches>>
counts == <<updates, panics, launches>>

Phases == {"wire", "connect", "start", "loop", "drain", "workers", "background", "close", "exited"}

(* The process's parts have their types.                                     *)
TypeOK ==
  /\ phase \in Phases /\ cancelled \in BOOLEAN /\ held \in BOOLEAN
  /\ handlers \in 0 .. MaxHandlers
  /\ worker \in [Workers -> {"none", "running", "crashed", "ended"}]
  /\ backoff \in [Workers -> 0 .. MaxBackoff]
  /\ background \in 0 .. MaxLaunches + 1
  /\ web \in {"off", "serving", "ready"}
  /\ updates \in Nat /\ panics \in Nat /\ launches \in Nat

Init ==
  /\ phase \in {"wire", "exited"}   \* started, or not
  /\ cancelled = FALSE /\ held = FALSE /\ handlers = 0
  /\ worker = [w \in Workers |-> "none"] /\ backoff = [w \in Workers |-> 0]
  /\ background = 0 /\ web = "off"
  /\ updates = 0 /\ panics = 0 /\ launches = 0

-----------------------------------------------------------------------------
(* main: the web server first, then the bot, then the workers                *)

Exit == phase' = "exited"

StartWebServer ==
  /\ phase = "wire"
  /\ \/ phase' = "connect" /\ web' = "serving"
     \/ Exit /\ UNCHANGED web
  /\ UNCHANGED <<cancelled, held, handlers, worker, backoff, background, counts>>

InitBot ==
  /\ phase = "connect"
  /\ phase' = "start" \/ Exit
  /\ UNCHANGED <<cancelled, held, handlers, worker, backoff, background, web, counts>>

(* The handler's own goroutines count as one.                                *)
StartWorkers ==
  /\ phase = "start"
  /\ phase' = "loop"
  /\ worker' = [w \in Workers |-> "running"]
  /\ background' = 1
  /\ web' = "ready"
  /\ UNCHANGED <<cancelled, held, handlers, backoff, counts>>

Signal ==
  /\ phase \notin {"wire", "connect", "exited"} /\ ~cancelled
  /\ cancelled' = TRUE
  /\ UNCHANGED <<phase, held, handlers, worker, backoff, background, web, counts>>

-----------------------------------------------------------------------------
(* runEventLoop                                                              *)

TakeUpdate ==
  /\ phase = "loop" /\ ~held /\ updates < MaxUpdates
  /\ held' = TRUE /\ updates' = updates + 1
  /\ UNCHANGED <<phase, cancelled, handlers, worker, backoff, background, web, panics, launches>>

Dispatch ==
  /\ phase = "loop" /\ held /\ handlers < MaxHandlers
  /\ held' = FALSE /\ handlers' = handlers + 1
  /\ UNCHANGED <<phase, cancelled, worker, backoff, background, web, counts>>

(* An update that waits for a slot is dropped. Only the loop's end closes    *)
(* the channel of the updates.                                               *)
LeaveLoop ==
  /\ phase = "loop" /\ cancelled
  /\ phase' = "drain" /\ held' = FALSE
  /\ UNCHANGED <<cancelled, handlers, worker, backoff, background, web, counts>>

(* A handler that panics ends as well.                                       *)
HandlerEnds ==
  /\ handlers > 0
  /\ handlers' = handlers - 1
  /\ UNCHANGED <<phase, cancelled, held, worker, backoff, background, web, counts>>

(* Launching a broadcast.                                                    *)
HandlerLaunches ==
  /\ handlers > 0 /\ launches < MaxLaunches
  /\ launches' = launches + 1 /\ background' = background + 1
  /\ UNCHANGED <<phase, cancelled, held, handlers, worker, backoff, web, updates, panics>>

BackgroundEnds ==
  /\ background > 0 /\ cancelled
  /\ background' = background - 1
  /\ UNCHANGED <<phase, cancelled, held, handlers, worker, backoff, web, counts>>

-----------------------------------------------------------------------------
(* runSupervised                                                             *)

Panic(w) ==
  /\ worker[w] = "running" /\ panics < MaxPanics
  /\ panics' = panics + 1
  /\ worker' = [worker EXCEPT ![w] = IF cancelled THEN "ended" ELSE "crashed"]
  /\ \E long \in BOOLEAN : backoff' = [backoff EXCEPT ![w] = IF long THEN 0 ELSE @]
  /\ UNCHANGED <<phase, cancelled, held, handlers, background, web, updates, launches>>

(* Mutant: a panic is recovered from, and the goroutine returns. *)
RecoverOnly(w) ==
  /\ worker[w] = "crashed" /\ cancelled
  /\ worker' = [worker EXCEPT ![w] = "ended"]
  /\ UNCHANGED <<phase, cancelled, held, handlers, backoff, background, web, counts>>

Restart(w) ==
  /\ worker[w] = "crashed"
  /\ \/ /\ cancelled
        /\ worker' = [worker EXCEPT ![w] = "ended"]
        /\ UNCHANGED backoff
     \/ /\ worker' = [worker EXCEPT ![w] = "running"]
        /\ backoff' = [backoff EXCEPT ![w] = IF @ = MaxBackoff THEN @ ELSE @ + 1]
  /\ UNCHANGED <<phase, cancelled, held, handlers, background, web, counts>>

WorkerEnds(w) ==
  /\ worker[w] = "running" /\ cancelled
  /\ worker' = [worker EXCEPT ![w] = "ended"]
  /\ UNCHANGED <<phase, cancelled, held, handlers, backoff, background, web, counts>>

-----------------------------------------------------------------------------
(* Shutdown: each wait but the last ends after ShutdownTimeout               *)

AwaitHandlers ==
  /\ phase = "drain"
  /\ phase' = "workers"
  /\ UNCHANGED <<cancelled, held, handlers, worker, backoff, background, web, counts>>

AwaitWorkers ==
  /\ phase = "workers"
  /\ phase' = "background"
  /\ UNCHANGED <<cancelled, held, handlers, worker, backoff, background, web, counts>>

AwaitBackground ==
  /\ phase = "background" /\ background = 0
  /\ phase' = "close"
  /\ UNCHANGED <<cancelled, held, handlers, worker, backoff, background, web, counts>>

(* The deferred calls: the web server, the panels' clients, the database.    *)
Close ==
  /\ phase = "close"
  /\ web' = "off"
  /\ Exit
  /\ UNCHANGED <<cancelled, held, handlers, worker, backoff, background, counts>>

Main == \/ StartWebServer \/ InitBot \/ StartWorkers \/ LeaveLoop
        \/ AwaitHandlers \/ AwaitWorkers \/ AwaitBackground \/ Close
Loop == TakeUpdate \/ Dispatch
Handle == HandlerEnds \/ HandlerLaunches

Next == /\ phase # "exited"
        /\ \/ Main \/ Loop \/ Handle \/ Signal \/ BackgroundEnds
           \/ \E w \in Workers : Panic(w) \/ Restart(w) \/ WorkerEnds(w)

Spec == Init /\ [][Next]_vars

(* main and the backoff timers run on; once the context is cancelled the     *)
(* handler's goroutines end. Update handlers and workers may hang.           *)
Fairness == /\ WF_vars(Main)
            /\ WF_vars(BackgroundEnds)
            /\ \A w \in Workers : WF_vars(phase # "exited" /\ Restart(w))

FairSpec == Spec /\ Fairness

-----------------------------------------------------------------------------
(* Properties                                                                *)

(* A worker that panicked runs again unless the process is told to stop, and *)
(* the process then stops, whatever handlers and workers hang.               *)
WorksUntilStopped ==
  /\ \A w \in Workers : []<>(worker[w] # "crashed" \/ cancelled)
  /\ []<>(cancelled => phase = "exited")
=============================================================================
