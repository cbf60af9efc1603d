----------------------------- MODULE TaskRunner -----------------------------
(***************************************************************************)
(* The service mode of the connector: connectorRunner.run                  *)
(* (SDK/connectorrunner/runner.go) takes a slot of a semaphore, asks the   *)
(* task manager (SDK/tasks/c1api/manager.go) for a task and hands it to a  *)
(* goroutine, which gives the slot back.                                   *)
(*                                                                         *)
(* Every access to the semaphore is an action.  A goroutine's write of     *)
(* stopForLoop is taken with the Release that follows it: the loop reads   *)
(* the variable unsynchronised, but a read that misses the write is one    *)
(* that happens before both, and the semaphore's mutex publishes it.       *)
(* Times are left out: the loop may wake at any moment, after a poll       *)
(* interval or a back-off.                                                 *)
(***************************************************************************)
EXTENDS Naturals, FiniteSets

CONSTANTS
  Tasks,      \* the tasks the service may hand out, and Hello
  Hello,      \* the task that the manager queues for itself at its start
  Slots       \* taskConcurrency

ASSUME RunnerAssumption ==
  /\ IsFiniteSet(Tasks)
  /\ Hello \in Tasks
  /\ Slots \in Nat \ {0}

VARIABLES
  loop,       \* where run stands; "returned" and "crashed" are its ends
  held,       \* sem.cur
  running,    \* the tasks whose goroutines run
  greeted,    \* the manager's "started": Hello was queued and taken
  cancelled,  \* the context is done: the process was interrupted
  stopping    \* stopForLoop

runner == <<loop, held, running, greeted, cancelled, stopping>>

Over == loop \in {"returned", "crashed"}

RunnerInit ==
  /\ loop = "wait"
  /\ held = 0
  /\ running = {}
  /\ greeted = FALSE
  /\ cancelled = FALSE
  /\ stopping = FALSE

\* The condition of the for loop.
Around == IF stopping THEN "returned" ELSE "wait"

\* The semaphore panics when more is released than held: the process dies.
Release(then) ==
  IF held > 0
    THEN held' = held - 1 /\ loop' = then
    ELSE held' = held /\ loop' = "crashed"

Wake ==
  /\ loop = "wait"
  /\ loop' = "acquire"
  /\ UNCHANGED <<held, running, greeted, cancelled, stopping>>

SeeCancel ==
  /\ loop = "wait"
  /\ cancelled
  /\ loop' = "returned"
  /\ UNCHANGED <<held, running, greeted, cancelled, stopping>>

AcquireAnyway ==   \* mutant: the semaphore does not limit
  /\ loop = "acquire"
  /\ ~cancelled
  /\ held' = held + 1
  /\ loop' = "next"
  /\ UNCHANGED <<running, greeted, cancelled, stopping>>

Acquire ==
  /\ loop = "acquire"
  /\ ~cancelled
  /\ held < Slots
  /\ held' = held + 1
  /\ loop' = "next"
  /\ UNCHANGED <<running, greeted, cancelled, stopping>>

AcquireRetries ==   \* mutant: the loop goes on after a failed Acquire
  /\ loop = "acquire"
  /\ cancelled
  /\ loop' = "wait"
  /\ UNCHANGED <<held, running, greeted, cancelled, stopping>>

(* Acquire fails, in the queue too, when the context is done.  It then     *)
(* holds nothing, but run releases a slot all the same.                    *)
AcquireFails ==
  /\ loop = "acquire"
  /\ cancelled
  /\ Release("returned")
  /\ UNCHANGED <<running, greeted, cancelled, stopping>>

NextEmptyLeaks ==   \* mutant: the slot is kept
  /\ loop = "next"
  /\ greeted
  /\ loop' = Around
  /\ UNCHANGED <<held, running, greeted, cancelled, stopping>>

(* Next fails or has no task; the queued Hello needs no request.           *)
NextEmpty ==
  /\ loop = "next"
  /\ greeted
  /\ Release(Around)
  /\ UNCHANGED <<running, greeted, cancelled, stopping>>

(* Next hands out Hello once, then what the service offers; the goroutine  *)
(* takes over the slot.                                                    *)
NextTask(t) ==
  /\ loop = "next"
  /\ IF greeted THEN t \in Tasks \ ({Hello} \union running) ELSE t = Hello
  /\ running' = running \union {t}
  /\ greeted' = TRUE
  /\ loop' = Around
  /\ UNCHANGED <<held, cancelled, stopping>>

(* A goroutine ends.  The error of a closing connection stops the loop.    *)
Finish(t, closing) ==
  /\ t \in running
  /\ loop # "crashed"
  /\ running' = running \ {t}
  /\ stopping' = (stopping \/ closing)
  /\ Release(loop)
  /\ UNCHANGED <<greeted, cancelled>>

Cancel ==
  /\ ~Over
  /\ ~cancelled
  /\ cancelled' = TRUE
  /\ UNCHANGED <<loop, held, running, greeted, stopping>>

(* run has returned and main ends, whatever the goroutines do, or the      *)
(* process died; whoever keeps the service up starts it again.             *)
Restart ==
  /\ Over
  /\ loop' = "wait"
  /\ held' = 0
  /\ running' = {}
  /\ greeted' = FALSE
  /\ cancelled' = FALSE
  /\ stopping' = FALSE

\* What the loop does by itself, the tasks it takes apart.
Poll == Wake \/ SeeCancel \/ Acquire \/ AcquireFails \/ NextEmpty

-----------------------------------------------------------------------------
(* Properties *)

RunnerTypeOK ==
  /\ loop \in {"wait", "acquire", "next", "returned", "crashed"}
  /\ held \in 0 .. Slots
  /\ running \subseteq Tasks
  /\ greeted \in BOOLEAN
  /\ cancelled \in BOOLEAN
  /\ stopping \in BOOLEAN

(* While the loop runs, the slots taken are the running goroutines' and,   *)
(* while it asks for a task, its own: no path through Next loses one or    *)
(* gives one back twice, and a claimed task never waits for a slot         *)
(* (runner.go:141-203).  The slot that a failed Acquire gives back too     *)
(* much can kill the process only after an interrupt.                      *)
SlotsAccounted ==
  /\ ~Over => held = Cardinality(running) + (IF loop = "next" THEN 1 ELSE 0)
  /\ loop = "crashed" => cancelled

(* The service goes on asking for work, whatever its tasks and its polls   *)
(* come to (runner.go:141-203).                                            *)
PollsOn == []<>(loop = "next")
=============================================================================
