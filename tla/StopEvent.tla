----------------------------- MODULE StopEvent ------------------------------
(***************************************************************************)
(* How SIGTERM and SIGINT reach a sleeping daemon: SystemClock.sleep waits *)
(* on a threading.Event, and the signal handler sets it.  Both run in the  *)
(* main thread.  CPython runs a handler between two bytecodes of whatever  *)
(* the thread executes, on top of it, and the code below resumes only when *)
(* the handler has returned.  Event guards its flag with a Condition over  *)
(* a lock that is not reentrant.                                           *)
(***************************************************************************)
EXTENDS Naturals, Sequences

CONSTANT MaxSignals   \* bound: signals delivered in a behaviour

ASSUME SignalAssumption == MaxSignals \in Nat

VARIABLES
    main,      \* the main thread's position in run() and Event.wait
    handlers,  \* the handlers on top of it, the innermost last
    locked,    \* whether the Event's lock is taken
    flag,      \* the Event's flag
    waiter,    \* the lock wait() blocks on: "none", "taken" or "released"
    gotit,     \* what wait() is going to return
    signals    \* signals delivered so far

vars == <<main, handlers, locked, flag, waiter, gotit, signals>>

Init ==
    /\ main = "cycle"
    /\ handlers = <<>>
    /\ locked = FALSE /\ flag = FALSE /\ waiter = "none" /\ gotit = FALSE
    /\ signals = 0

(* The main thread executes its own code only under no handler. *)
Main(here, there) == handlers = <<>> /\ main = here /\ main' = there

-----------------------------------------------------------------------------
(* Daemon.run and SystemClock.sleep *)

(* step() does what it does, and comes to its sleep. *)
Cycle ==
    /\ Main("cycle", "lock")
    /\ UNCHANGED <<handlers, locked, flag, waiter, gotit, signals>>

(* sleep returned True: `while not self.stopped` ends. *)
Stopped ==
    /\ Main("returned", "done")
    /\ gotit
    /\ UNCHANGED <<handlers, locked, flag, waiter, gotit, signals>>

NotStopped ==
    /\ Main("returned", "cycle")
    /\ ~gotit
    /\ UNCHANGED <<handlers, locked, flag, waiter, gotit, signals>>

-----------------------------------------------------------------------------
(* threading.Event.wait and Condition.wait *)

TakeLock ==
    /\ \/ Main("lock", "test")
       \/ Main("relock", "tidy")
    /\ ~locked /\ locked' = TRUE
    /\ UNCHANGED <<handlers, flag, waiter, gotit, signals>>

(* A plausible bug: a bare Condition is waited on, whose past is forgotten. *)
WaitsOnTheCondition ==
    /\ Main("test", "giveup")
    /\ gotit' = FALSE /\ waiter' = "taken"
    /\ UNCHANGED <<handlers, locked, flag, signals>>

TestFlag ==
    /\ \/ Main("test", "release") /\ flag /\ gotit' = TRUE /\ UNCHANGED waiter
       \/ Main("test", "giveup") /\ ~flag /\ gotit' = FALSE /\ waiter' = "taken"
    /\ UNCHANGED <<handlers, locked, flag, signals>>

(* _release_save, and then the wait proper. *)
GiveUpLock ==
    /\ Main("giveup", "blocked")
    /\ locked' = FALSE
    /\ UNCHANGED <<handlers, flag, waiter, gotit, signals>>

Notified ==
    /\ Main("blocked", "relock")
    /\ waiter = "released"
    /\ gotit' = TRUE
    /\ UNCHANGED <<handlers, locked, flag, waiter, signals>>

TimesOut ==
    /\ Main("blocked", "relock")
    /\ waiter # "released"
    /\ UNCHANGED <<handlers, locked, flag, waiter, gotit, signals>>

(* The waiter is taken off the list; a notification that came after the    *)
(* timeout is not reported.                                                *)
Tidy ==
    /\ Main("tidy", "release")
    /\ waiter' = "none"
    /\ UNCHANGED <<handlers, locked, flag, gotit, signals>>

ReleaseLock ==
    /\ Main("release", "returned")
    /\ locked' = FALSE
    /\ UNCHANGED <<handlers, flag, waiter, gotit, signals>>

-----------------------------------------------------------------------------
(* _install_signal_handlers' handle, and Event.set *)

Signal ==
    /\ main # "done"
    /\ signals < MaxSignals
    /\ signals' = signals + 1
    /\ handlers' = Append(handlers, "lock")
    /\ UNCHANGED <<main, locked, flag, waiter, gotit>>

Innermost == handlers[Len(handlers)]

(* The lock may be held by the code this handler runs on top of: then it   *)
(* is never free.                                                          *)
HandlerLocks ==
    /\ handlers # <<>> /\ Innermost = "lock"
    /\ ~locked /\ locked' = TRUE
    /\ handlers' = [handlers EXCEPT ![Len(handlers)] = "set"]
    /\ UNCHANGED <<main, flag, waiter, gotit, signals>>

(* A plausible bug: the flag goes up, nobody is told.                      *)
SetsQuietly ==
    /\ handlers # <<>> /\ Innermost = "set"
    /\ flag' = TRUE
    /\ locked' = FALSE
    /\ handlers' = SubSeq(handlers, 1, Len(handlers) - 1)
    /\ UNCHANGED <<main, waiter, gotit, signals>>

HandlerSets ==
    /\ handlers # <<>> /\ Innermost = "set"
    /\ flag' = TRUE
    /\ waiter' = IF waiter = "taken" THEN "released" ELSE waiter
    /\ locked' = FALSE
    /\ handlers' = SubSeq(handlers, 1, Len(handlers) - 1)
    /\ UNCHANGED <<main, gotit, signals>>

Program ==
    \/ Cycle \/ Stopped \/ NotStopped
    \/ TakeLock \/ TestFlag \/ GiveUpLock \/ Notified \/ TimesOut
    \/ Tidy \/ ReleaseLock
    \/ HandlerLocks \/ HandlerSets

Next == Program \/ Signal

Spec == Init /\ [][Next]_vars

(* Fairness: the thread runs, and a wait times out at last.                *)
FairSpec == Spec /\ WF_vars(Program)

-----------------------------------------------------------------------------
(* Properties *)

(* Every variable keeps its type. *)
TypeOK ==
    /\ main \in {"cycle", "lock", "test", "giveup", "blocked", "relock", "tidy",
                 "release", "returned", "done"}
    /\ handlers \in Seq({"lock", "set"}) /\ Len(handlers) <= MaxSignals
    /\ locked \in BOOLEAN /\ flag \in BOOLEAN /\ gotit \in BOOLEAN
    /\ waiter \in {"none", "taken", "released"}
    /\ signals \in 0..MaxSignals

(* A handler waits for a lock that the code under it holds, for ever.      *)
SelfDeadlock == handlers # <<>> /\ Innermost = "lock" /\ locked

(* A daemon that has been told to stop does not sleep on: once a handler   *)
(* has returned, the wait has been notified or was over already.           *)
NoSleepAfterStop ==
    flag /\ handlers = <<>> /\ main = "blocked" => waiter = "released"

(* A stop request ends the process.                                        *)
StopIsHeard == signals > 0 ~> main = "done"
=============================================================================
