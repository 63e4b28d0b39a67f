------------------------------ MODULE TaskTimer ------------------------------
(***************************************************************************)
(* utils/task_timer.h: a timer with an io_service and a thread of its own, *)
(* which runs its functions whenever a wait expires, and then waits again. *)
(* The thread that owns it starts, stops and destroys it; nothing but Asio *)
(* keeps the two apart.  What the functions do is up to the module that    *)
(* extends this one: a handler leads to a control state of theirs, and is  *)
(* done at "done".                                                         *)
(***************************************************************************)
EXTENDS Integers, Sequences

VARIABLES
  owner,        \* where the owner is: before start(), in it, idle, in destroy()
  loop,         \* where the timer's thread is
  stopped,      \* ios_.stopped()
  pending,      \* timer_ has a wait that has not expired
  mayWait,      \* timer_ believes it has one; if not, cancel() does nothing
  queue         \* completions of waits: "ok" or "aborted"

timerVars == <<owner, loop, stopped, pending, mayWait, queue>>

TimerInit ==
  /\ owner = "new" /\ loop = "none"
  /\ stopped = FALSE /\ pending = FALSE /\ mayWait = FALSE
  /\ queue = <<>>

Started == owner \notin {"new", "arming"}

\* deadline_timer::cancel()
Cancel ==
  /\ mayWait' = FALSE
  /\ IF mayWait /\ pending
     THEN pending' = FALSE /\ queue' = Append(queue, "aborted")
     ELSE UNCHANGED <<pending, queue>>

-----------------------------------------------------------------------------
(* The owner.                                                              *)

\* start(duration) makes the thread, and begins a wait on the owner's.
Start ==
  /\ owner = "new"
  /\ owner' = "arming" /\ loop' = "poll" /\ mayWait' = TRUE
  /\ UNCHANGED <<stopped, pending, queue>>

\* The end of async_wait(), called by the owner.
StartEnds ==
  /\ owner = "arming"
  /\ owner' = "idle" /\ pending' = TRUE
  /\ UNCHANGED <<loop, stopped, mayWait, queue>>

\* stop().  A handler that is running begins the next wait all the same.
Stop ==
  /\ owner \in {"idle", "asked"}
  /\ owner' = "asked"
  /\ Cancel
  /\ UNCHANGED <<loop, stopped>>

\* destroy(): stop() ...
Destroy ==
  /\ owner \in {"idle", "asked"}
  /\ owner' = "destroying"
  /\ Cancel
  /\ UNCHANGED <<loop, stopped>>

\* Mutant: destroy() relies on stop().
ServiceGoesOn ==
  /\ owner = "destroying"
  /\ owner' = "joining"
  /\ UNCHANGED <<loop, stopped, pending, mayWait, queue>>

\* ... ios_.stop() ...
StopService ==
  /\ owner = "destroying"
  /\ owner' = "joining" /\ stopped' = TRUE
  /\ UNCHANGED <<loop, pending, mayWait, queue>>

\* Mutant: the thread is detached.
Detach ==
  /\ owner = "joining"
  /\ owner' = "gone"
  /\ UNCHANGED <<loop, stopped, pending, mayWait, queue>>

\* ... and thread_.join().
Join ==
  /\ owner = "joining" /\ loop = "ended"
  /\ owner' = "gone"
  /\ UNCHANGED <<loop, stopped, pending, mayWait, queue>>

-----------------------------------------------------------------------------
(* The timer's thread.                                                     *)

\* The wait expires; only a thread that polls notices.
Expire ==
  /\ loop = "poll" /\ ~stopped /\ pending
  /\ pending' = FALSE /\ queue' = Append(queue, "ok")
  /\ UNCHANGED <<owner, loop, stopped, mayWait>>

\* Mutant: the next wait is begun before the functions are run.
HandlerRearmsFirst(first) ==
  /\ loop = "poll" /\ ~stopped /\ queue # <<>>
  /\ queue' = Tail(queue)
  /\ IF Head(queue) = "ok"
     THEN loop' = first /\ pending' = TRUE /\ mayWait' = TRUE
     ELSE UNCHANGED <<loop, pending, mayWait>>
  /\ UNCHANGED <<owner, stopped>>

\* The handler of a wait: nothing, or the functions, from "first" on.
Handler(first) ==
  /\ loop = "poll" /\ ~stopped /\ queue # <<>>
  /\ queue' = Tail(queue)
  /\ loop' = IF Head(queue) = "ok" THEN first ELSE "poll"
  /\ UNCHANGED <<owner, stopped, pending, mayWait>>

\* Mutant: the timer is single-shot.
RearmForgotten ==
  /\ loop = "done"
  /\ loop' = "poll"
  /\ UNCHANGED <<owner, stopped, pending, mayWait, queue>>

\* After the functions: start() again, up to the middle of async_wait().
Rearm ==
  /\ loop = "done"
  /\ loop' = "arming" /\ mayWait' = TRUE
  /\ UNCHANGED <<owner, stopped, pending, queue>>

\* The end of async_wait().  If stop() has come between, cancel() will not find
\* this wait either: the timer is shared without a lock.
RearmEnds ==
  /\ loop = "arming"
  /\ loop' = "poll" /\ pending' = TRUE
  /\ UNCHANGED <<owner, stopped, mayWait, queue>>

\* run() returns.
LoopEnds ==
  /\ loop = "poll" /\ stopped
  /\ loop' = "ended"
  /\ UNCHANGED <<owner, stopped, pending, mayWait, queue>>
=============================================================================
