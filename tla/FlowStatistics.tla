---------------------------- MODULE FlowStatistics ----------------------------
(***************************************************************************)
(* utils/tcp_flow_statistics.h: the number of connections, an atomic, and  *)
(* the packets per description, a map under a mutex.  The sessions'        *)
(* threads change both; every change of the count is logged, and a timer's *)
(* thread logs both from time to time and clears the map.  The statistics  *)
(* are a singleton that the first thread to use it constructs; the others  *)
(* wait for it.  udp_flow_statistics.h is the same without the count.      *)
(*                                                                         *)
(* A session thread that counts a connection logs the number it loads      *)
(* afterwards, so what the log says last may be out of date until the      *)
(* timer logs again.                                                       *)
(***************************************************************************)
EXTENDS TaskTimer

CONSTANTS
  Threads,          \* the threads of the sessions
  Descriptions,     \* what packets are counted by
  MaxConnections,   \* bound on the connections that are opened
  MaxPackets,       \* bound on the packets per description
  Destroyable       \* whether the owner may stop and destroy the timer

ASSUME FlowAssumption ==
  /\ MaxConnections \in Nat /\ MaxPackets \in Nat
  /\ Destroyable \in BOOLEAN

VARIABLES
  count,        \* count_
  packets,      \* packet_count_
  locked,       \* the timer's thread holds mutex_
  thread,       \* where each session thread is in print_connection_count()
  loaded,       \* the count the timer's thread is about to log
  text,         \* the packets it is about to log
  shown,        \* the count the log said last
  opened,       \* history: connections opened
  counted,      \* history: packets counted
  reported      \* history: packets logged

vars == <<timerVars, count, packets, locked, thread, loaded, text, shown,
          opened, counted, reported>>

NonePerDescription == [d \in Descriptions |-> 0]
Idle == [at |-> "idle", count |-> 0]

Init ==
  /\ TimerInit
  /\ count = 0 /\ shown = 0 /\ loaded = 0 /\ opened = 0
  /\ packets = NonePerDescription /\ text = NonePerDescription
  /\ counted = NonePerDescription /\ reported = NonePerDescription
  /\ locked = FALSE
  /\ thread = [t \in Threads |-> Idle]

-----------------------------------------------------------------------------
(* The sessions' threads.                                                  *)

countVars == <<count, thread, shown, opened>>
packetVars == <<packets, locked, text, counted, reported>>

\* increment_connection()
IncrementConnection(t) ==
  /\ Started /\ thread[t] = Idle
  /\ opened < MaxConnections
  /\ opened' = opened + 1
  /\ count' = count + 1
  /\ thread' = [thread EXCEPT ![t].at = "load"]
  /\ UNCHANGED <<timerVars, packetVars, loaded, shown>>

\* subtract_connection(), for a connection that was counted.
SubtractConnection(t) ==
  /\ Started /\ thread[t] = Idle
  /\ count > 0
  /\ count' = count - 1
  /\ thread' = [thread EXCEPT ![t].at = "load"]
  /\ UNCHANGED <<timerVars, packetVars, loaded, shown, opened>>

\* print_connection_count() loads the count ...
LoadCount(t) ==
  /\ thread[t].at = "load"
  /\ thread' = [thread EXCEPT ![t] = [at |-> "print", count |-> count]]
  /\ UNCHANGED <<timerVars, packetVars, count, loaded, shown, opened>>

\* ... and logs it.
PrintCount(t) ==
  /\ thread[t].at = "print"
  /\ shown' = thread[t].count
  /\ thread' = [thread EXCEPT ![t] = Idle]
  /\ UNCHANGED <<timerVars, packetVars, count, loaded, opened>>

\* Mutant: the map is changed without the lock.
IncrementUnlocked(t, d) ==
  /\ Started /\ thread[t] = Idle
  /\ counted[d] < MaxPackets
  /\ packets' = [packets EXCEPT ![d] = @ + 1]
  /\ counted' = [counted EXCEPT ![d] = @ + 1]
  /\ UNCHANGED <<timerVars, countVars, locked, loaded, text, reported>>

\* increment_packet(), for which the lock has to be free.
IncrementPacket(t, d) ==
  /\ Started /\ thread[t] = Idle
  /\ counted[d] < MaxPackets
  /\ ~locked
  /\ packets' = [packets EXCEPT ![d] = @ + 1]
  /\ counted' = [counted EXCEPT ![d] = @ + 1]
  /\ UNCHANGED <<timerVars, countVars, locked, loaded, text, reported>>

-----------------------------------------------------------------------------
(* print_network_flow(), on the timer's thread.                            *)

Goto(pc) == loop' = pc /\ UNCHANGED <<owner, stopped, pending, mayWait, queue>>

\* Mutant: print_network_flow() leaves the count out.
TimerSkipsCount ==
  /\ loop = "count"
  /\ Goto("lock")
  /\ UNCHANGED <<countVars, packetVars, loaded>>

TimerLoadsCount ==
  /\ loop = "count"
  /\ loaded' = count
  /\ Goto("print")
  /\ UNCHANGED <<countVars, packetVars>>

TimerPrintsCount ==
  /\ loop = "print"
  /\ shown' = loaded /\ loaded' = 0
  /\ Goto("lock")
  /\ UNCHANGED <<count, thread, opened, packetVars>>

\* print_packet_count(): the text is made with the lock held ...
LockMap ==
  /\ loop = "lock" /\ ~locked
  /\ locked' = TRUE
  /\ text' = packets
  /\ Goto("log")
  /\ UNCHANGED <<countVars, packets, loaded, counted, reported>>

\* ... and logged ...
Report ==
  /\ loop = "log"
  /\ reported' = [d \in Descriptions |-> reported[d] + text[d]]
  /\ Goto("clear")
  /\ UNCHANGED <<countVars, packets, locked, loaded, text, counted>>

\* ... before the map is cleared and the lock left.
Clear ==
  /\ loop = "clear"
  /\ packets' = NonePerDescription /\ text' = NonePerDescription
  /\ locked' = FALSE
  /\ Goto("done")
  /\ UNCHANGED <<countVars, loaded, counted, reported>>

TimerTask ==
  TimerLoadsCount \/ TimerPrintsCount \/ LockMap \/ Report \/ Clear

TimerThread ==
  /\ Handler("count") \/ Rearm \/ RearmEnds \/ LoopEnds
  /\ UNCHANGED <<countVars, packetVars, loaded>>

TimerExpires == Expire /\ UNCHANGED <<countVars, packetVars, loaded>>

\* The constructor starts the timer.
Construct == (Start \/ StartEnds) /\ UNCHANGED <<countVars, packetVars, loaded>>

DestroyEnds == (StopService \/ Join) /\ UNCHANGED <<countVars, packetVars, loaded>>

OwnerAsks ==
  /\ Destroyable
  /\ Stop \/ Destroy
  /\ UNCHANGED <<countVars, packetVars, loaded>>

Next ==
  \/ \E t \in Threads :
       \/ IncrementConnection(t) \/ SubtractConnection(t)
       \/ LoadCount(t) \/ PrintCount(t)
       \/ \E d \in Descriptions : IncrementPacket(t, d)
  \/ TimerTask \/ TimerThread \/ TimerExpires
  \/ Construct \/ OwnerAsks \/ DestroyEnds

Spec == Init /\ [][Next]_vars

\* Threads go on, also through a mutex that is free, and time passes.
Fairness ==
  /\ \A t \in Threads : WF_vars(LoadCount(t) \/ PrintCount(t))
  /\ WF_vars(TimerTask) /\ WF_vars(TimerThread) /\ WF_vars(TimerExpires)
  /\ WF_vars(Construct) /\ WF_vars(DestroyEnds)

FairSpec == Spec /\ Fairness

-----------------------------------------------------------------------------
PerDescription == [Descriptions -> Nat]

\* The timer has one wait at most, whatever its owner does: pending, completed or
\* being handled, so that the queue holds one completion at most.
TypeOK ==
  /\ owner \in {"new", "arming", "idle", "asked", "destroying", "joining", "gone"}
  /\ loop \in {"none", "poll", "count", "print", "lock", "log", "clear", "done",
              "arming", "ended"}
  /\ stopped \in BOOLEAN /\ pending \in BOOLEAN /\ mayWait \in BOOLEAN
  /\ queue \in {<<>>, <<"ok">>, <<"aborted">>}
  /\ pending => queue = <<>> /\ loop \in {"poll", "ended"}
  /\ count \in Nat /\ shown \in Nat /\ loaded \in Nat /\ opened \in Nat
  /\ locked \in BOOLEAN
  /\ thread \in [Threads -> [at : {"idle", "load", "print"}, count : Nat]]
  /\ packets \in PerDescription /\ text \in PerDescription
  /\ counted \in PerDescription /\ reported \in PerDescription

\* Every packet is in one report: what was logged and what the map holds add up
\* to what was counted, between two reports, whichever threads count while the
\* timer's thread makes its text, logs it and clears the map
\* (tcp_flow_statistics.h:42, 64-78).
EveryPacketInOneReport ==
  \A d \in Descriptions :
    reported[d] + (IF loop = "clear" THEN 0 ELSE packets[d]) = counted[d]

\* After destroy() has returned nothing of the timer runs any more, even if its
\* stop() came while a handler was about to wait again (task_timer.h:51-70).
DestroyedIsQuiet ==
  [][owner = "gone" => UNCHANGED <<loop, loaded, locked, text, reported>>]_vars

\* destroy() returns, though its stop() may miss the wait that a handler is about
\* to begin (task_timer.h:53, 65-69).
DestroyReturns == owner = "destroying" ~> owner = "gone"

\* As long as nobody stops the timer, the packets are logged again and again: no
\* handler ends without a next wait (task_timer.h:41-54).
ReportsGoOn == []<>(loop = "log") \/ <>(owner \notin {"new", "arming", "idle"})

\* Threads load the count and log it later, so that the log's last number may be
\* of an earlier moment; as long as nobody stops the timer, it does not stay
\* wrong (tcp_flow_statistics.h:28-29, 35-36, 51).
ShownCountSettles ==
  []<>(shown = count) \/ <>(owner \notin {"new", "arming", "idle"})
=============================================================================
