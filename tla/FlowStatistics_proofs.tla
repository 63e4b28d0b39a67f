------------------------- MODULE FlowStatistics_proofs -------------------------
(***************************************************************************)
(* For any threads, descriptions and bounds: no packet is lost or reported *)
(* twice, and nothing runs once the timer is destroyed.                    *)
(***************************************************************************)
EXTENDS FlowStatistics, TLAPS

\* Where the timer's one wait is.
TimerInv ==
  /\ owner = "new" => loop = "none"
  /\ owner = "arming" => loop = "poll" /\ ~pending /\ queue = <<>>
  /\ loop \notin {"poll", "ended"} => ~pending /\ queue = <<>>
  /\ stopped => Started
  /\ owner = "gone" => loop = "ended"

\* With the lock held nobody counts, so the text stays that of the map.
ReportInv ==
  /\ locked <=> loop \in {"log", "clear"}
  /\ loop = "log" => text = packets

FlowInv == TypeOK /\ TimerInv /\ ReportInv /\ EveryPacketInOneReport

-----------------------------------------------------------------------------
(* The sessions' threads.                                                  *)

LEMMA CountingKeepsInv ==
  ASSUME FlowInv, NEW t \in Threads,
         \/ IncrementConnection(t) \/ SubtractConnection(t)
         \/ LoadCount(t) \/ PrintCount(t)
  PROVE  FlowInv'
<1>1. UNCHANGED <<timerVars, packetVars, loaded>>
  BY DEF IncrementConnection, SubtractConnection, LoadCount, PrintCount
<1>2. /\ count' \in Nat /\ shown' \in Nat /\ opened' \in Nat
      /\ thread' \in [Threads -> [at : {"idle", "load", "print"}, count : Nat]]
  <2>1. /\ count \in Nat /\ shown \in Nat /\ opened \in Nat
        /\ thread \in [Threads -> [at : {"idle", "load", "print"}, count : Nat]]
    BY DEF FlowInv, TypeOK
  <2>2. CASE IncrementConnection(t) \/ SubtractConnection(t)
    BY <2>1, <2>2 DEF IncrementConnection, SubtractConnection
  <2>3. CASE LoadCount(t)
    BY <2>1, <2>3 DEF LoadCount
  <2>4. CASE PrintCount(t)
    BY <2>1, <2>4 DEF PrintCount, Idle
  <2> QED
    BY <2>2, <2>3, <2>4
<1>3. TypeOK'
  BY <1>1, <1>2 DEF FlowInv, TypeOK, timerVars, packetVars
<1> QED
  BY <1>1, <1>3 DEF FlowInv, TimerInv, ReportInv, EveryPacketInOneReport, Started,
                    timerVars, packetVars

LEMMA IncrementPacketKeepsInv ==
  ASSUME FlowInv, NEW t \in Threads, NEW d \in Descriptions, IncrementPacket(t, d)
  PROVE  FlowInv'
<1>1. /\ UNCHANGED <<timerVars, countVars, locked, loaded, text, reported>>
      /\ ~locked
      /\ packets' = [packets EXCEPT ![d] = @ + 1]
      /\ counted' = [counted EXCEPT ![d] = @ + 1]
  BY DEF IncrementPacket
<1>2. packets' \in PerDescription /\ counted' \in PerDescription
  BY <1>1 DEF FlowInv, TypeOK, PerDescription
<1>3. TypeOK'
  BY <1>1, <1>2 DEF FlowInv, TypeOK, timerVars, countVars
<1>4. TimerInv' /\ ReportInv'
  BY <1>1 DEF FlowInv, TimerInv, ReportInv, Started, timerVars, countVars
<1>5. EveryPacketInOneReport'
  <2>1. loop # "clear" /\ loop' = loop
    BY <1>1 DEF FlowInv, ReportInv, timerVars
  <2>2. \A e \in Descriptions :
          /\ reported'[e] = reported[e] /\ reported[e] \in Nat
          /\ packets[e] \in Nat
          /\ e = d => packets'[e] = packets[e] + 1 /\ counted'[e] = counted[e] + 1
          /\ e # d => packets'[e] = packets[e] /\ counted'[e] = counted[e]
    BY <1>1 DEF FlowInv, TypeOK, PerDescription
  <2> QED
    BY <2>1, <2>2 DEF FlowInv, EveryPacketInOneReport
<1> QED
  BY <1>3, <1>4, <1>5 DEF FlowInv

-----------------------------------------------------------------------------
(* The timer's thread.                                                     *)

LEMMA TimerTaskKeepsInv ==
  ASSUME FlowInv, TimerTask
  PROVE  FlowInv'
<1> USE DEF FlowInv, Goto
<1>1. CASE TimerLoadsCount
  BY <1>1 DEF TimerLoadsCount, TypeOK, TimerInv, ReportInv, EveryPacketInOneReport, Started,
              countVars, packetVars
<1>2. CASE TimerPrintsCount
  BY <1>2 DEF TimerPrintsCount, TypeOK, TimerInv, ReportInv, EveryPacketInOneReport, Started,
              packetVars
<1>3. CASE LockMap
  BY <1>3 DEF LockMap, TypeOK, TimerInv, ReportInv, EveryPacketInOneReport, Started, countVars
<1>4. CASE Report
  <2>1. /\ loop = "log" /\ loop' = "clear" /\ text = packets
        /\ reported' = [d \in Descriptions |-> reported[d] + text[d]]
        /\ UNCHANGED <<countVars, packets, locked, loaded, text, counted>>
    BY <1>4 DEF Report, ReportInv
  <2>2. \A d \in Descriptions :
          /\ reported[d] \in Nat /\ text[d] \in Nat /\ reported[d] + text[d] \in Nat
    BY DEF TypeOK, PerDescription
  <2>3. reported' \in PerDescription
    BY <2>1, <2>2 DEF PerDescription
  <2>4. EveryPacketInOneReport'
    <3>1. \A d \in Descriptions : reported'[d] = counted[d]
      BY <2>1, <2>2 DEF EveryPacketInOneReport
    <3>2. \A d \in Descriptions : reported'[d] \in Nat
      BY <2>3 DEF PerDescription
    <3> QED
      BY <2>1, <3>1, <3>2 DEF EveryPacketInOneReport
  <2>5. TypeOK'
    BY <1>4, <2>1, <2>3 DEF Report, TypeOK, countVars
  <2> QED
    BY <1>4, <2>1, <2>4, <2>5 DEF Report, TimerInv, ReportInv, Started
<1>5. CASE Clear
  <2>1. NonePerDescription \in PerDescription
    BY DEF NonePerDescription, PerDescription
  <2>2. TypeOK'
    BY <1>5, <2>1 DEF Clear, TypeOK, countVars
  <2>3. EveryPacketInOneReport'
    <3>1. \A d \in Descriptions :
            /\ packets'[d] = 0 /\ reported'[d] = reported[d] /\ counted'[d] = counted[d]
            /\ reported[d] \in Nat
      BY <1>5 DEF Clear, NonePerDescription, TypeOK, PerDescription
    <3>2. loop = "clear" /\ loop' = "done"
      BY <1>5 DEF Clear
    <3> QED
      BY <3>1, <3>2 DEF EveryPacketInOneReport
  <2> QED
    BY <1>5, <2>2, <2>3 DEF Clear, TimerInv, ReportInv, Started
<1> QED
  BY <1>1, <1>2, <1>3, <1>4, <1>5 DEF TimerTask

\* Cancelling keeps one wait.
LEMMA CancelKeepsOne ==
  ASSUME FlowInv, Cancel
  PROVE  /\ mayWait' \in BOOLEAN /\ pending' \in BOOLEAN
         /\ queue' \in {<<>>, <<"ok">>, <<"aborted">>}
         /\ pending' => queue' = <<>> /\ loop \in {"poll", "ended"}
         /\ loop \notin {"poll", "ended"} => ~pending' /\ queue' = <<>>
<1>1. CASE mayWait /\ pending
  <2>1. queue = <<>> /\ Append(<<>>, "aborted") = <<"aborted">>
    BY <1>1 DEF FlowInv, TypeOK
  <2> QED
    BY <1>1, <2>1 DEF Cancel, FlowInv, TypeOK
<1>2. CASE ~(mayWait /\ pending)
  BY <1>2 DEF Cancel, FlowInv, TypeOK, TimerInv
<1> QED
  BY <1>1, <1>2

LEMMA TimerStepsKeepInv ==
  ASSUME FlowInv, TimerThread \/ TimerExpires \/ Construct \/ OwnerAsks \/ DestroyEnds
  PROVE  FlowInv'
<1> USE DEF FlowInv
<1>1. UNCHANGED <<countVars, packetVars, loaded>>
  BY DEF TimerThread, TimerExpires, Construct, OwnerAsks, DestroyEnds
<1>2. /\ owner' \in {"new", "arming", "idle", "asked", "destroying", "joining", "gone"}
      /\ loop' \in {"none", "poll", "count", "print", "lock", "log", "clear", "done",
                    "arming", "ended"}
      /\ stopped' \in BOOLEAN /\ pending' \in BOOLEAN /\ mayWait' \in BOOLEAN
      /\ queue' \in {<<>>, <<"ok">>, <<"aborted">>}
      /\ pending' => queue' = <<>> /\ loop' \in {"poll", "ended"}
      /\ TimerInv'
      /\ loop' \in {"log", "clear"} <=> loop \in {"log", "clear"}
      /\ loop' = "log" <=> loop = "log"
      /\ loop' = "clear" <=> loop = "clear"
  <2>1. CASE Handler("count")
    <3>1. queue \in {<<"ok">>, <<"aborted">>} /\ Tail(queue) = <<>> /\ ~pending
      <4>1. queue \in {<<"ok">>, <<"aborted">>} /\ ~pending
        BY <2>1 DEF Handler, TypeOK
      <4>2. \A e : Tail(<<e>>) = <<>>
        OBVIOUS
      <4> QED
        BY <4>1, <4>2
    <3>2. /\ UNCHANGED <<owner, stopped, pending, mayWait>> /\ queue' = <<>>
          /\ loop = "poll" /\ loop' \in {"count", "poll"}
      BY <2>1, <3>1 DEF Handler
    <3>3. TimerInv'
      BY <3>1, <3>2 DEF TimerInv, Started
    <3> QED
      BY <3>1, <3>2, <3>3 DEF TypeOK
  <2>2. CASE Rearm \/ RearmEnds \/ LoopEnds
    <3>1. CASE Rearm
      BY <3>1 DEF Rearm, TypeOK, TimerInv, Started
    <3>2. CASE RearmEnds
      BY <3>2 DEF RearmEnds, TypeOK, TimerInv, Started
    <3>3. CASE LoopEnds
      BY <3>3 DEF LoopEnds, TypeOK, TimerInv, Started
    <3> QED
      BY <2>2, <3>1, <3>2, <3>3
  <2>3. CASE Expire
    <3>1. queue = <<>> /\ Append(<<>>, "ok") = <<"ok">>
      BY <2>3 DEF Expire, TypeOK
    <3>2. /\ UNCHANGED <<owner, loop, stopped, mayWait>> /\ queue' = <<"ok">>
          /\ loop = "poll" /\ pending /\ pending' = FALSE
      BY <2>3, <3>1 DEF Expire
    <3>3. TimerInv'
      BY <3>2 DEF TimerInv, Started
    <3> QED
      BY <3>2, <3>3 DEF TypeOK
  <2>4. CASE Start \/ StartEnds
    <3>1. CASE Start
      BY <3>1 DEF Start, TypeOK, TimerInv, Started
    <3>2. CASE StartEnds
      BY <3>2 DEF StartEnds, TypeOK, TimerInv, Started
    <3> QED
      BY <2>4, <3>1, <3>2
  <2>5. CASE Stop \/ Destroy
    <3>1. /\ owner \in {"idle", "asked"} /\ owner' \in {"asked", "destroying"}
          /\ Cancel /\ UNCHANGED <<loop, stopped>>
      BY <2>5 DEF Stop, Destroy
    <3>2. TimerInv'
      BY <3>1, CancelKeepsOne DEF TimerInv, Started
    <3> QED
      BY <3>1, <3>2, CancelKeepsOne DEF TypeOK
  <2>6. CASE StopService \/ Join
    <3>1. CASE StopService
      BY <3>1 DEF StopService, TypeOK, TimerInv, Started
    <3>2. CASE Join
      BY <3>2 DEF Join, TypeOK, TimerInv, Started
    <3> QED
      BY <2>6, <3>1, <3>2
  <2> QED
    BY <2>1, <2>2, <2>3, <2>4, <2>5, <2>6
       DEF TimerThread, TimerExpires, Construct, OwnerAsks, DestroyEnds
<1>3. TypeOK'
  BY <1>1, <1>2 DEF TypeOK, countVars, packetVars
<1> QED
  BY <1>1, <1>2, <1>3 DEF ReportInv, EveryPacketInOneReport, countVars, packetVars

-----------------------------------------------------------------------------
(* The theorems.                                                           *)

LEMMA InitFlow == Init => FlowInv
<1> SUFFICES ASSUME Init PROVE FlowInv
  OBVIOUS
<1>1. NonePerDescription \in PerDescription /\ \A d \in Descriptions : NonePerDescription[d] = 0
  BY DEF NonePerDescription, PerDescription
<1>2. TypeOK
  BY <1>1 DEF Init, TimerInit, TypeOK, Idle
<1> QED
  BY <1>1, <1>2 DEF Init, TimerInit, FlowInv, TimerInv, ReportInv, EveryPacketInOneReport, Started

LEMMA NextFlow == FlowInv /\ [Next]_vars => FlowInv'
<1> SUFFICES ASSUME FlowInv, [Next]_vars PROVE FlowInv'
  OBVIOUS
<1>1. CASE \E t \in Threads :
             \/ IncrementConnection(t) \/ SubtractConnection(t)
             \/ LoadCount(t) \/ PrintCount(t)
             \/ \E d \in Descriptions : IncrementPacket(t, d)
  BY <1>1, CountingKeepsInv, IncrementPacketKeepsInv
<1>2. CASE TimerTask
  BY <1>2, TimerTaskKeepsInv
<1>3. CASE TimerThread \/ TimerExpires \/ Construct \/ OwnerAsks \/ DestroyEnds
  BY <1>3, TimerStepsKeepInv
<1>4. CASE UNCHANGED vars
  BY <1>4 DEF FlowInv, TypeOK, TimerInv, ReportInv, EveryPacketInOneReport, Started,
              vars, timerVars
<1> QED
  BY <1>1, <1>2, <1>3, <1>4 DEF Next

\* Whatever the owner does and however many threads count: the timer has one wait
\* at most, and its queue one completion.
THEOREM FlowTypeCorrect == Spec => []TypeOK
<1>1. FlowInv => TypeOK
  BY DEF FlowInv
<1> QED
  BY <1>1, InitFlow, NextFlow, PTL DEF Spec

\* No packet is lost between two reports and none is in both, for any number of
\* threads, descriptions and packets.
THEOREM PacketsAreReportedOnce == Spec => []EveryPacketInOneReport
<1>1. FlowInv => EveryPacketInOneReport
  BY DEF FlowInv
<1> QED
  BY <1>1, InitFlow, NextFlow, PTL DEF Spec

\* Nothing of the timer runs once destroy() has returned: join() has seen the end
\* of its thread.
THEOREM DestroyedTimerIsQuiet == Spec => DestroyedIsQuiet
<1>1. FlowInv /\ [Next]_vars =>
        [owner = "gone" => UNCHANGED <<loop, loaded, locked, text, reported>>]_vars
  <2> SUFFICES ASSUME FlowInv, [Next]_vars, owner = "gone"
               PROVE  UNCHANGED <<loop, loaded, locked, text, reported>>
    BY DEF vars
  <2>1. loop = "ended" /\ owner # "arming"
    BY DEF FlowInv, TimerInv
  <2>2. ~TimerTask /\ ~TimerThread /\ ~TimerExpires
    BY <2>1 DEF TimerTask, TimerLoadsCount, TimerPrintsCount, LockMap, Report, Clear,
                TimerThread, Handler, Rearm, RearmEnds, LoopEnds, TimerExpires, Expire
  <2>3. ~Construct /\ ~OwnerAsks /\ ~DestroyEnds
    BY DEF Construct, Start, StartEnds, OwnerAsks, Stop, Destroy, DestroyEnds, StopService, Join
  <2>4. ASSUME NEW t \in Threads,
               \/ IncrementConnection(t) \/ SubtractConnection(t)
               \/ LoadCount(t) \/ PrintCount(t)
               \/ \E d \in Descriptions : IncrementPacket(t, d)
        PROVE  UNCHANGED <<loop, loaded, locked, text, reported>>
    BY <2>4 DEF IncrementConnection, SubtractConnection, LoadCount, PrintCount,
                IncrementPacket, timerVars, packetVars
  <2>5. CASE UNCHANGED vars
    BY <2>5 DEF vars, timerVars
  <2> QED
    BY <2>2, <2>3, <2>4, <2>5 DEF Next
<1> QED
  BY <1>1, InitFlow, NextFlow, PTL DEF Spec, DestroyedIsQuiet
=============================================================================
