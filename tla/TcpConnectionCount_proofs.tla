---------------------- MODULE TcpConnectionCount_proofs ----------------------
(***************************************************************************)
(* With connects that end in time or with a single thread, for any number  *)
(* of sessions and any list of targets: nobody disturbs a session that     *)
(* starts, nobody closes one twice, a closed session is empty, and the     *)
(* connection count is exact.                                              *)
(***************************************************************************)
EXTENDS TcpReads_proofs

-----------------------------------------------------------------------------
(* The invariant of a session under the calm assumptions.                  *)

\* As for SessionInv.
LEMMA CalmOfAll ==
  ASSUME TypeOK, TypeOK', \A r \in Sessions : CalmInv(r),
         NEW S, OnlyConcerns(S), \A s \in S : CalmInv(s)'
  PROVE  \A r \in Sessions : CalmInv(r)'
BY OthersKeepInv

LEMMA AcceptedKeepsCalm ==
  ASSUME TypeOK, TypeOK', \A r \in Sessions : CalmInv(r), Accepted
  PROVE  \A r \in Sessions : CalmInv(r)'
<1>1. PICK s \in Sessions : s = accepting
  BY AcceptedConcerns
<1>2. /\ phase[s] = "accepting" /\ ~closed[s] /\ ~armed[s]
      /\ Untouched(s) /\ targets[s] = {} /\ ~listed[s]
  BY <1>1 DEF CalmInv, Fresh
<1>3. accepting' = NoSession /\ 0 \in Ios
  BY AcceptedConcerns, PoolIndices
<1>4. posted' = posted /\ reading' = reading /\ closed' = closed /\ targets' = targets
  BY DEF Accepted, Start, AcceptError, sessionVars
<1>5. \A k \in Ios : Queued(k)' = Queued(k)
  BY <1>4 DEF Queued, Contents
<1>6. \A k \in Ios \ {0} : thread'[k] = thread[k] /\ thread[k].s # s
  BY <1>2 DEF Accepted, Start, AcceptError, TypeOK, Untouched
<1>7. Untouched(s)'
  BY <1>2, <1>4, <1>5, <1>6 DEF Untouched
<1>8. Fresh(s)'
  BY <1>3, SessionAssumption DEF Fresh
<1>9. ASSUME Start(s) PROVE CalmInv(s)'
  <2>1. thread'[0] = At("connect", s, 1, "accept") /\ phase'[s] = "started"
    BY <1>3, <1>9 DEF Start, TypeOK
  <2>2. Targets # {} => listed'[s]
    BY <1>9 DEF Start, TypeOK
  <2>3. ConnectIsUndisturbed(s)'
    BY <1>2, <1>4, <1>7, <2>1, <2>2 DEF ConnectIsUndisturbed, Connecting, Open
  <2>4. HandlersOfStarted(s)'
    BY <2>1 DEF HandlersOfStarted
  <2>5. OneCloser(s)'
    BY <1>6, <2>1 DEF OneCloser, At
  <2>6. ClosedIsEmpty(s)'
    BY <1>2, <1>4 DEF ClosedIsEmpty
  <2> QED
    BY <1>8, <2>3, <2>4, <2>5, <2>6 DEF CalmInv
<1>10. ASSUME AcceptError(s) PROVE CalmInv(s)'
  <2>1. thread'[0] = At("reaccept", s, 0, "accept") /\ thread'[0].at = "reaccept"
    BY <1>3, <1>10 DEF AcceptError, TypeOK, At
  <2>2. UNCHANGED <<phase, armed, listed>>
    BY <1>10 DEF AcceptError, sessionVars
  <2>3. ConnectIsUndisturbed(s)'
    BY <2>1 DEF ConnectIsUndisturbed, Connecting
  <2>4. HandlersOfStarted(s)'
    BY <1>2, <1>7, <2>2 DEF HandlersOfStarted, Untouched
  <2>5. OneCloser(s)'
    BY <1>6, <2>1 DEF OneCloser
  <2>6. ClosedIsEmpty(s)'
    BY <1>2, <1>4 DEF ClosedIsEmpty
  <2> QED
    BY <1>8, <2>3, <2>4, <2>5, <2>6 DEF CalmInv
<1> QED
  BY <1>1, <1>9, <1>10, AcceptedConcerns, CalmOfAll DEF Accepted

LEMMA ConnectKeepsCalm ==
  ASSUME TypeOK, TypeOK', \A r \in Sessions : CalmInv(r), ConnectTarget
  PROVE  \A r \in Sessions : CalmInv(r)'
<1>1. PICK s \in Sessions : s = thread[0].s
  BY ConnectTargetConcerns
<1>2. OnlyConcerns({s}) /\ 0 \in Ios
  BY <1>1, ConnectTargetConcerns, PoolIndices
<1>3. /\ Fresh(s) /\ HandlersOfStarted(s) /\ OneCloser(s) /\ ClosedIsEmpty(s)
      /\ ConnectIsUndisturbed(s)
  BY DEF CalmInv
<1>4. Open(s) /\ Untouched(s) /\ (Targets # {} => listed[s])
  BY <1>1, <1>3 DEF ConnectTarget, ConnectIsUndisturbed, Connecting
<1>5. UNCHANGED <<posted, phase, ios, closed, listed, reading, armed, accepting>>
  BY DEF ConnectTarget
<1>6. \A k \in Ios : Queued(k)' = Queued(k)
  BY <1>5 DEF Queued, Contents
<1>7. \A k \in Ios \ {0} : thread'[k] = thread[k] /\ thread[k].s # s
  BY <1>4 DEF ConnectTarget, TestClosed, TypeOK, Untouched
<1>8. Open(s)' /\ Untouched(s)'
  BY <1>4, <1>5, <1>6, <1>7 DEF Open, Untouched
<1>9. accepting # s
  BY <1>4, <1>3 DEF Fresh, Open
<1>10. Fresh(s)'
  BY <1>5, <1>9 DEF Fresh
<1>11. HandlersOfStarted(s)'
  BY <1>8 DEF HandlersOfStarted, Open
<1>12. ConnectIsUndisturbed(s)'
  BY <1>4, <1>5, <1>8 DEF ConnectIsUndisturbed, Open
<1>13. OneCloser(s)'
  <2>1. thread'[0].at = "close" => thread'[0].by = "accept"
    BY <1>2 DEF ConnectTarget, TestClosed, TypeOK, At
  <2> QED
    BY <1>7, <1>8, <2>1 DEF OneCloser
<1>14. ClosedIsEmpty(s)'
  <2>1. targets'[s] = targets[s] \/ Targets # {}
    BY <1>1 DEF ConnectTarget
  <2> QED
    BY <1>3, <1>4, <1>5, <2>1 DEF ClosedIsEmpty, Open
<1>15. CalmInv(s)'
  BY <1>10, <1>11, <1>12, <1>13, <1>14 DEF CalmInv
<1> QED
  BY <1>2, <1>15, CalmOfAll

LEMMA ArmReadKeepsCalm ==
  ASSUME TypeOK, TypeOK', \A r \in Sessions : CalmInv(r), ArmRead
  PROVE  \A r \in Sessions : CalmInv(r)'
<1>1. PICK s \in Sessions, k \in Ios : s = thread[0].s /\ k = ios[s]
  BY PoolIndices, BusyThread DEF ArmRead, TypeOK
<1>2. /\ OnlyConcerns({s}) /\ 0 \in Ios
      /\ \E pc \in {"arm", "reaccept"}, i \in Nat :
           thread' = [thread EXCEPT ![0] = At(pc, s, i, "accept")]
  BY <1>1, ArmReadConcerns, PoolIndices
<1>3. /\ Fresh(s) /\ OneCloser(s) /\ ClosedIsEmpty(s) /\ ConnectIsUndisturbed(s)
  BY DEF CalmInv
<1>4. UNCHANGED <<phase, ios, closed, listed, targets, armed, accepting>>
  BY DEF ArmRead
<1>5. phase[s] = "started" /\ accepting # s
  BY <1>1, <1>3 DEF ArmRead, ConnectIsUndisturbed, Fresh
<1>6. /\ thread'[0].at \in {"arm", "reaccept"}
      /\ \A j \in Ios \ {0} : thread'[j] = thread[j]
  BY <1>2 DEF TypeOK, At
<1>7. Fresh(s)' /\ HandlersOfStarted(s)'
  BY <1>4, <1>5 DEF Fresh, HandlersOfStarted
<1>8. ConnectIsUndisturbed(s)'
  BY <1>4, <1>5, <1>6 DEF ConnectIsUndisturbed, Connecting
<1>9. OneCloser(s)'
  BY <1>3, <1>4, <1>6 DEF OneCloser, Open
<1>10. ClosedIsEmpty(s)'
  BY <1>3, <1>4 DEF ClosedIsEmpty
<1>11. CalmInv(s)'
  BY <1>7, <1>8, <1>9, <1>10 DEF CalmInv
<1> QED
  BY <1>2, <1>11, CalmOfAll

\* The session that thread k closes is closed by nobody else.
LEMMA SoleCloser ==
  ASSUME TypeOK, NEW s \in Sessions, OneCloser(s), ConnectIsUndisturbed(s),
         NEW k \in Ios, thread[k].at = "close", thread[k].s = s,
         NEW j \in Ios, thread[j].at = "close", thread[j].s = s
  PROVE  j = k
<1>1. ASSUME NEW i \in Ios, thread[i].at = "close", thread[i].s = s, thread[i].by = "accept"
      PROVE  \A h \in Ios : thread[h].s = s => h = 0
  <2>1. Connecting(s)
    BY <1>1 DEF OneCloser, Connecting
  <2> QED
    BY <2>1 DEF ConnectIsUndisturbed, Untouched
<1> QED
  BY <1>1 DEF OneCloser

LEMMA CloseKeepsCalm ==
  ASSUME TypeOK, TypeOK', \A r \in Sessions : CalmInv(r), NEW k \in Ios, Close(k)
  PROVE  \A r \in Sessions : CalmInv(r)'
<1>1. PICK s \in Sessions, h \in Ios : s = thread[k].s /\ h = ios[s]
  BY BusyThread DEF Close, TypeOK
<1>2. OnlyConcerns({s}) /\ 0 \in Ios
  BY <1>1, CloseConcerns, PoolIndices
<1>3. Fresh(s) /\ OneCloser(s) /\ ClosedIsEmpty(s) /\ ConnectIsUndisturbed(s)
  BY DEF CalmInv
<1>4. Open(s)
  BY <1>1, <1>3 DEF Close, OneCloser
<1>5. UNCHANGED <<phase, accepting>>
  BY DEF Close
<1>6. /\ closed'[s] /\ ~listed'[s] /\ ~armed'[s]
      /\ targets'[s] = IF listed[s] THEN {} ELSE targets[s]
  BY <1>1 DEF Close, CancelKeepaliveTimer, CloseTargetSocket, TypeOK
<1>7. /\ thread'[k].at \in {"reaccept", "poll"}
      /\ \A j \in Ios \ {k} : thread'[j] = thread[j]
  BY <1>1 DEF Close, TypeOK, At, Polling
<1>8. \A j \in Ios : ~(thread'[j].at = "close" /\ thread'[j].s = s)
  <2>1. thread[k].at = "close"
    BY DEF Close
  <2> QED
    BY <1>1, <1>3, <1>7, <2>1, SoleCloser
<1>9. ~Connecting(s)'
  <2>1. CASE k = 0
    BY <1>7, <2>1 DEF Connecting
  <2>2. CASE k # 0
    <3>1. ~Connecting(s)
      BY <1>1, <1>3, <2>2 DEF ConnectIsUndisturbed, Untouched
    <3> QED
      BY <1>2, <1>7, <2>2, <3>1 DEF Connecting
  <2> QED
    BY <2>1, <2>2
<1>10. Fresh(s)' /\ HandlersOfStarted(s)'
  BY <1>3, <1>4, <1>5 DEF Fresh, HandlersOfStarted, Open
<1>11. ConnectIsUndisturbed(s)'
  BY <1>4, <1>5, <1>9 DEF ConnectIsUndisturbed, Open
<1>12. OneCloser(s)'
  BY <1>8 DEF OneCloser
<1>13. ClosedIsEmpty(s)'
  BY <1>3, <1>6 DEF ClosedIsEmpty
<1>14. CalmInv(s)'
  BY <1>10, <1>11, <1>12, <1>13 DEF CalmInv
<1> QED
  BY <1>2, <1>14, CalmOfAll

LEMMA RunPostedKeepsCalm ==
  ASSUME TypeOK, TypeOK', FreedClosed = {TRUE}, \A r \in Sessions : AtHome(r) /\ CalmInv(r),
         NEW k \in Ios, RunPosted(k)
  PROVE  \A r \in Sessions : CalmInv(r)'
<1>1. PICK done \in Queued(k), s \in Sessions :
        s = done.s /\ ios[s] = k /\ HandlerEffect(k, s, done)
  BY RunPostedEffect
<1>2. thread[k] = Polling /\ 0 \in Ios
  BY PollingThread, PoolIndices DEF RunPosted, TypeOK
<1>3. OnlyConcerns({s})
  BY <1>1, <1>2, HandlerConcerns
<1>4. /\ Fresh(s) /\ HandlersOfStarted(s) /\ OneCloser(s) /\ ClosedIsEmpty(s)
      /\ ConnectIsUndisturbed(s)
  BY DEF CalmInv
<1>5. UNCHANGED <<phase, ios, closed, listed, targets, accepting>>
  BY <1>1 DEF HandlerEffect
<1>6. phase[s] = "started" /\ ~Connecting(s) /\ accepting # s
  BY <1>1, <1>4 DEF HandlersOfStarted, ConnectIsUndisturbed, Untouched, Fresh
<1>7. /\ \A j \in Ios \ {k} : thread'[j] = thread[j]
      /\ thread'[k].at = "close" => thread'[k].by \in {"timer", "read"} /\ ~closed[s]
      /\ thread'[k].at \in {"close", "poll"}
  <2>1. \/ thread' = thread
        \/ \E by \in {"timer", "read"} :
             thread' = [thread EXCEPT ![k] = At("close", s, 0, by)] /\ ~closed[s]
    BY <1>1 DEF HandlerEffect
  <2>2. thread[k].at = "poll" /\ thread \in [Ios -> ThreadState]
    BY <1>2 DEF Polling, At, TypeOK
  <2>3. CASE thread' = thread
    BY <2>2, <2>3
  <2>4. ASSUME NEW by \in {"timer", "read"},
               thread' = [thread EXCEPT ![k] = At("close", s, 0, by)], ~closed[s]
        PROVE  /\ \A j \in Ios \ {k} : thread'[j] = thread[j]
               /\ thread'[k].at = "close" => thread'[k].by \in {"timer", "read"} /\ ~closed[s]
               /\ thread'[k].at \in {"close", "poll"}
    BY <2>2, <2>4 DEF At
  <2> QED
    BY <2>1, <2>3, <2>4
<1>8. Fresh(s)' /\ HandlersOfStarted(s)'
  BY <1>5, <1>6 DEF Fresh, HandlersOfStarted
<1>9. ConnectIsUndisturbed(s)'
  <2>1. ~Connecting(s)'
    <3>1. CASE k = 0
      BY <1>7, <3>1 DEF Connecting
    <3>2. CASE k # 0
      BY <1>2, <1>6, <1>7, <3>2 DEF Connecting
    <3> QED
      BY <3>1, <3>2
  <2> QED
    BY <1>5, <1>6, <2>1 DEF ConnectIsUndisturbed
<1>10. OneCloser(s)'
  BY <1>1, <1>4, <1>5, <1>6, <1>7 DEF OneCloser, Open
<1>11. ClosedIsEmpty(s)'
  <2>1. closed[s] => armed'[s] = armed[s]
    BY <1>1 DEF HandlerEffect
  <2> QED
    BY <1>4, <1>5, <2>1 DEF ClosedIsEmpty
<1>12. CalmInv(s)'
  BY <1>8, <1>9, <1>10, <1>11 DEF CalmInv
<1> QED
  BY <1>3, <1>12, CalmOfAll

LEMMA ReactorKeepsCalm ==
  ASSUME TypeOK, TypeOK', Calm, \A r \in Sessions : CalmInv(r),
         NEW s \in Sessions, KeepaliveExpires(s) \/ \E c \in Channels : Readable(s, c)
  PROVE  \A r \in Sessions : CalmInv(r)'
<1>1. OnlyConcerns({s})
  <2>1. PICK k \in Ios : k = ios[s]
    BY DEF TypeOK
  <2> QED
    BY <2>1, ReactorConcerns
<1>2. /\ Fresh(s) /\ HandlersOfStarted(s) /\ OneCloser(s) /\ ClosedIsEmpty(s)
      /\ ConnectIsUndisturbed(s)
  BY DEF CalmInv
<1>3. UNCHANGED <<phase, ios, closed, listed, targets, thread, accepting>>
  BY DEF KeepaliveExpires, Readable
<1>4. phase[s] = "started" /\ accepting # s
  BY <1>2 DEF KeepaliveExpires, Readable, HandlersOfStarted, Fresh
<1>5. ~Connecting(s)
  <2>1. CASE KeepaliveExpires(s)
    <3>1. CASE SlowConnect = FALSE
      BY <2>1, <3>1 DEF KeepaliveExpires, InStart, Connecting
    <3>2. CASE PoolSize = 1
      <4>1. ios[s] = 0
        BY <3>2 DEF TypeOK, Ios
      <4> QED
        BY <2>1, <4>1 DEF KeepaliveExpires, Connecting
    <3> QED
      BY <3>1, <3>2 DEF Calm
  <2>2. CASE \E c \in Channels : Readable(s, c)
    BY <1>2, <2>2 DEF Readable, ConnectIsUndisturbed, Untouched
  <2> QED
    BY <2>1, <2>2
<1>6. Fresh(s)' /\ HandlersOfStarted(s)'
  BY <1>3, <1>4 DEF Fresh, HandlersOfStarted
<1>7. ConnectIsUndisturbed(s)' /\ OneCloser(s)'
  BY <1>2, <1>3, <1>4, <1>5 DEF ConnectIsUndisturbed, Connecting, OneCloser, Open
<1>8. ClosedIsEmpty(s)'
  <2>1. armed'[s] => armed[s]
    BY DEF KeepaliveExpires, Readable, TypeOK
  <2> QED
    BY <1>2, <1>3, <2>1 DEF ClosedIsEmpty
<1>9. CalmInv(s)'
  BY <1>6, <1>7, <1>8 DEF CalmInv
<1> QED
  BY <1>1, <1>9, CalmOfAll

LEMMA StartAcceptKeepsCalm ==
  ASSUME TypeOK, TypeOK', \A r \in Sessions : CalmInv(r), NEW s \in Sessions, StartAccept(s)
  PROVE  \A r \in Sessions : CalmInv(r)'
<1>1. PICK p \in Sessions : p = thread[0].s
  BY StartAcceptConcerns
<1>2. /\ OnlyConcerns({s, p}) /\ 0 \in Ios
      /\ \A k \in Ios : Queued(k)' = Queued(k)
  BY <1>1, StartAcceptConcerns, PoolIndices
<1>3. /\ reading[s] = {} /\ ~armed[s]
      /\ \A k \in Ios : thread[k].s # s /\ \A done \in Queued(k) : done.s # s
  BY DEF StartAccept, Forgotten, Alive, HeldByTimer
<1>4. p # s
  BY <1>1, <1>2, <1>3
<1>5. /\ accepting' = s /\ UNCHANGED <<reading, armed>>
      /\ phase'[s] = "accepting" /\ ~closed'[s] /\ ~listed'[s] /\ targets'[s] = {}
  BY <1>1, <1>4 DEF StartAccept, TypeOK
<1>6. /\ thread'[0] = Polling /\ thread'[0].at = "poll" /\ thread'[0].s = NoSession
      /\ \A k \in Ios \ {0} : thread'[k] = thread[k]
  BY <1>2 DEF StartAccept, TypeOK, Polling, At
<1>7. s # NoSession
  BY SessionAssumption
<1>8. CalmInv(s)'
  <2>1. Untouched(s)'
    BY <1>2, <1>3, <1>5, <1>6 DEF Untouched
  <2>2. Fresh(s)'
    BY <1>3, <1>5, <1>6, <1>7, <2>1 DEF Fresh
  <2>3. ConnectIsUndisturbed(s)' /\ OneCloser(s)'
    BY <1>3, <1>6, <1>7 DEF ConnectIsUndisturbed, Connecting, OneCloser
  <2>4. HandlersOfStarted(s)' /\ ClosedIsEmpty(s)'
    BY <1>2, <1>3, <1>5 DEF HandlersOfStarted, ClosedIsEmpty
  <2> QED
    BY <2>2, <2>3, <2>4 DEF CalmInv
<1>9. CalmInv(p)'
  <2>1. /\ phase[p] # "accepting" => phase'[p] = phase[p]
        /\ closed'[p] = closed[p] /\ listed'[p] = listed[p]
        /\ targets'[p] = targets[p] /\ ios'[p] = ios[p]
    BY <1>1, <1>4 DEF StartAccept, TypeOK
  <2>2. HandlersOfStarted(p) /\ OneCloser(p) /\ ClosedIsEmpty(p)
    BY DEF CalmInv
  <2>3. Fresh(p)'
    BY <1>4, <1>5 DEF Fresh
  <2>4. ConnectIsUndisturbed(p)'
    BY <1>6 DEF ConnectIsUndisturbed, Connecting
  <2>5. HandlersOfStarted(p)'
    BY <1>2, <1>5, <2>1, <2>2 DEF HandlersOfStarted
  <2>6. OneCloser(p)'
    BY <1>6, <2>1, <2>2 DEF OneCloser, Open
  <2>7. ClosedIsEmpty(p)'
    BY <1>5, <2>1, <2>2 DEF ClosedIsEmpty
  <2> QED
    BY <2>3, <2>4, <2>5, <2>6, <2>7 DEF CalmInv
<1> QED
  BY <1>2, <1>8, <1>9, CalmOfAll

LEMMA InitCalm == Init => \A s \in Sessions : CalmInv(s)
<1> SUFFICES ASSUME Init, NEW s \in Sessions PROVE CalmInv(s)
  OBVIOUS
<1>1. \A k \in Ios : Queued(k) = {} /\ thread[k] = Polling
  BY DEF Init, PoolInit, Queued, Contents
<1>2. \A k \in Ios : thread[k].s # s /\ thread[k].at = "poll"
  BY <1>1, SessionAssumption DEF Polling, At
<1>3. /\ ~closed[s] /\ ~listed[s] /\ targets[s] = {} /\ reading[s] = {} /\ ~armed[s]
      /\ accepting = s => phase[s] = "accepting"
  BY DEF Init
<1>4. Untouched(s)
  BY <1>1, <1>2, <1>3 DEF Untouched
<1>5. Fresh(s) /\ HandlersOfStarted(s)
  BY <1>1, <1>2, <1>3, <1>4, PoolIndices DEF Fresh, HandlersOfStarted
<1>6. ConnectIsUndisturbed(s) /\ OneCloser(s)
  BY <1>2, PoolIndices DEF ConnectIsUndisturbed, Connecting, OneCloser
<1>7. ClosedIsEmpty(s)
  BY <1>3 DEF ClosedIsEmpty
<1> QED
  BY <1>5, <1>6, <1>7 DEF CalmInv

LEMMA NextCalm ==
  ASSUME Calm, TypeOK, TypeOK', [Next]_vars,
         \A s \in Sessions : SessionInv(s) /\ CalmInv(s)
  PROVE  \A s \in Sessions : CalmInv(s)'
<1>1. CASE Accepted \/ ConnectTarget \/ ArmRead
  BY <1>1, AcceptedKeepsCalm, ConnectKeepsCalm, ArmReadKeepsCalm
<1>2. CASE \E k \in Ios : Close(k) \/ RunPosted(k)
  BY <1>2, CloseKeepsCalm, RunPostedKeepsCalm DEF Calm, SessionInv
<1>3. CASE \E s \in Sessions, c \in Channels : Readable(s, c)
  BY <1>3, ReactorKeepsCalm
<1>4. CASE \E s \in Sessions : StartAccept(s) \/ KeepaliveExpires(s)
  BY <1>4, StartAcceptKeepsCalm, ReactorKeepsCalm
<1>5. CASE UNCHANGED vars
  <2>1. OnlyConcerns({})
    BY <1>5 DEF vars, sessionVars, OnlyConcerns, Queued, Contents
  <2> QED
    BY <2>1, CalmOfAll
<1> QED
  BY <1>1, <1>2, <1>3, <1>4, <1>5 DEF Next

\* The two invariants together, over every behaviour.
LEMMA CalmAlways ==
  ASSUME Calm
  PROVE  Spec => [](TypeOK /\ \A s \in Sessions : SessionInv(s) /\ CalmInv(s))
<1> DEFINE Inv == TypeOK /\ \A s \in Sessions : SessionInv(s) /\ CalmInv(s)
<1>1. Init => Inv
  BY InitTypes, InitChain, InitCalm
<1>2. Inv /\ [Next]_vars => Inv'
  BY NextTypes, NextChain, NextCalm
<1> QED
  BY <1>1, <1>2, PTL DEF Spec

\* A closed session has no open target socket and no keepalive wait, whichever
\* thread closed it and however far start() had come.
THEOREM ClosedSessionsAreEmpty ==
  ASSUME Calm
  PROVE  Spec => []ClosedHoldsNothing
<1>1. TypeOK /\ (\A s \in Sessions : SessionInv(s) /\ CalmInv(s)) => ClosedHoldsNothing
  BY DEF CalmInv, ClosedIsEmpty, ClosedHoldsNothing
<1> QED
  BY <1>1, CalmAlways, PTL

-----------------------------------------------------------------------------
(* The connection count.                                                   *)

OpenSessions == {s \in Sessions : Open(s)}

LEMMA OpenSessionsFinite == IsFiniteSet(OpenSessions)
<1>1. OpenSessions \in SUBSET Sessions
  BY DEF OpenSessions
<1> QED
  BY <1>1, FiniteSessions, FS_Subset

\* A step opens one session and counts it, closes one and uncounts it, or does
\* neither.
LEMMA StepCounts ==
  ASSUME Calm, TypeOK, TypeOK', [Next]_vars,
         \A s \in Sessions : SessionInv(s) /\ CalmInv(s)
  PROVE  \/ \E s \in Sessions : ~Open(s) /\ OpenSessions' = OpenSessions \union {s} /\ count' = count + 1
         \/ \E s \in Sessions : Open(s) /\ OpenSessions' = OpenSessions \ {s} /\ count' = count - 1
         \/ OpenSessions' = OpenSessions /\ count' = count
<1>1. ASSUME UNCHANGED <<phase, closed, count>>
      PROVE  OpenSessions' = OpenSessions /\ count' = count
  BY <1>1 DEF OpenSessions, Open
<1>2. CASE Accepted
  <2>1. PICK s \in Sessions : s = accepting
    BY <1>2, AcceptedConcerns
  <2>2. CASE AcceptError(s)
    BY <1>1, <2>2 DEF AcceptError, sessionVars
  <2>3. CASE Start(s)
    <3>1. phase[s] = "accepting" /\ ~closed[s]
      BY <2>1 DEF CalmInv, Fresh
    <3>2. closed' = closed /\ phase' = [phase EXCEPT ![s] = "started"] /\ count' = count + 1
      BY <2>3 DEF Start
    <3>3. ~Open(s) /\ Open(s)' /\ \A r \in Sessions \ {s} : Open(r)' = Open(r)
      BY <3>1, <3>2 DEF Open, TypeOK
    <3> QED
      BY <3>2, <3>3 DEF OpenSessions
  <2> QED
    BY <1>2, <2>1, <2>2, <2>3 DEF Accepted
<1>3. CASE \E k \in Ios : Close(k)
  <2>1. PICK k \in Ios : Close(k)
    BY <1>3
  <2>2. PICK s \in Sessions : s = thread[k].s
    BY <2>1, BusyThread DEF Close, TypeOK
  <2>3. Open(s)
    BY <2>1, <2>2 DEF Close, CalmInv, OneCloser
  <2>4. closed' = [closed EXCEPT ![s] = TRUE] /\ phase' = phase /\ count' = count - 1
    BY <2>1, <2>2 DEF Close
  <2>5. ~Open(s)' /\ \A r \in Sessions \ {s} : Open(r)' = Open(r)
    BY <2>4 DEF Open, TypeOK
  <2> QED
    BY <2>3, <2>4, <2>5 DEF OpenSessions
<1>4. CASE \E s \in Sessions : StartAccept(s)
  <2>1. PICK s \in Sessions : StartAccept(s)
    BY <1>4
  <2>2. PICK p \in Sessions : p = thread[0].s
    BY <2>1, StartAcceptConcerns
  <2>3. ~Open(s)
    BY <2>1, ChainOwns DEF StartAccept, Forgotten, SessionInv
  <2>4. \A r \in Sessions : Open(r)' = Open(r)
    BY <2>1, <2>2, <2>3 DEF StartAccept, Open, TypeOK
  <2> QED
    BY <2>1, <2>4 DEF OpenSessions, StartAccept
<1>5. CASE \E k \in Ios : RunPosted(k)
  BY <1>1, <1>5, RunPostedEffect DEF HandlerEffect, SessionInv
<1>6. CASE ConnectTarget \/ ArmRead \/ \E s \in Sessions : KeepaliveExpires(s) \/ \E c \in Channels : Readable(s, c)
  BY <1>1, <1>6 DEF ConnectTarget, ArmRead, KeepaliveExpires, Readable
<1>7. CASE UNCHANGED vars
  BY <1>1, <1>7 DEF vars, sessionVars
<1> QED
  BY <1>2, <1>3, <1>4, <1>5, <1>6, <1>7 DEF Next

\* The number of connections printed is the number of sessions that are open.
THEOREM CountIsExact ==
  ASSUME Calm
  PROVE  Spec => []CountMatchesOpen
<1> DEFINE Inv == TypeOK /\ \A s \in Sessions : SessionInv(s) /\ CalmInv(s)
<1>1. CountMatchesOpen <=> count = Cardinality(OpenSessions)
  BY DEF CountMatchesOpen, OpenSessions
<1>2. Init => CountMatchesOpen
  <2>1. Init => OpenSessions = {} /\ count = 0
    BY DEF Init, OpenSessions, Open
  <2> QED
    BY <1>1, <2>1, FS_EmptySet
<1>3. Inv /\ Inv' /\ CountMatchesOpen /\ [Next]_vars => CountMatchesOpen'
  <2> SUFFICES ASSUME Inv, Inv', CountMatchesOpen, [Next]_vars PROVE CountMatchesOpen'
    OBVIOUS
  <2>1. Cardinality(OpenSessions') = count'
    <3>1. count = Cardinality(OpenSessions) /\ IsFiniteSet(OpenSessions)
      BY <1>1, OpenSessionsFinite
    <3>2. ASSUME NEW s \in Sessions, ~Open(s), OpenSessions' = OpenSessions \union {s}, count' = count + 1
          PROVE  Cardinality(OpenSessions') = count'
      BY <3>1, <3>2, FS_AddElement DEF OpenSessions
    <3>3. ASSUME NEW s \in Sessions, Open(s), OpenSessions' = OpenSessions \ {s}, count' = count - 1
          PROVE  Cardinality(OpenSessions') = count'
      BY <3>1, <3>3, FS_RemoveElement DEF OpenSessions
    <3> QED
      BY <3>1, <3>2, <3>3, StepCounts
  <2> QED
    BY <2>1 DEF CountMatchesOpen, OpenSessions
<1> QED
  BY <1>2, <1>3, CalmAlways, PTL DEF Spec

-----------------------------------------------------------------------------
(* The ledger: the sessions and the count, step by step.                   *)

\* The inductive invariant, over every behaviour.
LEMMA InvAlways == Spec => [](TypeOK /\ IInv)
<1>1. Init => TypeOK /\ IInv
  BY InitTypes, InitChain, InitReads, InitCalm DEF IInv
<1>2. TypeOK /\ IInv /\ [Next]_vars => (TypeOK /\ IInv)'
  <2> SUFFICES ASSUME TypeOK, IInv, [Next]_vars PROVE TypeOK' /\ IInv'
    OBVIOUS
  <2>1. TypeOK'
    BY NextTypes
  <2>2. \A s \in Sessions : SessionInv(s) /\ ReadInv(s)
    BY DEF IInv
  <2>3. \A s \in Sessions : SessionInv(s)' /\ ReadInv(s)'
    BY <2>1, <2>2, NextChain, NextReads
  <2>4. Calm => \A s \in Sessions : CalmInv(s)'
    BY <2>1, NextCalm DEF IInv
  <2> QED
    BY <2>1, <2>3, <2>4 DEF IInv, Calm
<1> QED
  BY <1>1, <1>2, PTL DEF Spec

\* Nothing in the program refers to s.
NothingRefersTo(s) ==
  /\ accepting # s /\ ~armed[s] /\ reading[s] = {}
  /\ \A k \in Ios : thread[k].s # s /\ \A done \in Queued(k) : done.s # s

LEMMA ForgottenMeans ==
  ASSUME TypeOK, TypeOK', NEW s \in Sessions
  PROVE  /\ Forgotten(s) <=> NothingRefersTo(s)
         /\ Forgotten(s)' <=> NothingRefersTo(s)'
<1>1. Forgotten(s) <=> NothingRefersTo(s)
  <2>1. PICK k \in Ios : k = ios[s]
    BY DEF TypeOK
  <2> QED
    BY <2>1 DEF Forgotten, Alive, HeldByThread, HeldByTimer, NothingRefersTo
<1>2. Forgotten(s)' <=> NothingRefersTo(s)'
  <2>1. PICK k \in Ios : k = ios'[s]
    BY TypeOK' DEF TypeOK
  <2>2. HeldByTimer(s)' <=> armed'[s] \/ \E done \in Queued(k)' : done.op = "timer" /\ done.s = s
    BY <2>1 DEF HeldByTimer, Queued, Contents
  <2> QED
    BY <2>1, <2>2 DEF Forgotten, Alive, HeldByThread, NothingRefersTo
<1> QED
  BY <1>1, <1>2

\* Sessions that a step does not concern stay as they are in the ledger.
LEMMA OthersKeepState ==
  ASSUME TypeOK, TypeOK', IInv, IInv', NEW S, OnlyConcerns(S), NEW r \in Sessions \ S
  PROVE  SessionState(r)' = SessionState(r)
<1>1. Open(r)' = Open(r) /\ phase'[r] = phase[r]
  BY DEF OnlyConcerns, Open
<1>2. \A k \in Ios : Queued(k) \subseteq Completion /\ Queued(k)' \subseteq Completion
  BY QueuedType, TypeOK' DEF TypeOK, Queued, Contents
<1>3. phase[r] = "started" => accepting # r /\ accepting' # r
  BY <1>1 DEF IInv, ReadInv, ReadsInOrder
<1>4. \A k \in Ios : (\A done \in Queued(k) : done.s # r) <=> (\A done \in Queued(k)' : done.s # r)
  BY <1>2 DEF OnlyConcerns
<1>5. phase[r] = "started" => (NothingRefersTo(r) <=> NothingRefersTo(r)')
  BY <1>3, <1>4 DEF OnlyConcerns, NothingRefersTo
<1> QED
  BY <1>1, <1>5, ForgottenMeans DEF SessionState

\* What a step may do to the only session it moves in the ledger.
Moves(s) ==
  \/ SessionState(s)' = SessionState(s) /\ count' = count
  \/ SessionState(s) = "free" /\ SessionState(s)' = "open" /\ count' = count + 1
  \/ SessionState(s) = "open" /\ SessionState(s)' = "closed" /\ count' = count - 1
  \/ SessionState(s) = "closed" /\ SessionState(s)' = "free" /\ count' = count

States == [s \in Sessions |-> SessionState(s)]

LEMMA MovesAreLedgerSteps ==
  ASSUME NEW s \in Sessions, \A r \in Sessions \ {s} : SessionState(r)' = SessionState(r), Moves(s)
  PROVE  Ledger!LedgerNext \/ UNCHANGED <<States, count>>
<1>1. States' = [States EXCEPT ![s] = SessionState(s)']
  BY DEF States
<1>2. States[s] = SessionState(s) /\ DOMAIN States = Sessions
  BY DEF States
<1>3. CASE SessionState(s)' = SessionState(s) /\ count' = count
  BY <1>1, <1>2, <1>3 DEF States
<1>4. CASE SessionState(s) = "free" /\ SessionState(s)' = "open" /\ count' = count + 1
  BY <1>1, <1>4 DEF Ledger!LedgerNext, Ledger!OpenSession, States
<1>5. CASE SessionState(s) = "open" /\ SessionState(s)' = "closed" /\ count' = count - 1
  BY <1>1, <1>5 DEF Ledger!LedgerNext, Ledger!CloseSession, States
<1>6. CASE SessionState(s) = "closed" /\ SessionState(s)' = "free" /\ count' = count
  BY <1>1, <1>6 DEF Ledger!LedgerNext, Ledger!ReleaseSession, States
<1> QED
  BY <1>3, <1>4, <1>5, <1>6 DEF Moves

\* A step that leaves a session open or closed, and its memory in use, moves nothing.
LEMMA StaysInUse ==
  ASSUME TypeOK, TypeOK', NEW s \in Sessions, UNCHANGED <<phase, closed, count>>,
         ~NothingRefersTo(s), ~NothingRefersTo(s)' \/ Open(s)
  PROVE  Moves(s)
<1>1. Open(s)' = Open(s)
  BY DEF Open
<1> QED
  BY <1>1, ForgottenMeans DEF SessionState, Moves

LEMMA AcceptedMoves ==
  ASSUME Calm, TypeOK, TypeOK', IInv, NEW s \in Sessions, s = accepting, Accepted
  PROVE  Moves(s)
<1>1. phase[s] = "accepting" /\ ~closed[s]
  BY DEF IInv, CalmInv, Fresh
<1>2. SessionState(s) = "free"
  BY <1>1 DEF SessionState, Open
<1>3. CASE AcceptError(s)
  <2>1. phase' = phase /\ count' = count
    BY <1>3 DEF AcceptError, sessionVars
  <2> QED
    BY <1>1, <1>2, <2>1 DEF Moves, SessionState, Open
<1>4. CASE Start(s)
  <2>1. phase'[s] = "started" /\ ~closed'[s] /\ count' = count + 1
    BY <1>1, <1>4 DEF Start, TypeOK
  <2> QED
    BY <1>2, <2>1 DEF Moves, SessionState, Open
<1> QED
  BY <1>3, <1>4 DEF Accepted

\* The steps of start() are those of a session that thread 0 refers to.
LEMMA StartMoves ==
  ASSUME TypeOK, TypeOK', NEW s \in Sessions, s = thread[0].s, ConnectTarget \/ ArmRead
  PROVE  Moves(s)
<1>1. \E pc, i : thread' = [thread EXCEPT ![0] = At(pc, s, i, "accept")]
  <2>1. CASE ConnectTarget
    BY <2>1, ConnectTargetConcerns
  <2>2. CASE ArmRead
    <3>1. PICK k \in Ios : k = ios[s]
      BY DEF TypeOK
    <3> QED
      BY <2>2, <3>1, ArmReadConcerns
  <2> QED
    BY <2>1, <2>2
<1>2. thread'[0].s = s
  BY <1>1, PoolIndices DEF TypeOK, At
<1>3. UNCHANGED <<phase, closed, count>>
  BY DEF ConnectTarget, ArmRead
<1> QED
  BY <1>2, <1>3, PoolIndices, StaysInUse DEF NothingRefersTo

\* A session that is closed is still in use: start() goes on with it, or the cancelled
\* keepalive wait or a read has yet to be completed.
LEMMA CloseMoves ==
  ASSUME Calm, TypeOK, TypeOK', IInv, NEW k \in Ios, Close(k), NEW s \in Sessions, s = thread[k].s
  PROVE  Moves(s)
<1>1. PICK h \in Ios : h = ios[s]
  BY DEF TypeOK
<1>2. /\ OneCloser(s) /\ ConnectIsUndisturbed(s) /\ KeepaliveChain(s) /\ NoneIsDeaf(s)
      /\ thread[k].at = "close"
  BY DEF IInv, CalmInv, SessionInv, ReadInv, Close
<1>3. Open(s) /\ (thread[k].by # "accept" => k = h)
  BY <1>1, <1>2 DEF OneCloser
<1>4. /\ phase' = phase /\ closed'[s] /\ count' = count - 1 /\ reading' = reading
      /\ posted' = [posted EXCEPT ![h] = Cancel(s, posted[h])]
      /\ thread' = [thread EXCEPT ![k] = IF thread[k].by = "accept"
                                         THEN At("reaccept", s, 0, "accept") ELSE Polling]
  BY <1>1 DEF Close, TypeOK
<1>5. posted[h] \in Seq(Completion) /\ thread[k].by \in {"accept", "timer", "read"}
  <2>1. posted[h] \in Seq(Completion) /\ thread[k] \in ThreadState
    BY DEF TypeOK
  <2> QED
    BY <1>2, <2>1 DEF ThreadState, Polling, At
<1>6. Queued(h)' = Contents(Cancel(s, posted[h])) /\ Queued(h) \subseteq Queued(h)'
  BY <1>1, <1>4, <1>5, Requeue, CloseConcerns
<1>7. CASE thread[k].by = "accept"
  <2>1. thread'[k].s = s
    BY <1>4, <1>7 DEF TypeOK, At
  <2>2. ~NothingRefersTo(s)'
    BY <2>1 DEF NothingRefersTo
  <2> QED
    BY <1>3, <1>4, <2>2, ForgottenMeans DEF Moves, SessionState, Open
<1>8. CASE thread[k].by = "read"
  <2>1. ~ClosedByTimer(s)
    BY <1>2, <1>8, SoleCloser DEF ClosedByTimer
  <2>2. armed[s] \/ TimerDone(s, "ok") \in Queued(h)
    BY <1>1, <1>2, <1>3, <2>1 DEF KeepaliveChain, Expired
  <2>3. \E done \in Queued(h)' : done.s = s
    <3>1. CASE TimerDone(s, "ok") \in Queued(h)
      BY <1>6, <3>1 DEF TimerDone
    <3>2. CASE armed[s]
      <4>1. TimerDone(s, "aborted") \in Completion /\ TimerDone(s, "aborted").s = s
        BY SessionAssumption DEF TimerDone, Completion, Client, Channels
      <4>2. Contents(Append(posted[h], TimerDone(s, "aborted")))
              = Contents(posted[h]) \union {TimerDone(s, "aborted")}
        BY <1>5, <4>1, ContentsAppend
      <4> QED
        BY <1>6, <3>2, <4>1, <4>2 DEF Cancel
    <3> QED
      BY <2>2, <3>1, <3>2
  <2>4. ~NothingRefersTo(s)'
    BY <2>3 DEF NothingRefersTo
  <2> QED
    BY <1>3, <1>4, <2>4, ForgottenMeans DEF Moves, SessionState, Open
<1>9. CASE thread[k].by = "timer"
  <2>1. k = h /\ ~Connecting(s)
    <3>1. ~(thread[0].s = s /\ thread[0].at = "close" /\ thread[0].by = "accept")
      BY <1>2, <1>9, PoolIndices, SoleCloser
    <3>2. ~(thread[0].s = s /\ thread[0].at = "connect")
      <4> SUFFICES ASSUME thread[0].s = s, thread[0].at = "connect" PROVE FALSE
        OBVIOUS
      <4>1. Untouched(s) /\ k # 0
        BY <1>2 DEF ConnectIsUndisturbed, Connecting
      <4> QED
        BY <4>1 DEF Untouched
    <3> QED
      BY <1>3, <1>9, <3>1, <3>2 DEF Connecting
  <2>2. ~ClosedByRead(s)
    BY <1>2, <1>9, SoleCloser DEF ClosedByRead
  <2>3. CASE thread[0].s = s /\ thread[0].at = "arm"
    <3>1. thread'[0].s = s
      BY <1>2, <1>4, <2>3, PoolIndices DEF TypeOK
    <3>2. ~NothingRefersTo(s)'
      BY <3>1, PoolIndices DEF NothingRefersTo
    <3> QED
      BY <1>3, <1>4, <3>2, ForgottenMeans DEF Moves, SessionState, Open
  <2>4. CASE ~(thread[0].s = s /\ thread[0].at = "arm")
    <3>1. ~Unread(s, Client)
      BY <1>2, <1>3, <2>1, <2>2, <2>4 DEF NoneIsDeaf, Channels
    <3>2. reading[s] # {} \/ \E done \in Queued(h) : done.s = s
      BY <1>1, <3>1 DEF Unread, NoneIn, IsRead, Queued, Contents
    <3>3. ~NothingRefersTo(s)'
      BY <1>4, <1>6, <3>2 DEF NothingRefersTo
    <3> QED
      BY <1>3, <1>4, <3>3, ForgottenMeans DEF Moves, SessionState, Open
  <2> QED
    BY <2>3, <2>4
<1> QED
  BY <1>5, <1>7, <1>8, <1>9

\* A handler that runs may have been the last to refer to a closed session.
LEMMA RunPostedMoves ==
  ASSUME TypeOK, TypeOK', IInv, IInv', NEW k \in Ios, NEW s \in Sessions, NEW done \in Queued(k),
         done.s = s, UNCHANGED <<phase, closed, count>>
  PROVE  Moves(s)
<1>1. ~NothingRefersTo(s)
  BY DEF NothingRefersTo
<1>2. Open(s)' = Open(s)
  BY DEF Open
<1> QED
  BY <1>1, <1>2, ForgottenMeans DEF SessionState, Moves

LEMMA ReactorMoves ==
  ASSUME TypeOK, TypeOK', NEW s \in Sessions, KeepaliveExpires(s) \/ \E c \in Channels : Readable(s, c)
  PROVE  Moves(s)
<1>1. PICK k \in Ios : k = ios[s]
  BY DEF TypeOK
<1>2. ~NothingRefersTo(s)
  BY DEF KeepaliveExpires, Readable, NothingRefersTo
<1>3. UNCHANGED <<phase, closed, count>>
  BY DEF KeepaliveExpires, Readable
<1>4. \E e \in Completion : e.s = s /\ posted' = [posted EXCEPT ![k] = Append(@, e)]
  <2>1. CASE KeepaliveExpires(s)
    <3>1. TimerDone(s, "ok") \in Completion /\ TimerDone(s, "ok").s = s
      BY SessionAssumption DEF TimerDone, Completion, Client, Channels
    <3> QED
      BY <1>1, <2>1, <3>1 DEF KeepaliveExpires
  <2>2. ASSUME NEW c \in Channels, Readable(s, c)
        PROVE  \E e \in Completion : e.s = s /\ posted' = [posted EXCEPT ![k] = Append(@, e)]
    <3> DEFINE e == ReadDone(s, c, IF closed[s] THEN "aborted" ELSE "ready")
    <3>1. e \in Completion /\ e.s = s
      BY DEF ReadDone, Completion
    <3>2. posted' = [posted EXCEPT ![k] = Append(@, e)]
      BY <1>1, <2>2 DEF Readable
    <3> HIDE DEF e
    <3> QED
      BY <3>1, <3>2
  <2> QED
    BY <2>1, <2>2
<1>5. PICK e \in Completion : e.s = s /\ posted' = [posted EXCEPT ![k] = Append(@, e)]
  BY <1>4
<1>6. e \in Queued(k)'
  <2>1. posted[k] \in Seq(Completion)
    BY DEF TypeOK
  <2>2. Queued(k)' = Contents(Append(posted[k], e))
    BY <1>5, Requeue
  <2> QED
    BY <2>1, <2>2, ContentsAppend
<1>7. ~NothingRefersTo(s)'
  BY <1>5, <1>6 DEF NothingRefersTo
<1> QED
  BY <1>2, <1>3, <1>7, StaysInUse

\* start_accept() lets go of its session, and reuses the memory of one that is free.
LEMMA StartAcceptMoves ==
  ASSUME TypeOK, TypeOK', IInv, NEW s \in Sessions, StartAccept(s), NEW p \in Sessions, p = thread[0].s
  PROVE  SessionState(s)' = SessionState(s) /\ Moves(p) /\ p # s
<1>1. NothingRefersTo(s)
  BY ForgottenMeans DEF StartAccept
<1>2. p # s
  BY <1>1, PoolIndices DEF NothingRefersTo
<1>3. ~Open(s)
  BY ChainOwns DEF IInv, SessionInv, StartAccept, Forgotten
<1>4. SessionState(s) = "free"
  BY <1>3 DEF StartAccept, SessionState
<1>5. phase'[s] = "accepting"
  BY <1>2 DEF StartAccept, TypeOK
<1>6. SessionState(s)' = "free"
  BY <1>5 DEF SessionState, Open
<1>7. /\ phase'[p] = phase[p] \/ (phase[p] = "accepting" /\ phase'[p] = "absent")
      /\ closed'[p] = closed[p] /\ count' = count
  BY <1>2 DEF StartAccept, TypeOK
<1>8. ~NothingRefersTo(p)
  BY PoolIndices DEF NothingRefersTo
<1>9. Moves(p)
  BY <1>7, <1>8, ForgottenMeans DEF Moves, SessionState, Open
<1> QED
  BY <1>2, <1>4, <1>6, <1>9

LEMMA StepsAreLedgerSteps ==
  ASSUME Calm, TypeOK, TypeOK', IInv, IInv', [Next]_vars
  PROVE  Ledger!LedgerNext \/ UNCHANGED <<States, count>>
<1>1. ASSUME NEW s \in Sessions, OnlyConcerns({s}), Moves(s)
      PROVE  Ledger!LedgerNext \/ UNCHANGED <<States, count>>
  <2>1. \A r \in Sessions \ {s} : SessionState(r)' = SessionState(r)
    BY <1>1, OthersKeepState
  <2> QED
    BY <1>1, <2>1, MovesAreLedgerSteps
<1>2. CASE Accepted
  BY <1>1, <1>2, AcceptedConcerns, AcceptedMoves
<1>3. CASE ConnectTarget \/ ArmRead
  <2>1. thread[0].s \in Sessions
    BY <1>3, PoolIndices, BusyThread DEF ConnectTarget, ArmRead, TypeOK
  <2>2. PICK s \in Sessions, k \in Ios : s = thread[0].s /\ k = ios[s]
    BY <2>1 DEF TypeOK
  <2>3. OnlyConcerns({s})
    BY <1>3, <2>2, ConnectTargetConcerns, ArmReadConcerns
  <2> QED
    BY <1>1, <1>3, <2>2, <2>3, StartMoves
<1>4. CASE \E k \in Ios : Close(k)
  <2>1. PICK k \in Ios : Close(k)
    BY <1>4
  <2>2. PICK s \in Sessions, h \in Ios : s = thread[k].s /\ h = ios[s]
    BY <2>1, BusyThread DEF Close, TypeOK
  <2>3. OnlyConcerns({s}) /\ Moves(s)
    BY <2>1, <2>2, CloseConcerns, CloseMoves
  <2> QED
    BY <1>1, <2>3
<1>5. CASE \E k \in Ios : RunPosted(k)
  <2>1. PICK k \in Ios : RunPosted(k)
    BY <1>5
  <2>2. \A s \in Sessions : AtHome(s)
    BY DEF IInv, SessionInv
  <2>3. PICK done \in Queued(k), s \in Sessions : s = done.s /\ HandlerEffect(k, s, done)
    BY <2>1, <2>2, RunPostedEffect
  <2>4. thread[k] = Polling
    BY <2>1, PollingThread DEF RunPosted, TypeOK
  <2>5. OnlyConcerns({s})
    BY <2>3, <2>4, HandlerConcerns
  <2>6. UNCHANGED <<phase, closed, count>>
    BY <2>3 DEF HandlerEffect
  <2> QED
    BY <1>1, <2>3, <2>5, <2>6, RunPostedMoves
<1>6. CASE \E s \in Sessions : KeepaliveExpires(s) \/ \E c \in Channels : Readable(s, c)
  <2>1. PICK s \in Sessions : KeepaliveExpires(s) \/ \E c \in Channels : Readable(s, c)
    BY <1>6
  <2>2. PICK k \in Ios : k = ios[s]
    BY DEF TypeOK
  <2> QED
    BY <1>1, <2>1, <2>2, ReactorConcerns, ReactorMoves
<1>7. CASE \E s \in Sessions : StartAccept(s)
  <2>1. PICK s \in Sessions : StartAccept(s)
    BY <1>7
  <2>2. PICK p \in Sessions : p = thread[0].s
    BY <2>1, StartAcceptConcerns
  <2>3. OnlyConcerns({s, p})
    BY <2>1, <2>2, StartAcceptConcerns
  <2>4. \A r \in Sessions \ {s, p} : SessionState(r)' = SessionState(r)
    BY <2>3, OthersKeepState
  <2>5. SessionState(s)' = SessionState(s) /\ Moves(p)
    BY <2>1, <2>2, StartAcceptMoves
  <2>6. \A r \in Sessions \ {p} : SessionState(r)' = SessionState(r)
    BY <2>4, <2>5
  <2> QED
    BY <2>5, <2>6, MovesAreLedgerSteps
<1>8. CASE UNCHANGED vars
  <2>1. OnlyConcerns({})
    BY <1>8 DEF vars, sessionVars, OnlyConcerns, Queued, Contents
  <2>2. \A r \in Sessions : SessionState(r)' = SessionState(r)
    BY <2>1, OthersKeepState
  <2> QED
    BY <1>8, <2>2 DEF States, vars
<1> QED
  BY <1>2, <1>3, <1>4, <1>5, <1>6, <1>7, <1>8 DEF Next

\* Every behaviour is one of the ledger: each session is opened and counted once, is
\* closed and uncounted once, and its memory is used again only after that.
THEOREM LedgerImplemented ==
  ASSUME Calm
  PROVE  Spec => ImplementsLedger
<1>1. Init => Ledger!LedgerInit
  BY DEF Init, Ledger!LedgerInit, SessionState, Open
<1>2. TypeOK /\ IInv /\ (TypeOK /\ IInv)' /\ [Next]_vars
        => [Ledger!LedgerNext]_<<[s \in Sessions |-> SessionState(s)], count>>
  BY StepsAreLedgerSteps DEF States
<1> QED
  BY <1>1, <1>2, InvAlways, PTL DEF Spec, ImplementsLedger, Ledger!LedgerSpec
=============================================================================
