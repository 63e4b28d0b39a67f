-------------------- MODULE TcpSwitchSessionManager_proofs --------------------
(***************************************************************************)
(* Theorems about TcpSwitchSessionManager, for any pool, any number of     *)
(* sessions and any list of targets.                                       *)
(***************************************************************************)
EXTENDS TcpSwitchSessionManager, TLAPS

-----------------------------------------------------------------------------
(* The io_service pool.                                                    *)

\* Thread 0 exists, and the round robin never leaves the pool.
LEMMA PoolIndices ==
  /\ 0 \in Ios
  /\ \A i \in Ios : NextIndex(i) \in Ios
BY PoolSizeAssumption DEF Ios, NextIndex

\* So does the index after any number of io_services have been handed out.
LEMMA PoolModulus == \A n \in Nat : n % PoolSize \in Ios
BY PoolSizeAssumption DEF Ios

-----------------------------------------------------------------------------
(* Type correctness.                                                       *)

\* Appending to a queue of completions gives a queue of completions.
LEMMA CancelType ==
  ASSUME NEW s \in Sessions, NEW queue \in Seq(Completion)
  PROVE  Cancel(s, queue) \in Seq(Completion)
<1>1. TimerDone(s, "aborted") \in Completion
  BY SessionAssumption DEF TimerDone, Completion, Client, Channels
<1>2. Append(queue, TimerDone(s, "aborted")) \in Seq(Completion)
  BY <1>1
<1> QED
  BY <1>2 DEF Cancel

\* async_read_some() leaves the queues and the reads in progress well-typed.
LEMMA AsyncReadType ==
  ASSUME TypeOK, NEW s \in Sessions, NEW c \in Channels,
         NEW queue \in Seq(Completion), NEW busy \in SUBSET Channels,
         AsyncRead(s, c, queue, busy)
  PROVE  /\ posted' \in [Ios -> Seq(Completion)]
         /\ reading' \in [Sessions -> SUBSET Channels]
<1>1. \A ec \in {"ok", "error"} : Append(queue, ReadDone(s, c, ec)) \in Seq(Completion)
  <2> SUFFICES ASSUME NEW ec \in {"ok", "error"}
               PROVE  Append(queue, ReadDone(s, c, ec)) \in Seq(Completion)
    OBVIOUS
  <2>1. ReadDone(s, c, ec) \in Completion
    BY DEF ReadDone, Completion
  <2> QED
    BY <2>1
<1>2. CASE /\ reading' = [reading EXCEPT ![s] = busy \union {c}]
           /\ posted' = [posted EXCEPT ![ios[s]] = queue]
  BY <1>2 DEF TypeOK
<1>3. CASE \E ec \in {"ok", "error"} :
             /\ reading' = [reading EXCEPT ![s] = busy]
             /\ posted' = [posted EXCEPT ![ios[s]] = Append(queue, ReadDone(s, c, ec))]
  BY <1>1, <1>3 DEF TypeOK
<1> QED
  BY <1>2, <1>3 DEF AsyncRead

\* The states of a thread, as they are built by At.
LEMMA AtType ==
  ASSUME NEW pc \in {"connect", "arm", "close", "reaccept"}, NEW s \in Sessions,
         NEW i \in 0 .. TargetCount + 1, NEW by \in {"accept", "timer", "read"}
  PROVE  At(pc, s, i, by) \in ThreadState
BY DEF At, ThreadState

\* A thread that runs a handler runs it for a session.
LEMMA BusyThread ==
  ASSUME NEW t \in ThreadState, t.at # "poll"
  PROVE  /\ t \in [at : {"connect", "arm", "close", "reaccept"}, s : Sessions,
                    i : 0 .. TargetCount + 1, by : {"accept", "timer", "read"}]
         /\ t.s \in Sessions /\ t.i \in 0 .. TargetCount + 1
BY DEF ThreadState, Polling, At

\* The steps of thread 0 that run start() keep the types.
LEMMA StartTypes ==
  ASSUME TypeOK, Accepted \/ ConnectTarget \/ ArmRead
  PROVE  TypeOK'
<1> USE SessionAssumption, PoolIndices
<1>1. CASE Accepted
  <2>1. accepting \in Sessions
    BY <1>1 DEF Accepted, TypeOK
  <2>2. /\ At("connect", accepting, 1, "accept") \in ThreadState
        /\ At("reaccept", accepting, 0, "accept") \in ThreadState
    BY <2>1, AtType
  <2>3. CASE Start(accepting)
    BY <1>1, <2>1, <2>2, <2>3 DEF Accepted, Start, ResetKeepaliveTimer, TypeOK
  <2>4. CASE AcceptError(accepting)
    BY <1>1, <2>1, <2>2, <2>4 DEF Accepted, AcceptError, TypeOK, sessionVars
  <2> QED
    BY <1>1, <2>3, <2>4 DEF Accepted
<1>2. CASE ConnectTarget
  <2> DEFINE s == thread[0].s
             i == thread[0].i
  <2>1. s \in Sessions /\ i \in 0 .. TargetCount + 1 /\ thread[0] \in ThreadState
    BY <1>2, BusyThread DEF ConnectTarget, TypeOK
  <2>2. /\ At("arm", s, Client, "accept") \in ThreadState
        /\ At("close", s, 0, "accept") \in ThreadState
        /\ At("reaccept", s, 0, "accept") \in ThreadState
    BY <2>1, AtType DEF Client
  <2>3. i \in Targets => At("connect", s, i + 1, "accept") \in ThreadState
    BY <2>1, AtType DEF Targets
  <2>4. thread' \in [Ios -> ThreadState]
    BY <1>2, <2>2, <2>3 DEF ConnectTarget, TestClosed, TypeOK
  <2>5. targets' \in [Sessions -> SUBSET Targets]
    BY <1>2, <2>1 DEF ConnectTarget, TypeOK
  <2> QED
    BY <1>2, <2>4, <2>5 DEF ConnectTarget, TypeOK
<1>3. CASE ArmRead
  <2> DEFINE s == thread[0].s
             c == thread[0].i
  <2>1. s \in Sessions /\ c \in 0 .. TargetCount + 1 /\ thread[0] \in ThreadState
    BY <1>3, BusyThread DEF ArmRead, TypeOK
  <2>2. CASE ArmReadEnds(s, c)
    <3>1. At("reaccept", s, 0, "accept") \in ThreadState
      BY <2>1, AtType
    <3> QED
      BY <1>3, <2>2, <3>1 DEF ArmRead, TypeOK
  <2>3. CASE ~ArmReadEnds(s, c)
    <3>1. c \in Channels /\ c + 1 \in 0 .. TargetCount + 1
      BY <2>1, <2>3 DEF ArmReadEnds, Channels, Targets, Client
    <3>2. AsyncRead(s, c, posted[ios[s]], reading[s])
      BY <1>3, <2>3 DEF ArmRead
    <3>3. posted[ios[s]] \in Seq(Completion) /\ reading[s] \in SUBSET Channels
      BY <2>1 DEF TypeOK
    <3>4. posted' \in [Ios -> Seq(Completion)] /\ reading' \in [Sessions -> SUBSET Channels]
      BY <2>1, <3>1, <3>2, <3>3, AsyncReadType
    <3>5. At("arm", s, c + 1, "accept") \in ThreadState
      BY <2>1, <3>1, AtType
    <3>6. /\ thread' = [thread EXCEPT ![0] = At("arm", s, c + 1, "accept")]
          /\ UNCHANGED <<next_io_service, phase, ios, closed, listed, targets, armed,
                          accepting, count>>
      BY <1>3, <2>3 DEF ArmRead
    <3> HIDE DEF s, c
    <3> QED
      BY <3>4, <3>5, <3>6 DEF TypeOK
  <2> QED
    BY <2>2, <2>3
<1> QED
  BY <1>1, <1>2, <1>3

\* A queue gives up its head as a well-typed completion.
LEMMA QueueHead ==
  ASSUME NEW queue \in Seq(Completion), queue # <<>>
  PROVE  Head(queue) \in Completion /\ Tail(queue) \in Seq(Completion)
OBVIOUS

\* close() keeps the types.
LEMMA CloseTypes ==
  ASSUME TypeOK, NEW k \in Ios, Close(k)
  PROVE  TypeOK'
<1> DEFINE s == thread[k].s
<1>1. s \in Sessions
  BY BusyThread DEF Close, TypeOK
<1>2. Cancel(s, posted[ios[s]]) \in Seq(Completion)
  BY <1>1, CancelType DEF TypeOK
<1>3. posted' \in [Ios -> Seq(Completion)]
  BY <1>1, <1>2 DEF Close, TypeOK
<1>4. At("reaccept", s, 0, "accept") \in ThreadState /\ Polling \in ThreadState
  BY <1>1, SessionAssumption, AtType DEF ThreadState
<1>5. thread' \in [Ios -> ThreadState]
  BY <1>4 DEF Close, TypeOK
<1> QED
  BY <1>1, <1>3, <1>5 DEF Close, CancelKeepaliveTimer, CloseTargetSocket, TypeOK

\* The read handlers keep the types.
LEMMA ReadHandlerTypes ==
  ASSUME TypeOK, NEW k \in Ios, NEW s \in Sessions, NEW c \in Channels,
         NEW ec, NEW rest \in Seq(Completion), ReadHandler(k, s, c, ec, rest)
  PROVE  TypeOK'
<1>1. /\ posted' \in [Ios -> Seq(Completion)]
      /\ reading' \in [Sessions -> SUBSET Channels]
      /\ armed' \in [Sessions -> BOOLEAN]
      /\ thread' \in [Ios -> ThreadState]
  <2>1. CASE /\ posted' = [posted EXCEPT ![k] = rest]
             /\ UNCHANGED <<reading, armed, thread>>
    BY <2>1 DEF TypeOK
  <2>2. CASE /\ posted' = [posted EXCEPT ![k] = rest]
             /\ UNCHANGED <<reading, armed>>
             /\ thread' = [thread EXCEPT ![k] = At("close", s, 0, "read")]
    <3>1. At("close", s, 0, "read") \in ThreadState
      BY SessionAssumption, AtType
    <3> QED
      BY <2>2, <3>1 DEF TypeOK
  <2>3. CASE /\ ResetKeepaliveTimer(s)
             /\ AsyncRead(s, c, Cancel(s, rest), reading[s])
             /\ UNCHANGED thread
    <3>1. Cancel(s, rest) \in Seq(Completion) /\ reading[s] \in SUBSET Channels
      BY CancelType DEF TypeOK
    <3>2. posted' \in [Ios -> Seq(Completion)] /\ reading' \in [Sessions -> SUBSET Channels]
      BY <2>3, <3>1, AsyncReadType
    <3> QED
      BY <2>3, <3>2 DEF ResetKeepaliveTimer, TypeOK
  <2>4. CASE AsyncRead(s, c, rest, reading[s]) /\ UNCHANGED <<armed, thread>>
    <3>1. posted' \in [Ios -> Seq(Completion)] /\ reading' \in [Sessions -> SUBSET Channels]
      BY <2>4, AsyncReadType DEF TypeOK
    <3> QED
      BY <2>4, <3>1 DEF TypeOK
  <2> QED
    BY <2>1, <2>2, <2>3, <2>4 DEF ReadHandler
<1> QED
  BY <1>1 DEF ReadHandler, TypeOK

\* So does whatever handler a thread takes from its queue.
LEMMA RunPostedTypes ==
  ASSUME TypeOK, NEW k \in Ios, RunPosted(k)
  PROVE  TypeOK'
<1> DEFINE done == Head(posted[k])
           rest == Tail(posted[k])
<1>1. done \in Completion /\ rest \in Seq(Completion)
  BY QueueHead DEF RunPosted, TypeOK
<1>2. done.s \in Sessions /\ done.c \in Channels
  BY <1>1 DEF Completion
<1>3. CASE TimerHandler(k, done.s, done.ec, rest)
  <2>1. At("close", done.s, 0, "timer") \in ThreadState /\ Polling \in ThreadState
    BY <1>2, SessionAssumption, AtType DEF ThreadState
  <2>2. thread' \in [Ios -> ThreadState]
    BY <1>3, <2>1 DEF TimerHandler, TestClosed, TypeOK
  <2> QED
    BY <1>1, <1>3, <2>2 DEF TimerHandler, TypeOK, sessionVars
<1>4. CASE ReadyRead(k, done.s, done.c, rest)
  <2>1. CASE closed[done.s]
    <3>1. posted' \in [Ios -> Seq(Completion)]
      BY <1>1, <1>4, <2>1 DEF ReadyRead, TypeOK
    <3>2. reading[done.s] \union {done.c} \in SUBSET Channels
      BY <1>2 DEF TypeOK
    <3>3. reading' = [reading EXCEPT ![done.s] = @ \union {done.c}]
      BY <1>4, <2>1 DEF ReadyRead
    <3>4. reading' \in [Sessions -> SUBSET Channels]
      BY <1>2, <3>2, <3>3 DEF TypeOK
    <3> QED
      BY <1>4, <2>1, <3>1, <3>4 DEF ReadyRead, TypeOK
  <2>2. CASE ~closed[done.s]
    BY <1>1, <1>2, <1>4, <2>2, ReadHandlerTypes DEF ReadyRead
  <2> QED
    BY <2>1, <2>2
<1>5. CASE ReadHandler(k, done.s, done.c, done.ec, rest)
  BY <1>1, <1>2, <1>5, ReadHandlerTypes
<1> QED
  BY <1>3, <1>4, <1>5 DEF RunPosted

\* The reactor keeps the types, whether a socket is ready or a wait expires.
LEMMA ReactorTypes ==
  ASSUME TypeOK, NEW s \in Sessions,
         KeepaliveExpires(s) \/ \E c \in Channels : Readable(s, c)
  PROVE  TypeOK'
<1>1. CASE KeepaliveExpires(s)
  <2>1. TimerDone(s, "ok") \in Completion
    BY SessionAssumption DEF TimerDone, Completion, Client, Channels
  <2>2. Append(posted[ios[s]], TimerDone(s, "ok")) \in Seq(Completion)
    BY <2>1 DEF TypeOK
  <2> QED
    BY <1>1, <2>2 DEF KeepaliveExpires, TypeOK
<1>2. ASSUME NEW c \in Channels, Readable(s, c)
      PROVE  TypeOK'
  <2> DEFINE done == ReadDone(s, c, IF closed[s] THEN "aborted" ELSE "ready")
  <2>1. done \in Completion
    BY DEF ReadDone, Completion
  <2>2. Append(posted[ios[s]], done) \in Seq(Completion)
    BY <2>1 DEF TypeOK
  <2>3. posted' \in [Ios -> Seq(Completion)]
    BY <1>2, <2>2 DEF Readable, TypeOK
  <2> QED
    BY <1>2, <2>3 DEF Readable, TypeOK
<1> QED
  BY <1>1, <1>2

\* start_accept() keeps the types.
LEMMA StartAcceptTypes ==
  ASSUME TypeOK, NEW s \in Sessions, StartAccept(s)
  PROVE  TypeOK'
<1>1. Polling \in ThreadState
  BY DEF ThreadState
<1>2. next_io_service' \in Ios
  BY PoolIndices DEF StartAccept, GetIoService, TypeOK
<1>3. ios' \in [Sessions -> Ios]
  BY DEF StartAccept, TypeOK
<1>4. phase' \in [Sessions -> {"absent", "accepting", "started"}]
  BY DEF StartAccept, TypeOK
<1>5. thread' \in [Ios -> ThreadState]
  BY <1>1 DEF StartAccept, TypeOK
<1> QED
  BY <1>2, <1>3, <1>4, <1>5 DEF StartAccept, TypeOK

LEMMA InitTypes == Init => TypeOK
<1> SUFFICES ASSUME Init PROVE TypeOK
  OBVIOUS
<1>1. next_io_service \in Ios
  BY PoolModulus DEF Init, PoolInit
<1>2. posted \in [Ios -> Seq(Completion)]
  BY DEF Init, PoolInit
<1>3. thread \in [Ios -> ThreadState]
  BY DEF Init, ThreadState
<1>4. phase \in [Sessions -> {"absent", "accepting", "started"}]
  BY DEF Init
<1> QED
  BY <1>1, <1>2, <1>3, <1>4, PoolIndices DEF Init, TypeOK

LEMMA NextTypes == TypeOK /\ [Next]_vars => TypeOK'
<1> SUFFICES ASSUME TypeOK, [Next]_vars PROVE TypeOK'
  OBVIOUS
<1>1. CASE Accepted \/ ConnectTarget \/ ArmRead
  BY <1>1, StartTypes
<1>2. CASE \E k \in Ios : Close(k) \/ RunPosted(k)
  BY <1>2, CloseTypes, RunPostedTypes
<1>3. CASE \E s \in Sessions, c \in Channels : Readable(s, c)
  BY <1>3, ReactorTypes
<1>4. CASE \E s \in Sessions : StartAccept(s) \/ KeepaliveExpires(s)
  BY <1>4, StartAcceptTypes, ReactorTypes
<1>5. CASE UNCHANGED vars
  BY <1>5 DEF TypeOK, vars, sessionVars
<1> QED
  BY <1>1, <1>2, <1>3, <1>4, <1>5 DEF Next

\* Every reachable state is well-typed: in particular the queues hold completions
\* of sessions that exist, and a thread runs a handler for a session.
THEOREM TypeCorrect == Spec => []TypeOK
BY InitTypes, NextTypes, PTL DEF Spec

-----------------------------------------------------------------------------
(* Queues as sets of completions.                                          *)

LEMMA ContentsAppend ==
  ASSUME NEW S, NEW queue \in Seq(S), NEW e \in S
  PROVE  Contents(Append(queue, e)) = Contents(queue) \union {e}
<1>1. /\ DOMAIN Append(queue, e) = 1 .. Len(queue) + 1
      /\ DOMAIN queue = 1 .. Len(queue)
      /\ Len(queue) \in Nat
  OBVIOUS
<1>2. /\ Append(queue, e)[Len(queue) + 1] = e
      /\ \A j \in 1 .. Len(queue) : Append(queue, e)[j] = queue[j]
  OBVIOUS
<1>3. \A j \in 1 .. Len(queue) + 1 : j = Len(queue) + 1 \/ j \in 1 .. Len(queue)
  BY <1>1
<1>4. \A j \in 1 .. Len(queue) : j \in 1 .. Len(queue) + 1
  BY <1>1
<1>5. Len(queue) + 1 \in 1 .. Len(queue) + 1
  BY <1>1
<1> QED
  BY <1>1, <1>2, <1>3, <1>4, <1>5 DEF Contents

LEMMA ContentsTail ==
  ASSUME NEW S, NEW queue \in Seq(S), queue # <<>>
  PROVE  Contents(queue) = {Head(queue)} \union Contents(Tail(queue))
<1>1. /\ DOMAIN queue = 1 .. Len(queue)
      /\ DOMAIN Tail(queue) = 1 .. Len(queue) - 1
      /\ Len(queue) \in Nat \ {0}
  OBVIOUS
<1>2. /\ Head(queue) = queue[1]
      /\ \A j \in 1 .. Len(queue) - 1 : Tail(queue)[j] = queue[j + 1]
  OBVIOUS
<1>3. \A j \in 1 .. Len(queue) : j = 1 \/ (j - 1 \in 1 .. Len(queue) - 1 /\ j = (j - 1) + 1)
  BY <1>1
<1>4. \A j \in 1 .. Len(queue) - 1 : j + 1 \in 1 .. Len(queue)
  BY <1>1
<1>5. 1 \in 1 .. Len(queue)
  BY <1>1
<1>6. ASSUME NEW e \in Contents(queue)
      PROVE  e \in {Head(queue)} \union Contents(Tail(queue))
  <2>1. PICK j \in 1 .. Len(queue) : e = queue[j]
    BY <1>1, <1>6 DEF Contents
  <2>2. CASE j = 1
    BY <1>2, <2>1, <2>2
  <2>3. CASE j - 1 \in 1 .. Len(queue) - 1 /\ j = (j - 1) + 1
    BY <1>1, <1>2, <2>1, <2>3 DEF Contents
  <2> QED
    BY <1>3, <2>2, <2>3
<1>7. ASSUME NEW e \in Contents(Tail(queue))
      PROVE  e \in Contents(queue)
  <2>1. PICK j \in 1 .. Len(queue) - 1 : e = Tail(queue)[j]
    BY <1>1, <1>7 DEF Contents
  <2> QED
    BY <1>1, <1>2, <1>4, <2>1 DEF Contents
<1>8. Head(queue) \in Contents(queue)
  BY <1>1, <1>2, <1>5 DEF Contents
<1> QED
  BY <1>6, <1>7, <1>8

\* Cancelling the wait of s only adds a completion of s.
LEMMA ContentsCancel ==
  ASSUME NEW s \in Sessions, NEW queue \in Seq(Completion)
  PROVE  /\ Contents(queue) \subseteq Contents(Cancel(s, queue))
         /\ \A e \in Contents(Cancel(s, queue)) : e \in Contents(queue) \/ e.s = s
<1>1. TimerDone(s, "aborted") \in Completion /\ TimerDone(s, "aborted").s = s
  BY SessionAssumption DEF TimerDone, Completion, Client, Channels
<1>2. Contents(Append(queue, TimerDone(s, "aborted")))
        = Contents(queue) \union {TimerDone(s, "aborted")}
  BY <1>1, ContentsAppend
<1> QED
  BY <1>1, <1>2 DEF Cancel

\* Replacing one queue leaves the others alone.
LEMMA Requeue ==
  ASSUME TypeOK, NEW k \in Ios, NEW queue,
         posted' = [posted EXCEPT ![k] = queue]
  PROVE  /\ Queued(k)' = Contents(queue)
         /\ \A j \in Ios \ {k} : Queued(j)' = Queued(j)
<1>1. posted'[k] = queue /\ \A j \in Ios \ {k} : posted'[j] = posted[j]
  BY DEF TypeOK
<1>2. \A j \in Ios : Queued(j)' = Contents(posted'[j]) /\ Queued(j) = Contents(posted[j])
  BY DEF Queued, Contents
<1> QED
  BY <1>1, <1>2

\* async_read_some() on the queue of k keeps what is there, and adds at most a
\* completion of s.
LEMMA AsyncReadEffect ==
  ASSUME TypeOK, NEW s \in Sessions, NEW c \in Channels, NEW k \in Ios, k = ios[s],
         NEW queue \in Seq(Completion), NEW busy \in SUBSET Channels,
         AsyncRead(s, c, queue, busy)
  PROVE  /\ Contents(queue) \subseteq Queued(k)'
         /\ \A e \in Queued(k)' : e \in Contents(queue) \/ e.s = s
         /\ \A j \in Ios \ {k} : Queued(j)' = Queued(j)
         /\ \E reads \in SUBSET Channels : reading' = [reading EXCEPT ![s] = reads]
<1>1. CASE /\ reading' = [reading EXCEPT ![s] = busy \union {c}]
           /\ posted' = [posted EXCEPT ![ios[s]] = queue]
  <2>1. busy \union {c} \in SUBSET Channels
    OBVIOUS
  <2>2. \E reads \in SUBSET Channels : reading' = [reading EXCEPT ![s] = reads]
    BY <1>1, <2>1
  <2>3. Queued(k)' = Contents(queue) /\ \A j \in Ios \ {k} : Queued(j)' = Queued(j)
    BY <1>1, Requeue
  <2> QED
    BY <2>2, <2>3
<1>2. CASE \E ec \in {"ok", "error"} :
             /\ reading' = [reading EXCEPT ![s] = busy]
             /\ posted' = [posted EXCEPT ![ios[s]] = Append(queue, ReadDone(s, c, ec))]
  <2>1. PICK ec \in {"ok", "error"} :
             /\ reading' = [reading EXCEPT ![s] = busy]
             /\ posted' = [posted EXCEPT ![k] = Append(queue, ReadDone(s, c, ec))]
    BY <1>2
  <2>2. ReadDone(s, c, ec) \in Completion /\ ReadDone(s, c, ec).s = s
    BY DEF ReadDone, Completion
  <2>3. Contents(Append(queue, ReadDone(s, c, ec))) = Contents(queue) \union {ReadDone(s, c, ec)}
    BY <2>2, ContentsAppend
  <2>4. /\ Queued(k)' = Contents(Append(queue, ReadDone(s, c, ec)))
        /\ \A j \in Ios \ {k} : Queued(j)' = Queued(j)
    BY <2>1, Requeue
  <2>5. /\ Contents(queue) \subseteq Queued(k)'
        /\ \A e \in Queued(k)' : e \in Contents(queue) \/ e.s = s
    BY <2>2, <2>3, <2>4
  <2> QED
    BY <2>1, <2>4, <2>5
<1> QED
  BY <1>1, <1>2 DEF AsyncRead

-----------------------------------------------------------------------------
(* What one handler changes.                                               *)

\* Thread k ran "done", a completion of s: only s changes, the rest of the queue
\* stays, and the thread may have gone on to close s.
HandlerEffect(k, s, done) ==
  /\ UNCHANGED <<next_io_service, phase, ios, closed, listed, targets, accepting, count>>
  /\ \A j \in Ios \ {k} : Queued(j)' = Queued(j)
  /\ \A e \in Queued(k) : e # done => e \in Queued(k)'
  /\ \A e \in Queued(k)' : e \in Queued(k) \/ e.s = s
  /\ armed' = armed \/ (armed' = [armed EXCEPT ![s] = TRUE] /\ ~closed[s])
  /\ \E reads \in SUBSET Channels : reading' = [reading EXCEPT ![s] = reads]
  /\ \/ thread' = thread
     \/ \E by \in {"timer", "read"} :
          /\ thread' = [thread EXCEPT ![k] = At("close", s, 0, by)]
          /\ FreedClosed = {TRUE} => ~closed[s]

LEMMA ReadHandlerEffect ==
  ASSUME TypeOK, NEW k \in Ios, NEW s \in Sessions, NEW c \in Channels, k = ios[s],
         NEW ec, NEW done, NEW rest \in Seq(Completion),
         Queued(k) = {done} \union Contents(rest),
         ReadHandler(k, s, c, ec, rest)
  PROVE  HandlerEffect(k, s, done)
<1> DEFINE queued == /\ \A j \in Ios \ {k} : Queued(j)' = Queued(j)
                     /\ \A e \in Queued(k) : e # done => e \in Queued(k)'
                     /\ \A e \in Queued(k)' : e \in Queued(k) \/ e.s = s
           reads == \E r \in SUBSET Channels : reading' = [reading EXCEPT ![s] = r]
<1>1. PICK closedRead \in IF Alive(s) THEN {closed[s]} ELSE FreedClosed :
        \/ /\ closedRead \/ ec = "aborted"
           /\ posted' = [posted EXCEPT ![k] = rest]
           /\ UNCHANGED <<reading, armed, thread>>
        \/ /\ ~closedRead /\ ec = "error"
           /\ posted' = [posted EXCEPT ![k] = rest]
           /\ UNCHANGED reading
           /\ thread' = [thread EXCEPT ![k] = At("close", s, 0, "read")]
           /\ UNCHANGED armed
        \/ /\ ~closedRead /\ ec = "ok"
           /\ IF c = Client /\ Alive(s)
              THEN /\ ResetKeepaliveTimer(s)
                   /\ AsyncRead(s, c, Cancel(s, rest), reading[s])
              ELSE /\ AsyncRead(s, c, rest, reading[s])
                   /\ UNCHANGED armed
           /\ UNCHANGED thread
  BY DEF ReadHandler
<1>2. ~closedRead => (FreedClosed = {TRUE} => ~closed[s]) /\ (Alive(s) => ~closed[s])
  BY <1>1
<1>3. ASSUME posted' = [posted EXCEPT ![k] = rest]
      PROVE  queued
  <2>1. Queued(k)' = Contents(rest) /\ \A j \in Ios \ {k} : Queued(j)' = Queued(j)
    BY <1>3, Requeue
  <2> QED
    BY <2>1
<1>4. UNCHANGED reading => reads
  BY DEF TypeOK
<1>5. reading[s] \in SUBSET Channels
  BY DEF TypeOK
<1>6. CASE /\ ~closedRead /\ ec = "ok"
           /\ ResetKeepaliveTimer(s)
           /\ AsyncRead(s, c, Cancel(s, rest), reading[s])
           /\ UNCHANGED thread
           /\ Alive(s)
  <2>1. Cancel(s, rest) \in Seq(Completion)
    BY CancelType
  <2>2. /\ Contents(Cancel(s, rest)) \subseteq Queued(k)'
        /\ \A e \in Queued(k)' : e \in Contents(Cancel(s, rest)) \/ e.s = s
        /\ \A j \in Ios \ {k} : Queued(j)' = Queued(j)
        /\ reads
    <3>1. PICK queue \in Seq(Completion) : queue = Cancel(s, rest)
      BY <2>1
    <3>2. PICK busy \in SUBSET Channels : busy = reading[s]
      BY <1>5
    <3>3. AsyncRead(s, c, queue, busy)
      BY <1>6, <3>1, <3>2
    <3>4. /\ Contents(queue) \subseteq Queued(k)'
          /\ \A e \in Queued(k)' : e \in Contents(queue) \/ e.s = s
          /\ \A j \in Ios \ {k} : Queued(j)' = Queued(j)
          /\ \E r \in SUBSET Channels : reading' = [reading EXCEPT ![s] = r]
      BY ONLY TypeOK, k = ios[s], <3>3, AsyncReadEffect
    <3> QED
      BY <3>1, <3>4
  <2>3. /\ Contents(rest) \subseteq Contents(Cancel(s, rest))
        /\ \A e \in Contents(Cancel(s, rest)) : e \in Contents(rest) \/ e.s = s
    BY ContentsCancel
  <2>4. queued
    BY <2>2, <2>3
  <2>5. armed' = [armed EXCEPT ![s] = TRUE] /\ ~closed[s]
    BY <1>2, <1>6 DEF ResetKeepaliveTimer
  <2> QED
    BY <1>6, <2>2, <2>4, <2>5 DEF HandlerEffect, ReadHandler
<1>7. CASE /\ ~closedRead /\ ec = "ok"
           /\ AsyncRead(s, c, rest, reading[s])
           /\ UNCHANGED <<armed, thread>>
  <2>1. /\ Contents(rest) \subseteq Queued(k)'
        /\ \A e \in Queued(k)' : e \in Contents(rest) \/ e.s = s
        /\ \A j \in Ios \ {k} : Queued(j)' = Queued(j)
        /\ reads
    BY <1>5, <1>7, AsyncReadEffect
  <2>2. queued
    BY <2>1
  <2> QED
    BY <1>7, <2>1, <2>2 DEF HandlerEffect, ReadHandler
<1>8. CASE /\ closedRead \/ ec = "aborted"
           /\ posted' = [posted EXCEPT ![k] = rest]
           /\ UNCHANGED <<reading, armed, thread>>
  BY <1>3, <1>4, <1>8 DEF HandlerEffect, ReadHandler
<1>9. CASE /\ ~closedRead /\ ec = "error"
           /\ posted' = [posted EXCEPT ![k] = rest]
           /\ UNCHANGED <<reading, armed>>
           /\ thread' = [thread EXCEPT ![k] = At("close", s, 0, "read")]
  BY <1>2, <1>3, <1>4, <1>9 DEF HandlerEffect, ReadHandler
<1> QED
  BY <1>1, <1>6, <1>7, <1>8, <1>9

\* A thread that polls is in the one polling state.
LEMMA PollingThread ==
  ASSUME NEW t \in ThreadState, t.at = "poll"
  PROVE  t = Polling
BY DEF ThreadState

LEMMA QueuedType ==
  ASSUME TypeOK, NEW k \in Ios
  PROVE  Queued(k) \subseteq Completion
BY DEF TypeOK, Queued, Contents

\* Whatever handler thread k takes from its queue has the effect of a handler;
\* a keepalive wait that has expired closes a session that is open.
LEMMA RunPostedEffect ==
  ASSUME TypeOK, \A s \in Sessions : AtHome(s), NEW k \in Ios, RunPosted(k)
  PROVE  LET done == Head(posted[k]) IN
         /\ done \in Queued(k) /\ done.s \in Sessions /\ ios[done.s] = k
         /\ HandlerEffect(k, done.s, done)
         /\ done = TimerDone(done.s, "ok") /\ ~closed[done.s] =>
              thread' = [thread EXCEPT ![k] = At("close", done.s, 0, "timer")]
<1> DEFINE done == Head(posted[k])
           s == done.s
           rest == Tail(posted[k])
<1>1. done \in Completion /\ rest \in Seq(Completion)
  BY QueueHead DEF RunPosted, TypeOK
<1>2. s \in Sessions /\ done.c \in Channels
  BY <1>1 DEF Completion
<1>3. Queued(k) = {done} \union Contents(rest)
  <2>1. posted[k] \in Seq(Completion) /\ posted[k] # <<>>
    BY DEF RunPosted, TypeOK
  <2>2. Contents(posted[k]) = {done} \union Contents(rest)
    BY <2>1, ContentsTail
  <2> QED
    BY <2>2 DEF Queued
<1>4. ios[s] = k
  BY <1>2, <1>3 DEF AtHome
<1>5. thread[k] = Polling /\ [thread EXCEPT ![k] = Polling] = thread
  BY PollingThread DEF RunPosted, TypeOK
<1>6. reading[s] \in SUBSET Channels /\ reading = [reading EXCEPT ![s] = reading[s]]
  BY <1>2 DEF TypeOK
<1>7. ASSUME posted' = [posted EXCEPT ![k] = rest]
      PROVE  /\ \A j \in Ios \ {k} : Queued(j)' = Queued(j)
             /\ \A e \in Queued(k) : e # done => e \in Queued(k)'
             /\ \A e \in Queued(k)' : e \in Queued(k) \/ e.s = s
  <2>1. Queued(k)' = Contents(rest) /\ \A j \in Ios \ {k} : Queued(j)' = Queued(j)
    BY <1>7, Requeue
  <2> QED
    BY <1>3, <2>1
<1>8. CASE done.op = "timer" /\ TimerHandler(k, s, done.ec, rest)
  <2>1. \/ thread' = thread
        \/ thread' = [thread EXCEPT ![k] = At("close", s, 0, "timer")] /\ ~closed[s]
    BY <1>5, <1>8 DEF TimerHandler, TestClosed
  <2>2. \E r \in SUBSET Channels : reading' = [reading EXCEPT ![s] = r]
    BY <1>6, <1>8 DEF TimerHandler, sessionVars
  <2>3. HandlerEffect(k, s, done)
    BY <1>7, <1>8, <2>1, <2>2 DEF HandlerEffect, TimerHandler, sessionVars
  <2>4. done = TimerDone(s, "ok") /\ ~closed[s] =>
          thread' = [thread EXCEPT ![k] = At("close", s, 0, "timer")]
    BY <1>8 DEF TimerHandler, TestClosed, TimerDone
  <2> QED
    BY <1>2, <1>3, <1>4, <2>3, <2>4
<1>9. CASE done.op = "read"
  <2>1. done # TimerDone(s, "ok")
    BY <1>9 DEF TimerDone
  <2>2. CASE ReadHandler(k, s, done.c, done.ec, rest)
    <3>1. HandlerEffect(k, s, done)
      BY <1>1, <1>2, <1>3, <1>4, <2>2, ReadHandlerEffect
    <3> QED
      BY <1>2, <1>3, <1>4, <2>1, <3>1
  <2>3. CASE ReadyRead(k, s, done.c, rest) /\ ~closed[s]
    <3>1. PICK ec \in {"ok", "error"} : ReadHandler(k, s, done.c, ec, rest)
      BY <2>3 DEF ReadyRead
    <3>2. HandlerEffect(k, s, done)
      BY <1>1, <1>2, <1>3, <1>4, <3>1, ReadHandlerEffect
    <3> QED
      BY <1>2, <1>3, <1>4, <2>1, <3>2
  <2>4. CASE ReadyRead(k, s, done.c, rest) /\ closed[s]
    <3>1. reading[s] \union {done.c} \in SUBSET Channels
      BY <1>2, <1>6
    <3>2. \E r \in SUBSET Channels : reading' = [reading EXCEPT ![s] = r]
      BY <2>4, <3>1 DEF ReadyRead
    <3>3. HandlerEffect(k, s, done)
      BY <1>7, <2>4, <3>2 DEF HandlerEffect, ReadyRead
    <3> QED
      BY <1>2, <1>3, <1>4, <2>1, <3>3
  <2> QED
    BY <1>9, <2>2, <2>3, <2>4 DEF RunPosted
<1> QED
  BY <1>8, <1>9 DEF RunPosted

-----------------------------------------------------------------------------
(* A step concerns few sessions.                                           *)

\* Nothing that belongs to a session outside S changes.
OnlyConcerns(S) ==
  \A r \in Sessions \ S :
    /\ phase'[r] = phase[r] /\ ios'[r] = ios[r] /\ closed'[r] = closed[r]
    /\ listed'[r] = listed[r] /\ targets'[r] = targets[r]
    /\ reading'[r] = reading[r] /\ armed'[r] = armed[r]
    /\ \A k \in Ios : \A e \in Completion : e.s = r => (e \in Queued(k)' <=> e \in Queued(k))
    /\ \A k \in Ios : thread'[k] = thread[k] \/ (thread[k].s # r /\ thread'[k].s # r)
    /\ accepting' = r => accepting = r

\* So its invariant stays.
LEMMA OthersKeepInv ==
  ASSUME TypeOK, TypeOK', NEW S, OnlyConcerns(S), NEW r \in Sessions \ S
  PROVE  /\ SessionInv(r) => SessionInv(r)'
         /\ CalmInv(r) => CalmInv(r)'
<1>1. \A k \in Ios : Queued(k) \subseteq Completion /\ Queued(k)' \subseteq Completion
  BY QueuedType, TypeOK' DEF TypeOK, Queued, Contents
<1>2. Open(r)' = Open(r)
  BY DEF OnlyConcerns, Open
<1>3. AtHome(r) => AtHome(r)'
  BY <1>1 DEF OnlyConcerns, AtHome
<1>4. Expired(r) => Expired(r)'
  BY <1>1, SessionAssumption DEF OnlyConcerns, Expired, TimerDone, TypeOK
<1>5. ClosedByTimer(r) => ClosedByTimer(r)'
  BY DEF OnlyConcerns, ClosedByTimer
<1>6. KeepaliveChain(r) => KeepaliveChain(r)'
  BY <1>2, <1>4, <1>5 DEF OnlyConcerns, KeepaliveChain
<1>7. Untouched(r) => Untouched(r)'
  BY <1>1 DEF OnlyConcerns, Untouched
<1>8. Fresh(r) => Fresh(r)'
  BY <1>7, PoolIndices DEF OnlyConcerns, Fresh
<1>9. Connecting(r)' => Connecting(r)
  BY PoolIndices DEF OnlyConcerns, Connecting
<1>10. ConnectIsUndisturbed(r) => ConnectIsUndisturbed(r)'
  BY <1>2, <1>7, <1>9, PoolIndices DEF OnlyConcerns, ConnectIsUndisturbed
<1>11. HandlersOfStarted(r) => HandlersOfStarted(r)'
  BY <1>1 DEF OnlyConcerns, HandlersOfStarted
<1>12. OneCloser(r) => OneCloser(r)'
  BY <1>2 DEF OnlyConcerns, OneCloser
<1>13. ClosedIsEmpty(r) => ClosedIsEmpty(r)'
  BY DEF OnlyConcerns, ClosedIsEmpty
<1> QED
  BY <1>3, <1>6, <1>8, <1>10, <1>11, <1>12, <1>13 DEF SessionInv, CalmInv

\* The steps of start() concern the session that thread 0 starts.
LEMMA AcceptedConcerns ==
  ASSUME TypeOK, Accepted
  PROVE  /\ accepting \in Sessions /\ accepting' = NoSession
         /\ thread[0] = Polling
         /\ OnlyConcerns({accepting})
<1>1. accepting \in Sessions /\ accepting' = NoSession
  BY DEF Accepted, TypeOK
<1>2. thread[0] = Polling
  BY PoolIndices, PollingThread DEF Accepted, TypeOK
<1>3. posted' = posted
  BY DEF Accepted, Start, AcceptError
<1>4. \A k \in Ios : Queued(k)' = Queued(k)
  BY <1>3 DEF Queued, Contents
<1>5. \A r \in Sessions : accepting' # r
  BY <1>1, SessionAssumption
<1>6. \E pc \in {"connect", "reaccept"} : \E i : thread' = [thread EXCEPT ![0] = At(pc, accepting, i, "accept")]
  BY DEF Accepted, Start, AcceptError
<1>7. \A r \in Sessions \ {accepting} : \A k \in Ios :
        thread'[k] = thread[k] \/ (thread[k].s # r /\ thread'[k].s # r)
  BY <1>2, <1>6, SessionAssumption DEF TypeOK, At, Polling
<1>8. \A r \in Sessions \ {accepting} :
        /\ phase'[r] = phase[r] /\ ios'[r] = ios[r] /\ closed'[r] = closed[r]
        /\ listed'[r] = listed[r] /\ targets'[r] = targets[r]
        /\ reading'[r] = reading[r] /\ armed'[r] = armed[r]
  BY DEF Accepted, Start, AcceptError, ResetKeepaliveTimer, TypeOK, sessionVars
<1> QED
  BY <1>1, <1>2, <1>4, <1>5, <1>7, <1>8 DEF OnlyConcerns

LEMMA ConnectTargetConcerns ==
  ASSUME TypeOK, ConnectTarget
  PROVE  /\ thread[0].s \in Sessions
         /\ \E pc \in {"connect", "arm", "close", "reaccept"}, i \in Nat :
              thread' = [thread EXCEPT ![0] = At(pc, thread[0].s, i, "accept")]
         /\ OnlyConcerns({thread[0].s})
<1> DEFINE s == thread[0].s
<1>1. s \in Sessions /\ thread[0].i \in 0 .. TargetCount + 1
  BY PoolIndices, BusyThread DEF ConnectTarget, TypeOK
<1>2. \E pc \in {"connect", "arm", "close", "reaccept"}, i \in Nat :
        thread' = [thread EXCEPT ![0] = At(pc, s, i, "accept")]
  BY <1>1, SessionAssumption DEF ConnectTarget, TestClosed, Targets, Client
<1>3. posted' = posted
  BY DEF ConnectTarget
<1>4. \A k \in Ios : Queued(k)' = Queued(k)
  BY <1>3 DEF Queued, Contents
<1>5. \A r \in Sessions \ {s} : \A k \in Ios :
        thread'[k] = thread[k] \/ (thread[k].s # r /\ thread'[k].s # r)
  BY <1>2 DEF TypeOK, At
<1>6. \A r \in Sessions \ {s} : targets'[r] = targets[r]
  BY DEF ConnectTarget, TypeOK
<1> QED
  BY <1>1, <1>2, <1>4, <1>5, <1>6 DEF OnlyConcerns, ConnectTarget

LEMMA ArmReadConcerns ==
  ASSUME TypeOK, ArmRead, NEW s \in Sessions, s = thread[0].s, NEW k \in Ios, k = ios[s]
  PROVE  /\ \E pc \in {"arm", "reaccept"}, i \in Nat :
              thread' = [thread EXCEPT ![0] = At(pc, s, i, "accept")]
         /\ Queued(k) \subseteq Queued(k)'
         /\ \A e \in Queued(k)' : e \in Queued(k) \/ e.s = s
         /\ \A j \in Ios \ {k} : Queued(j)' = Queued(j)
         /\ \E reads \in SUBSET Channels : reading' = [reading EXCEPT ![s] = reads]
         /\ OnlyConcerns({s})
<1> DEFINE c == thread[0].i
<1>1. s \in Sessions /\ c \in 0 .. TargetCount + 1 /\ k \in Ios
  BY PoolIndices, BusyThread DEF ArmRead, TypeOK
<1>2. \E pc \in {"arm", "reaccept"}, i \in Nat :
        thread' = [thread EXCEPT ![0] = At(pc, s, i, "accept")]
  BY <1>1, SessionAssumption DEF ArmRead
<1>3. /\ Queued(k) \subseteq Queued(k)'
      /\ \A e \in Queued(k)' : e \in Queued(k) \/ e.s = s
      /\ \A j \in Ios \ {k} : Queued(j)' = Queued(j)
      /\ \E reads \in SUBSET Channels : reading' = [reading EXCEPT ![s] = reads]
  <2>1. CASE ArmReadEnds(s, c)
    <3>1. posted' = posted /\ reading' = reading
      BY <2>1 DEF ArmRead
    <3>2. \A j \in Ios : Queued(j)' = Queued(j)
      BY <3>1 DEF Queued, Contents
    <3>3. reading[s] \in SUBSET Channels /\ reading' = [reading EXCEPT ![s] = reading[s]]
      BY <1>1, <3>1 DEF TypeOK
    <3> QED
      BY <1>1, <3>2, <3>3
  <2>2. CASE ~ArmReadEnds(s, c)
    <3>1. c \in Channels
      BY <1>1, <2>2, SessionAssumption DEF ArmReadEnds, Channels, Targets, Client
    <3>2. AsyncRead(s, c, posted[k], reading[s])
      BY <2>2 DEF ArmRead
    <3>3. posted[k] \in Seq(Completion) /\ reading[s] \in SUBSET Channels
      BY <1>1 DEF TypeOK
    <3>4. Contents(posted[k]) = Queued(k)
      BY DEF Queued
    <3> HIDE DEF c
    <3>5. PICK queue \in Seq(Completion), busy \in SUBSET Channels, d \in Channels :
            queue = posted[k] /\ AsyncRead(s, d, queue, busy)
      BY <3>1, <3>2, <3>3
    <3>6. /\ Contents(queue) \subseteq Queued(k)'
          /\ \A e \in Queued(k)' : e \in Contents(queue) \/ e.s = s
          /\ \A j \in Ios \ {k} : Queued(j)' = Queued(j)
          /\ \E reads \in SUBSET Channels : reading' = [reading EXCEPT ![s] = reads]
      BY ONLY TypeOK, s \in Sessions, k \in Ios, k = ios[s], d \in Channels,
              queue \in Seq(Completion), busy \in SUBSET Channels, <3>5, AsyncReadEffect
    <3>7. Contents(queue) = Queued(k)
      BY <3>4, <3>5
    <3> QED
      BY <3>6, <3>7
  <2> QED
    BY <2>1, <2>2
<1>4. \A r \in Sessions \ {s} : \A j \in Ios :
        thread'[j] = thread[j] \/ (thread[j].s # r /\ thread'[j].s # r)
  BY <1>2 DEF TypeOK, At
<1>5. \A r \in Sessions \ {s} : reading'[r] = reading[r]
  BY <1>1, <1>3 DEF TypeOK
<1>6. \A r \in Sessions \ {s} : \A j \in Ios : \A e \in Completion :
        e.s = r => (e \in Queued(j)' <=> e \in Queued(j))
  BY <1>3
<1> QED
  BY <1>1, <1>2, <1>3, <1>4, <1>5, <1>6 DEF OnlyConcerns, ArmRead

\* What close() leaves in the queue of its session.
LEMMA CloseConcerns ==
  ASSUME TypeOK, NEW k \in Ios, Close(k),
         NEW s \in Sessions, s = thread[k].s, NEW h \in Ios, h = ios[s]
  PROVE  /\ Queued(h) \subseteq Queued(h)'
         /\ \A e \in Queued(h)' : e \in Queued(h) \/ e.s = s
         /\ \A j \in Ios \ {h} : Queued(j)' = Queued(j)
         /\ OnlyConcerns({s})
<1>1. s \in Sessions /\ h \in Ios
  BY BusyThread DEF Close, TypeOK
<1>2. posted' = [posted EXCEPT ![h] = Cancel(s, posted[h])]
  BY DEF Close
<1>3. Queued(h)' = Contents(Cancel(s, posted[h])) /\ \A j \in Ios \ {h} : Queued(j)' = Queued(j)
  BY <1>1, <1>2, Requeue
<1>4. /\ Contents(posted[h]) \subseteq Contents(Cancel(s, posted[h]))
      /\ \A e \in Contents(Cancel(s, posted[h])) : e \in Contents(posted[h]) \/ e.s = s
  BY <1>1, ContentsCancel DEF TypeOK
<1>5. Queued(h) \subseteq Queued(h)' /\ \A e \in Queued(h)' : e \in Queued(h) \/ e.s = s
  BY <1>3, <1>4 DEF Queued
<1>6. \A r \in Sessions \ {s} : \A j \in Ios : \A e \in Completion :
        e.s = r => (e \in Queued(j)' <=> e \in Queued(j))
  BY <1>3, <1>5
<1>7. \A r \in Sessions \ {s} : \A j \in Ios :
        thread'[j] = thread[j] \/ (thread[j].s # r /\ thread'[j].s # r)
  BY SessionAssumption DEF Close, TypeOK, At, Polling
<1>8. \A r \in Sessions \ {s} :
        /\ closed'[r] = closed[r] /\ listed'[r] = listed[r]
        /\ targets'[r] = targets[r] /\ armed'[r] = armed[r]
  BY DEF Close, CancelKeepaliveTimer, CloseTargetSocket, TypeOK
<1> QED
  BY <1>1, <1>3, <1>5, <1>6, <1>7, <1>8 DEF OnlyConcerns, Close

\* A handler concerns the session of its completion.
LEMMA HandlerConcerns ==
  ASSUME TypeOK, NEW k \in Ios, NEW s \in Sessions, NEW done,
         done.s = s, thread[k] = Polling, HandlerEffect(k, s, done)
  PROVE  OnlyConcerns({s})
<1>1. \A r \in Sessions \ {s} : \A j \in Ios : \A e \in Completion :
        e.s = r => (e \in Queued(j)' <=> e \in Queued(j))
  BY DEF HandlerEffect
<1>2. \A r \in Sessions \ {s} : \A j \in Ios :
        thread'[j] = thread[j] \/ (thread[j].s # r /\ thread'[j].s # r)
  <2>1. thread \in [Ios -> ThreadState] /\ thread[k].s = NoSession
    BY DEF TypeOK, Polling, At
  <2>2. \/ thread' = thread
        \/ \E by : thread' = [thread EXCEPT ![k] = At("close", s, 0, by)]
    BY DEF HandlerEffect
  <2>3. \A by : At("close", s, 0, by).s = s
    BY DEF At
  <2> QED
    BY <2>1, <2>2, <2>3, SessionAssumption
<1>3. \A r \in Sessions \ {s} : armed'[r] = armed[r] /\ reading'[r] = reading[r]
  BY DEF HandlerEffect, TypeOK
<1> QED
  BY <1>1, <1>2, <1>3 DEF OnlyConcerns, HandlerEffect

\* The reactor posts one completion of one session.
LEMMA ReactorConcerns ==
  ASSUME TypeOK, NEW s \in Sessions, NEW k \in Ios, k = ios[s],
         KeepaliveExpires(s) \/ \E c \in Channels : Readable(s, c)
  PROVE  /\ Queued(k) \subseteq Queued(k)'
         /\ \A e \in Queued(k)' : e \in Queued(k) \/ e.s = s
         /\ KeepaliveExpires(s) => TimerDone(s, "ok") \in Queued(k)'
         /\ \A j \in Ios \ {k} : Queued(j)' = Queued(j)
         /\ OnlyConcerns({s})
<1>1. k \in Ios /\ posted[k] \in Seq(Completion)
  BY DEF TypeOK
<1>2. \E e \in Completion :
        /\ e.s = s
        /\ KeepaliveExpires(s) => e = TimerDone(s, "ok")
        /\ posted' = [posted EXCEPT ![k] = Append(posted[k], e)]
  <2>1. CASE KeepaliveExpires(s)
    <3>1. TimerDone(s, "ok") \in Completion /\ TimerDone(s, "ok").s = s
      BY SessionAssumption DEF TimerDone, Completion, Client, Channels
    <3> QED
      BY <2>1, <3>1 DEF KeepaliveExpires
  <2>2. CASE ~KeepaliveExpires(s)
    <3>1. PICK c \in Channels : Readable(s, c)
      BY <2>2
    <3> DEFINE e == ReadDone(s, c, IF closed[s] THEN "aborted" ELSE "ready")
    <3>2. e \in Completion /\ e.s = s
      BY DEF ReadDone, Completion
    <3>3. posted' = [posted EXCEPT ![k] = Append(posted[k], e)]
      BY <3>1 DEF Readable
    <3> QED
      BY <2>2, <3>2, <3>3
  <2> QED
    BY <2>1, <2>2
<1>3. PICK e \in Completion :
        /\ e.s = s
        /\ KeepaliveExpires(s) => e = TimerDone(s, "ok")
        /\ posted' = [posted EXCEPT ![k] = Append(posted[k], e)]
  BY <1>2
<1>4. Contents(Append(posted[k], e)) = Queued(k) \union {e}
  BY <1>1, ContentsAppend DEF Queued
<1>5. Queued(k)' = Queued(k) \union {e} /\ \A j \in Ios \ {k} : Queued(j)' = Queued(j)
  BY <1>1, <1>3, <1>4, Requeue
<1>6. \A r \in Sessions \ {s} : armed'[r] = armed[r] /\ reading'[r] = reading[r]
  BY DEF KeepaliveExpires, Readable, TypeOK
<1>7. \A r \in Sessions \ {s} : \A j \in Ios : \A d \in Completion :
        d.s = r => (d \in Queued(j)' <=> d \in Queued(j))
  <2>1. \A j \in Ios : \A d : d.s # s => (d \in Queued(j)' <=> d \in Queued(j))
    BY <1>3, <1>5
  <2> QED
    BY <2>1
<1>8. UNCHANGED <<phase, ios, closed, listed, targets, thread, accepting>>
  BY DEF KeepaliveExpires, Readable
<1>9. OnlyConcerns({s})
  BY <1>6, <1>7, <1>8 DEF OnlyConcerns
<1>10. /\ Queued(k) \subseteq Queued(k)'
       /\ \A d \in Queued(k)' : d \in Queued(k) \/ d.s = s
       /\ KeepaliveExpires(s) => TimerDone(s, "ok") \in Queued(k)'
  BY <1>3, <1>5
<1> QED
  BY <1>1, <1>5, <1>9, <1>10

\* start_accept() concerns the session it creates and the one it lets go of.
LEMMA StartAcceptConcerns ==
  ASSUME TypeOK, NEW s \in Sessions, StartAccept(s)
  PROVE  /\ thread[0].s \in Sessions
         /\ \A k \in Ios : Queued(k)' = Queued(k)
         /\ OnlyConcerns({s, thread[0].s})
<1>1. thread[0].s \in Sessions
  BY PoolIndices, BusyThread DEF StartAccept, TypeOK
<1>2. posted' = posted
  BY DEF StartAccept
<1>3. \A k \in Ios : Queued(k)' = Queued(k)
  BY <1>2 DEF Queued, Contents
<1>4. \A r \in Sessions \ {s, thread[0].s} : \A j \in Ios :
        thread'[j] = thread[j] \/ (thread[j].s # r /\ thread'[j].s # r)
  BY SessionAssumption DEF StartAccept, TypeOK, At, Polling
<1>5. \A r \in Sessions \ {s, thread[0].s} :
        /\ phase'[r] = phase[r] /\ ios'[r] = ios[r] /\ closed'[r] = closed[r]
        /\ listed'[r] = listed[r] /\ targets'[r] = targets[r]
        /\ reading'[r] = reading[r] /\ armed'[r] = armed[r]
        /\ accepting' # r
  BY DEF StartAccept, TypeOK
<1> QED
  BY <1>1, <1>3, <1>4, <1>5 DEF OnlyConcerns

-----------------------------------------------------------------------------
(* The keepalive chain.                                                    *)

\* A completion of s posted to its own io_service is posted at home.
LEMMA PostedAtHome ==
  ASSUME TypeOK, NEW s \in Sessions, NEW k \in Ios, k = ios[s], ios'[s] = ios[s],
         AtHome(s), \A j \in Ios \ {k} : Queued(j)' = Queued(j)
  PROVE  AtHome(s)'
BY DEF AtHome

\* A link of the chain that a step leaves alone holds on.
LEMMA ChainHolds ==
  ASSUME TypeOK, NEW s \in Sessions, NEW k \in Ios, k = ios[s], ios'[s] = ios[s],
         Open(s)' => Open(s),
         armed[s] => armed'[s],
         TimerDone(s, "ok") \in Queued(k) => TimerDone(s, "ok") \in Queued(k)',
         \A j \in Ios : thread[j].at = "close" => thread'[j] = thread[j],
         KeepaliveChain(s)
  PROVE  KeepaliveChain(s)'
<1>1. Expired(s) => Expired(s)'
  BY DEF Expired
<1>2. ClosedByTimer(s) => ClosedByTimer(s)'
  BY DEF ClosedByTimer
<1> QED
  BY <1>1, <1>2 DEF KeepaliveChain

\* A thread that is not closing a session leaves those that are alone.
LEMMA ClosersStay ==
  ASSUME TypeOK, NEW k \in Ios, thread[k].at # "close",
         \/ thread' = thread
         \/ \E t : thread' = [thread EXCEPT ![k] = t]
  PROVE  \A j \in Ios : thread[j].at = "close" => thread'[j] = thread[j]
BY DEF TypeOK

\* A step that concerns s alone and keeps its invariant keeps them all.
LEMMA InvOfAll ==
  ASSUME TypeOK, TypeOK', \A r \in Sessions : SessionInv(r),
         NEW S, OnlyConcerns(S), \A s \in S : SessionInv(s)'
  PROVE  \A r \in Sessions : SessionInv(r)'
BY OthersKeepInv

LEMMA AcceptedKeepsChain ==
  ASSUME TypeOK, TypeOK', \A r \in Sessions : SessionInv(r), Accepted
  PROVE  \A r \in Sessions : SessionInv(r)'
<1>1. PICK s \in Sessions, k \in Ios : s = accepting /\ k = ios[s]
  BY AcceptedConcerns DEF TypeOK
<1>2. SessionInv(s)
  BY <1>1
<1>3. ios'[s] = ios[s] /\ posted' = posted
  BY DEF Accepted, Start, AcceptError, sessionVars
<1>4. \A j \in Ios : Queued(j)' = Queued(j)
  BY <1>3 DEF Queued, Contents
<1>5. AtHome(s)'
  BY <1>1, <1>2, <1>3, <1>4, PostedAtHome DEF SessionInv
<1>6. ASSUME Start(s) PROVE KeepaliveChain(s)'
  BY <1>6 DEF KeepaliveChain, Start, ResetKeepaliveTimer, TypeOK
<1>7. ASSUME AcceptError(s) PROVE KeepaliveChain(s)'
  <2>1. \A j \in Ios : thread[j].at = "close" => thread'[j] = thread[j]
    BY <1>7, AcceptedConcerns DEF AcceptError, TypeOK, Polling, At
  <2>2. Open(s)' = Open(s) /\ armed' = armed
    BY <1>7 DEF AcceptError, sessionVars, Open
  <2> QED
    BY <1>1, <1>2, <1>3, <1>4, <2>1, <2>2, ChainHolds DEF SessionInv
<1> QED
  BY <1>1, <1>5, <1>6, <1>7, AcceptedConcerns, InvOfAll DEF Accepted, SessionInv

LEMMA StartKeepsChain ==
  ASSUME TypeOK, TypeOK', \A r \in Sessions : SessionInv(r), ConnectTarget \/ ArmRead
  PROVE  \A r \in Sessions : SessionInv(r)'
<1>1. thread[0].s \in Sessions /\ thread[0].at # "close"
  BY PoolIndices, BusyThread DEF ConnectTarget, ArmRead, TypeOK
<1>2. PICK s \in Sessions, k \in Ios : s = thread[0].s /\ k = ios[s]
  BY <1>1 DEF TypeOK
<1>3. SessionInv(s)
  BY <1>2
<1>4. /\ Queued(k) \subseteq Queued(k)'
      /\ \A j \in Ios \ {k} : Queued(j)' = Queued(j)
      /\ OnlyConcerns({s})
  <2>1. CASE ConnectTarget
    <3>1. posted' = posted
      BY <2>1 DEF ConnectTarget
    <3>2. \A j \in Ios : Queued(j)' = Queued(j)
      BY <3>1 DEF Queued, Contents
    <3> QED
      BY <1>2, <2>1, <3>2, ConnectTargetConcerns
  <2>2. CASE ArmRead
    BY <1>2, <2>2, ArmReadConcerns
  <2> QED
    BY <2>1, <2>2
<1>5. ios'[s] = ios[s] /\ armed' = armed /\ Open(s)' = Open(s)
  BY DEF ConnectTarget, ArmRead, Open
<1>6. \A j \in Ios : thread[j].at = "close" => thread'[j] = thread[j]
  <2>1. \E t : thread' = [thread EXCEPT ![0] = t]
    BY <1>2, ConnectTargetConcerns, ArmReadConcerns
  <2> QED
    BY <1>1, <2>1, PoolIndices, ClosersStay
<1>7. AtHome(s)' /\ KeepaliveChain(s)'
  BY <1>2, <1>3, <1>4, <1>5, <1>6, PostedAtHome, ChainHolds DEF SessionInv
<1> QED
  BY <1>4, <1>7, InvOfAll DEF SessionInv

LEMMA CloseKeepsChain ==
  ASSUME TypeOK, TypeOK', \A r \in Sessions : SessionInv(r), NEW k \in Ios, Close(k)
  PROVE  \A r \in Sessions : SessionInv(r)'
<1>1. PICK s \in Sessions, h \in Ios : s = thread[k].s /\ h = ios[s]
  BY BusyThread DEF Close, TypeOK
<1>2. (\A j \in Ios \ {h} : Queued(j)' = Queued(j)) /\ OnlyConcerns({s})
  BY <1>1, CloseConcerns
<1>3. ios' = ios /\ closed'[s]
  BY <1>1 DEF Close, TypeOK
<1>4. AtHome(s)'
  BY <1>1, <1>2, <1>3, PostedAtHome DEF SessionInv
<1>5. KeepaliveChain(s)'
  BY <1>3 DEF KeepaliveChain, Open
<1> QED
  BY <1>2, <1>4, <1>5, InvOfAll DEF SessionInv

LEMMA RunPostedKeepsChain ==
  ASSUME TypeOK, TypeOK', \A r \in Sessions : SessionInv(r), NEW k \in Ios, RunPosted(k)
  PROVE  \A r \in Sessions : SessionInv(r)'
<1>1. \A r \in Sessions : AtHome(r)
  BY DEF SessionInv
<1>2. PICK done \in Queued(k), s \in Sessions :
        /\ s = done.s /\ ios[s] = k
        /\ HandlerEffect(k, s, done)
        /\ done = TimerDone(s, "ok") /\ ~closed[s] =>
             thread' = [thread EXCEPT ![k] = At("close", s, 0, "timer")]
  BY <1>1, RunPostedEffect
<1>3. thread[k] = Polling
  BY PollingThread DEF RunPosted, TypeOK
<1>4. OnlyConcerns({s})
  BY <1>2, <1>3, HandlerConcerns
<1>5. ios' = ios /\ closed' = closed /\ phase' = phase
  BY <1>2 DEF HandlerEffect
<1>6. \A j \in Ios \ {k} : Queued(j)' = Queued(j)
  BY <1>2 DEF HandlerEffect
<1>7. SessionInv(s) /\ AtHome(s)'
  BY <1>2, <1>5, <1>6, PostedAtHome DEF SessionInv
<1>8. CASE done = TimerDone(s, "ok") /\ ~closed[s]
  <2>1. thread'[k] = At("close", s, 0, "timer")
    BY <1>2, <1>8 DEF TypeOK
  <2>2. ClosedByTimer(s)'
    BY <2>1 DEF ClosedByTimer, At
  <2> QED
    BY <1>4, <1>7, <2>2, InvOfAll DEF SessionInv, KeepaliveChain
<1>9. CASE closed[s]
  BY <1>4, <1>5, <1>7, <1>9, InvOfAll DEF SessionInv, KeepaliveChain, Open
<1>10. CASE done # TimerDone(s, "ok")
  <2>1. TimerDone(s, "ok") \in Queued(k) => TimerDone(s, "ok") \in Queued(k)'
    BY <1>2, <1>10 DEF HandlerEffect
  <2>2. armed[s] => armed'[s]
    BY <1>2 DEF HandlerEffect, TypeOK
  <2>3. \A j \in Ios : thread[j].at = "close" => thread'[j] = thread[j]
    <3>1. thread' = thread \/ \E t : thread' = [thread EXCEPT ![k] = t]
      BY <1>2 DEF HandlerEffect
    <3>2. thread[k].at # "close"
      BY <1>3 DEF Polling, At
    <3> QED
      BY <3>1, <3>2, ClosersStay
  <2>4. Open(s)' = Open(s)
    BY <1>5 DEF Open
  <2>5. KeepaliveChain(s)'
    BY <1>2, <1>5, <1>7, <2>1, <2>2, <2>3, <2>4, ChainHolds DEF SessionInv
  <2> QED
    BY <1>4, <1>7, <2>5, InvOfAll DEF SessionInv
<1> QED
  BY <1>8, <1>9, <1>10

LEMMA ReactorKeepsChain ==
  ASSUME TypeOK, TypeOK', \A r \in Sessions : SessionInv(r), NEW s \in Sessions,
         KeepaliveExpires(s) \/ \E c \in Channels : Readable(s, c)
  PROVE  \A r \in Sessions : SessionInv(r)'
<1>1. PICK k \in Ios : k = ios[s]
  BY DEF TypeOK
<1>2. /\ Queued(k) \subseteq Queued(k)'
      /\ KeepaliveExpires(s) => TimerDone(s, "ok") \in Queued(k)'
      /\ \A j \in Ios \ {k} : Queued(j)' = Queued(j)
      /\ OnlyConcerns({s})
  BY <1>1, ReactorConcerns
<1>3. ios' = ios /\ thread' = thread /\ Open(s)' = Open(s)
  BY DEF KeepaliveExpires, Readable, Open
<1>4. SessionInv(s) /\ AtHome(s)'
  BY <1>1, <1>2, <1>3, PostedAtHome DEF SessionInv
<1>5. CASE KeepaliveExpires(s)
  <2>1. Expired(s)'
    BY <1>1, <1>2, <1>3, <1>5 DEF Expired
  <2> QED
    BY <1>2, <1>4, <2>1, InvOfAll DEF SessionInv, KeepaliveChain
<1>6. CASE ~KeepaliveExpires(s)
  <2>1. armed' = armed
    BY <1>6 DEF Readable
  <2>2. KeepaliveChain(s)'
    BY <1>1, <1>2, <1>3, <1>4, <2>1, ChainHolds DEF SessionInv
  <2> QED
    BY <1>2, <1>4, <2>2, InvOfAll DEF SessionInv
<1> QED
  BY <1>5, <1>6

LEMMA StartAcceptKeepsChain ==
  ASSUME TypeOK, TypeOK', \A r \in Sessions : SessionInv(r),
         NEW s \in Sessions, StartAccept(s)
  PROVE  \A r \in Sessions : SessionInv(r)'
<1>1. PICK p \in Sessions : p = thread[0].s
  BY StartAcceptConcerns
<1>2. (\A j \in Ios : Queued(j)' = Queued(j)) /\ OnlyConcerns({s, p})
  BY <1>1, StartAcceptConcerns
<1>3. AtHome(s)'
  BY <1>2 DEF StartAccept, Forgotten, AtHome
<1>4. KeepaliveChain(s)'
  BY DEF StartAccept, KeepaliveChain, Open, TypeOK
<1>5. CASE p # s
  <2>1. ios'[p] = ios[p] /\ closed'[p] = closed[p] /\ armed' = armed
    BY <1>5 DEF StartAccept, TypeOK
  <2>2. Open(p)' => Open(p)
    BY <1>1, <1>5, <2>1 DEF StartAccept, Open, TypeOK
  <2>3. \A j \in Ios : thread[j].at = "close" => thread'[j] = thread[j]
    BY DEF StartAccept, TypeOK
  <2>4. PICK k \in Ios : k = ios[p]
    BY DEF TypeOK
  <2>5. AtHome(p)' /\ KeepaliveChain(p)'
    BY <1>2, <2>1, <2>2, <2>3, <2>4, PostedAtHome, ChainHolds DEF SessionInv
  <2> QED
    BY <1>2, <1>3, <1>4, <2>5, InvOfAll DEF SessionInv
<1>6. CASE p = s
  BY <1>2, <1>3, <1>4, <1>6, InvOfAll DEF SessionInv
<1> QED
  BY <1>5, <1>6

LEMMA InitChain == Init => \A s \in Sessions : SessionInv(s)
BY DEF Init, PoolInit, SessionInv, AtHome, KeepaliveChain, Queued, Contents, Open

LEMMA NextChain ==
  TypeOK /\ TypeOK' /\ (\A s \in Sessions : SessionInv(s)) /\ [Next]_vars
    => (\A s \in Sessions : SessionInv(s))'
<1> SUFFICES ASSUME TypeOK, TypeOK', \A s \in Sessions : SessionInv(s), [Next]_vars
             PROVE  \A s \in Sessions : SessionInv(s)'
  OBVIOUS
<1>1. CASE Accepted \/ ConnectTarget \/ ArmRead
  BY <1>1, AcceptedKeepsChain, StartKeepsChain
<1>2. CASE \E k \in Ios : Close(k) \/ RunPosted(k)
  BY <1>2, CloseKeepsChain, RunPostedKeepsChain
<1>3. CASE \E s \in Sessions, c \in Channels : Readable(s, c)
  BY <1>3, ReactorKeepsChain
<1>4. CASE \E s \in Sessions : StartAccept(s) \/ KeepaliveExpires(s)
  BY <1>4, StartAcceptKeepsChain, ReactorKeepsChain
<1>5. CASE UNCHANGED vars
  BY <1>5 DEF vars, sessionVars, SessionInv, AtHome, KeepaliveChain, Expired,
              ClosedByTimer, Queued, Contents, Open
<1> QED
  BY <1>1, <1>2, <1>3, <1>4, <1>5 DEF Next

\* A link of the chain is a keepalive wait or its running handler, and both hold
\* a shared_ptr to the session.
LEMMA ChainOwns ==
  ASSUME TypeOK, NEW s \in Sessions, KeepaliveChain(s), Open(s)
  PROVE  Alive(s)
<1>1. armed[s] \/ Expired(s) => HeldByTimer(s)
  BY DEF Expired, HeldByTimer, TimerDone
<1>2. ClosedByTimer(s) => HeldByThread(s)
  BY DEF ClosedByTimer, HeldByThread
<1> QED
  BY <1>1, <1>2 DEF KeepaliveChain, Alive

\* No interleaving destroys a session that is open: the read handlers, which hold
\* no shared_ptr, never use an object that is gone before it is closed.
THEOREM SessionsAreOwned == Spec => []OpenSessionIsOwned
<1> DEFINE Inv == TypeOK /\ \A s \in Sessions : SessionInv(s)
<1>1. Init => Inv
  BY InitTypes, InitChain
<1>2. Inv /\ [Next]_vars => Inv'
  BY NextTypes, NextChain
<1>3. Inv => OpenSessionIsOwned
  BY ChainOwns DEF SessionInv, OpenSessionIsOwned
<1> QED
  BY <1>1, <1>2, <1>3, PTL DEF Spec
=============================================================================
