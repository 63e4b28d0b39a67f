-------------------- MODULE UdpSwitchSessionManager_proofs --------------------
(***************************************************************************)
(* For any pool, clients and sessions, and freed memory of any contents: a *)
(* UDP entry that is not used will expire, and a session has one receive   *)
(* at most.  If freed memory keeps what it held (Calm), entries and        *)
(* sessions agree, and the cache is a table of addresses.                  *)
(***************************************************************************)
EXTENDS UdpSwitchSessionManager, FiniteSetTheorems, TLAPS

-----------------------------------------------------------------------------
(* Completions in a queue.                                                 *)

LEMMA OfAppend ==
  ASSUME NEW T, NEW queue \in Seq(T), NEW e \in T, NEW S
  PROVE  /\ NoneOf(Append(queue, e), S) <=> NoneOf(queue, S) /\ e \notin S
         /\ OneOf(queue, S) /\ e \notin S => OneOf(Append(queue, e), S)
         /\ NoneOf(queue, S) => OneOf(Append(queue, e), S)
<1> DEFINE longer == Append(queue, e)
<1>1. /\ DOMAIN longer = 1 .. Len(queue) + 1
      /\ DOMAIN queue = 1 .. Len(queue)
      /\ Len(queue) \in Nat
  OBVIOUS
<1>2. /\ longer[Len(queue) + 1] = e
      /\ \A j \in 1 .. Len(queue) : longer[j] = queue[j]
  OBVIOUS
<1>3. /\ \A j \in 1 .. Len(queue) + 1 : j = Len(queue) + 1 \/ j \in 1 .. Len(queue)
      /\ \A j \in 1 .. Len(queue) : j \in 1 .. Len(queue) + 1
      /\ Len(queue) + 1 \in 1 .. Len(queue) + 1
  BY <1>1
<1> HIDE DEF longer
<1>4. NoneOf(longer, S) <=> NoneOf(queue, S) /\ e \notin S
  BY <1>1, <1>2, <1>3 DEF NoneOf
<1>5. OneOf(queue, S) /\ e \notin S => OneOf(longer, S)
  BY <1>1, <1>2, <1>3 DEF OneOf
<1>6. NoneOf(queue, S) => OneOf(longer, S)
  BY <1>1, <1>2, <1>3 DEF NoneOf, OneOf
<1> QED
  BY <1>4, <1>5, <1>6 DEF longer

LEMMA OfTail ==
  ASSUME NEW T, NEW queue \in Seq(T), queue # <<>>, NEW S
  PROVE  /\ NoneOf(queue, S) <=> NoneOf(Tail(queue), S) /\ Head(queue) \notin S
         /\ OneOf(queue, S) => OneOf(Tail(queue), S)
         /\ OneOf(queue, S) /\ Head(queue) \in S => NoneOf(Tail(queue), S)
<1> DEFINE rest == Tail(queue)
<1>1. /\ DOMAIN queue = 1 .. Len(queue)
      /\ DOMAIN rest = 1 .. Len(queue) - 1
      /\ Len(queue) \in Nat \ {0}
  OBVIOUS
<1>2. /\ Head(queue) = queue[1]
      /\ \A j \in 1 .. Len(queue) - 1 : rest[j] = queue[j + 1]
  OBVIOUS
<1>3. /\ \A j \in 1 .. Len(queue) : j = 1 \/ \E i \in 1 .. Len(queue) - 1 : j = i + 1
      /\ \A j \in 1 .. Len(queue) - 1 : j + 1 \in 1 .. Len(queue) /\ j + 1 # 1
      /\ 1 \in 1 .. Len(queue)
      /\ \A i, j \in 1 .. Len(queue) - 1 : i + 1 = j + 1 => i = j
  <2>1. \A j \in 1 .. Len(queue) : j = 1 \/ (j - 1 \in 1 .. Len(queue) - 1 /\ j = (j - 1) + 1)
    BY <1>1
  <2> QED
    BY <1>1, <2>1
<1> HIDE DEF rest
<1>4. NoneOf(queue, S) <=> NoneOf(rest, S) /\ Head(queue) \notin S
  <2>1. NoneOf(queue, S) => NoneOf(rest, S) /\ Head(queue) \notin S
    BY <1>1, <1>2, <1>3 DEF NoneOf
  <2>2. NoneOf(rest, S) /\ Head(queue) \notin S => NoneOf(queue, S)
    <3> SUFFICES ASSUME NoneOf(rest, S), queue[1] \notin S, NEW j \in 1 .. Len(queue)
                 PROVE  queue[j] \notin S
      BY <1>1, <1>2 DEF NoneOf
    <3>1. CASE j = 1
      BY <3>1
    <3>2. ASSUME NEW i \in 1 .. Len(queue) - 1, j = i + 1 PROVE queue[j] \notin S
      BY <1>1, <1>2, <3>2 DEF NoneOf
    <3> QED
      BY <1>3, <3>1, <3>2
  <2> QED
    BY <2>1, <2>2
<1>5. OneOf(queue, S) => OneOf(rest, S)
  <2> SUFFICES ASSUME OneOf(queue, S), NEW i \in 1 .. Len(queue) - 1, NEW j \in 1 .. Len(queue) - 1,
                      rest[i] \in S, rest[j] \in S
               PROVE  i = j
    BY <1>1 DEF OneOf
  <2>1. i + 1 \in DOMAIN queue /\ j + 1 \in DOMAIN queue
    BY <1>1, <1>3
  <2>2. queue[i + 1] \in S /\ queue[j + 1] \in S
    BY <1>2
  <2>3. i + 1 = j + 1
    BY <2>1, <2>2 DEF OneOf
  <2> QED
    BY <1>3, <2>3
<1>6. OneOf(queue, S) /\ Head(queue) \in S => NoneOf(rest, S)
  BY <1>1, <1>2, <1>3 DEF NoneOf, OneOf
<1> QED
  BY <1>4, <1>5, <1>6 DEF rest

LEMMA NoneOfSubset ==
  ASSUME NEW queue, NEW S, NEW R, R \subseteq S
  PROVE  NoneOf(queue, S) => NoneOf(queue, R) /\ OneOf(queue, R)
BY DEF NoneOf, OneOf

\* What is not in a queue is at no position of it.
LEMMA NoneQueued ==
  ASSUME NEW queue, NEW S
  PROVE  NoneOf(queue, S) <=> \A done \in Contents(queue) : done \notin S
BY DEF NoneOf, Contents

-----------------------------------------------------------------------------
(* Types.                                                                  *)

LEMMA PoolIndices ==
  /\ 0 \in Ios
  /\ \A k \in Ios : NextIndex(k) \in Ios
  /\ 1 % PoolSize \in Ios
<1>1. PoolSize \in Nat \ {0}
  BY PoolSizeAssumption
<1>2. 1 % PoolSize \in 0 .. PoolSize - 1
  BY <1>1
<1> QED
  BY <1>1, <1>2 DEF Ios, NextIndex

LEMMA Threads ==
  ASSUME TypeOK, NEW k \in Ios
  PROVE  /\ thread[k].at = "poll" => thread[k] = Polling
         /\ thread[k].at = "lookup" => thread[k].s = NoSession /\ thread[k].c \in Clients
         /\ thread[k].at \in {"test", "reset", "arming", "forward"} =>
              thread[k] \in [at : {"test", "reset", "arming", "forward"}, c : Clients, s : Sessions]
         /\ thread[k].at \in {"close", "erase"} =>
              thread[k] \in [at : {"close", "erase"}, c : Clients \union {NoClient}, s : Sessions]
<1>1. thread[k] \in ThreadState
  BY DEF TypeOK
<1> QED
  BY <1>1 DEF ThreadState, Polling, At

LEMMA CompletionTypes ==
  ASSUME NEW s \in Sessions
  PROVE  /\ \A ec \in {"ok", "aborted"} : TimerDone(s, ec) \in CompletionsOf(s) \ Receives(s)
         /\ \A ec \in {"ok", "error", "aborted", "ready"} : ReceiveDone(s, ec) \in Receives(s)
         /\ TimerDone(s, "ok") # TimerDone(s, "aborted")
         /\ \A done \in Receives(s) : done # TimerDone(s, "ok") /\ done # TimerDone(s, "aborted")
BY DEF TimerDone, ReceiveDone, CompletionsOf, Receives, Completion

LEMMA CancelTypes ==
  ASSUME TypeOK, NEW s \in Sessions, Cancel(s)
  PROVE  armed' \in [Sessions -> BOOLEAN] /\ posted' \in [Ios -> Seq(Completion)]
<1>1. posted[ios[s]] \in Seq(Completion) /\ ios[s] \in Ios
  BY DEF TypeOK
<1>2. Append(posted[ios[s]], TimerDone(s, "aborted")) \in Seq(Completion)
  BY <1>1, CompletionTypes DEF CompletionsOf
<1>3. armed' \in [Sessions -> BOOLEAN]
  BY DEF Cancel, TypeOK
<1> QED
  BY <1>1, <1>2, <1>3 DEF Cancel, TypeOK

LEMMA AsyncReceiveTypes ==
  ASSUME TypeOK, NEW s \in Sessions, NEW k \in Ios, NEW queue \in Seq(Completion),
         NEW isOpen, AsyncReceive(s, k, queue, isOpen)
  PROVE  receiving' \in [Sessions -> BOOLEAN] /\ posted' \in [Ios -> Seq(Completion)]
<1>1. CASE /\ receiving' = [receiving EXCEPT ![s] = TRUE]
           /\ posted' = [posted EXCEPT ![k] = queue]
  BY <1>1 DEF TypeOK
<1>2. ASSUME NEW ec \in {"ok", "error"},
             receiving' = [receiving EXCEPT ![s] = FALSE],
             posted' = [posted EXCEPT ![k] = Append(queue, ReceiveDone(s, ec))]
      PROVE  receiving' \in [Sessions -> BOOLEAN] /\ posted' \in [Ios -> Seq(Completion)]
  <2>1. Append(queue, ReceiveDone(s, ec)) \in Seq(Completion)
    BY CompletionTypes DEF Receives, CompletionsOf
  <2> QED
    BY <1>2, <2>1 DEF TypeOK
<1> QED
  BY <1>1, <1>2 DEF AsyncReceive, ReceiveResults

LEMMA InitTypes == Init => TypeOK
<1> SUFFICES ASSUME Init PROVE TypeOK
  OBVIOUS
<1>1. 1 % PoolSize \in Ios /\ 0 \in Ios /\ Polling \in ThreadState
  BY PoolIndices DEF ThreadState
<1> QED
  BY <1>1, UdpAssumption DEF Init, PoolInit, TypeOK

\* What the heads of the queues are.
LEMMA Posted ==
  ASSUME TypeOK, NEW k \in Ios, posted[k] # <<>>
  PROVE  Head(posted[k]) \in Completion /\ Tail(posted[k]) \in Seq(Completion)
<1>1. posted[k] \in Seq(Completion)
  BY DEF TypeOK
<1> QED
  BY <1>1

\* A thread that closes or erases works for a session with a client.
LEMMA ClientOfClosing ==
  ASSUME TypeOK, IInv, NEW k \in Ios, thread[k].at \in {"close", "erase"}
  PROVE  /\ thread[k].s \in Sessions /\ ~Forgotten(thread[k].s)
         /\ client[thread[k].s] \in Clients
<1>1. thread[k].s \in Sessions
  BY Threads
<1>2. ~Forgotten(thread[k].s) /\ HasClient(thread[k].s)
  BY <1>1 DEF IInv, SessionInv, Forgotten
<1> QED
  BY <1>1, <1>2 DEF HasClient

LEMMA NextTypes ==
  ASSUME TypeOK, IInv, [Next]_vars
  PROVE  TypeOK'
<1>1. CASE UNCHANGED vars
  BY <1>1 DEF vars, sessionVars, TypeOK, ThreadState, Completion, Ios
<1>2. CASE ReceiveClient
  <2>1. \A c \in Clients : At("lookup", c, NoSession) \in ThreadState
    BY DEF ThreadState, At
  <2>2. thread' \in [Ios -> ThreadState] /\ listening' \in BOOLEAN
    <3>1. ASSUME NEW c \in Clients, thread' = [thread EXCEPT ![0] = At("lookup", c, NoSession)]
          PROVE  thread' \in [Ios -> ThreadState]
      BY <2>1, <3>1 DEF TypeOK
    <3> QED
      BY <1>2, <3>1 DEF ReceiveClient, TypeOK
  <2> QED
    BY <1>2, <2>2 DEF ReceiveClient, sessionVars, TypeOK
<1>3. CASE FindSession
  <2>1. thread[0].c \in Clients /\ cache[thread[0].c] \in Sessions
    BY <1>3, Threads, PoolIndices DEF FindSession, TypeOK
  <2>2. At("test", thread[0].c, cache[thread[0].c]) \in ThreadState
    BY <2>1 DEF ThreadState, At
  <2> QED
    BY <1>3, <2>2, PoolIndices DEF FindSession, sessionVars, TypeOK
<1>4. CASE TestClosed
  <2>1. thread[0] \in [at : {"test", "reset", "arming", "forward"}, c : Clients, s : Sessions]
    BY <1>4, Threads, PoolIndices DEF TestClosed
  <2>2. \A at \in {"reset", "forward"} : [thread[0] EXCEPT !.at = at] \in ThreadState
    BY <2>1 DEF ThreadState
  <2> QED
    BY <1>4, <2>2, PoolIndices DEF TestClosed, sessionVars, TypeOK
<1>5. CASE ResetKeepaliveTimer
  <2>1. thread[0] \in [at : {"test", "reset", "arming", "forward"}, c : Clients, s : Sessions]
    BY <1>5, Threads, PoolIndices DEF ResetKeepaliveTimer
  <2>2. [thread[0] EXCEPT !.at = "arming"] \in ThreadState /\ thread[0].s \in Sessions
    BY <2>1 DEF ThreadState
  <2>3. armed' \in [Sessions -> BOOLEAN] /\ posted' \in [Ios -> Seq(Completion)]
    BY <1>5, <2>2, CancelTypes DEF ResetKeepaliveTimer
  <2> QED
    BY <1>5, <2>2, <2>3, PoolIndices DEF ResetKeepaliveTimer, TypeOK
<1>14. CASE WaitBegins
  <2>1. thread[0] \in [at : {"test", "reset", "arming", "forward"}, c : Clients, s : Sessions]
    BY <1>14, Threads, PoolIndices DEF WaitBegins
  <2>2. [thread[0] EXCEPT !.at = "forward"] \in ThreadState
    BY <2>1 DEF ThreadState
  <2> QED
    BY <1>14, <2>2, PoolIndices DEF WaitBegins, TypeOK
<1>6. ASSUME NEW s \in Sessions, NEW isLast, Release(s, isLast)
      PROVE  /\ armed' \in [Sessions -> BOOLEAN] /\ posted' \in [Ios -> Seq(Completion)]
             /\ mayWait' \in [Sessions -> BOOLEAN]
  BY <1>6, CancelTypes DEF Release, TypeOK
<1>7. CASE Forward
  <2>1. thread[0].s \in Sessions /\ Polling \in ThreadState
    BY <1>7, Threads, PoolIndices DEF Forward, ThreadState
  <2> QED
    BY <1>6, <1>7, <2>1, PoolIndices DEF Forward, TypeOK
<1>8. ASSUME NEW k \in Ios, RunPosted(k) PROVE TypeOK'
  <2>1. PICK done \in Completion, rest \in Seq(Completion) :
          done = Head(posted[k]) /\ rest = Tail(posted[k])
    BY <1>8, Posted DEF RunPosted
  <2>2. done.s \in Sessions /\ done.op \in {"timer", "receive"}
    BY <2>1 DEF Completion
  <2>3. CASE TimerHandler(k, done.s, done.ec, rest)
    <3>1. At("close", client[done.s], done.s) \in ThreadState /\ Polling \in ThreadState
      BY <2>2 DEF TypeOK, ThreadState, At
    <3> QED
      BY <2>1, <2>3, <3>1 DEF TimerHandler, sessionVars, TypeOK
  <2>4. ASSUME NEW ec, ReceiveHandler(k, done.s, ec, rest) PROVE TypeOK'
    <3>1. receiving' \in [Sessions -> BOOLEAN] /\ posted' \in [Ios -> Seq(Completion)]
      <4>1. CASE AsyncReceive(done.s, k, rest, ~closed[done.s] /\ Alive(done.s))
        BY <2>1, <2>2, <4>1, AsyncReceiveTypes
      <4>2. CASE posted' = [posted EXCEPT ![k] = rest] /\ UNCHANGED receiving
        BY <2>1, <4>2 DEF TypeOK
      <4> QED
        BY <2>4, <4>1, <4>2 DEF ReceiveHandler
    <3> QED
      BY <2>4, <3>1 DEF ReceiveHandler, TypeOK
  <2>5. CASE ReadyReceive(k, done.s, rest)
    <3>1. CASE /\ posted' = [posted EXCEPT ![k] = rest]
               /\ receiving' = [receiving EXCEPT ![done.s] = TRUE]
               /\ UNCHANGED <<next_io_service, cache, client, ios, closed, armed, mayWait,
                              thread, listening>>
      BY <2>1, <3>1 DEF TypeOK
    <3> QED
      BY <2>4, <2>5, <3>1 DEF ReadyReceive
  <2> QED
    BY <1>8, <2>1, <2>3, <2>4, <2>5 DEF RunPosted
<1>9. ASSUME NEW k \in Ios, Close(k) PROVE TypeOK'
  <2>1. thread[k] \in [at : {"close", "erase"}, c : Clients \union {NoClient}, s : Sessions]
    BY <1>9, Threads DEF Close
  <2>2. [thread[k] EXCEPT !.at = "erase"] \in ThreadState /\ thread[k].s \in Sessions
    BY <2>1 DEF ThreadState
  <2>3. armed' \in [Sessions -> BOOLEAN] /\ posted' \in [Ios -> Seq(Completion)]
    BY <1>9, <2>2, CancelTypes DEF Close
  <2> QED
    BY <1>9, <2>2, <2>3 DEF Close, TypeOK
<1>10. ASSUME NEW k \in Ios, Erase(k) PROVE TypeOK'
  <2>1. PICK c \in Clients, gone \in Sessions \union {NoSession} :
          c = client[thread[k].s] /\ gone = cache[c]
    BY <1>10, ClientOfClosing DEF Erase, TypeOK
  <2>2. IF gone = NoSession THEN UNCHANGED <<armed, mayWait, posted>>
        ELSE Release(gone, ~HeldByReceiver(gone))
    BY <1>10, <2>1 DEF Erase
  <2>3. /\ armed' \in [Sessions -> BOOLEAN] /\ posted' \in [Ios -> Seq(Completion)]
        /\ mayWait' \in [Sessions -> BOOLEAN]
    BY <1>6, <2>1, <2>2 DEF TypeOK
  <2>4. Polling \in ThreadState
    BY DEF ThreadState
  <2> QED
    BY <1>10, <2>1, <2>3, <2>4 DEF Erase, TypeOK
<1>11. ASSUME NEW s \in Sessions, CreateSession(s) PROVE TypeOK'
  <2>1. PICK k \in Ios : /\ GetIoService(k)
                         /\ Construct(s, thread[0].c, k)
                         /\ AsyncReceive(s, k, posted[k], TRUE)
    BY <1>11 DEF CreateSession
  <2>2. thread[0].c \in Clients
    BY <1>11, Threads, PoolIndices DEF CreateSession
  <2>3. At("test", thread[0].c, s) \in ThreadState
    BY <2>2 DEF ThreadState, At
  <2>4. receiving' \in [Sessions -> BOOLEAN] /\ posted' \in [Ios -> Seq(Completion)]
    BY <2>1, AsyncReceiveTypes DEF TypeOK
  <2>5. next_io_service' \in Ios
    BY <2>1, PoolIndices DEF GetIoService, TypeOK
  <2>6. /\ client' \in [Sessions -> Clients \union {NoClient}]
        /\ ios' \in [Sessions -> Ios]
        /\ closed' \in [Sessions -> BOOLEAN]
        /\ armed' \in [Sessions -> BOOLEAN]
        /\ mayWait' \in [Sessions -> BOOLEAN]
    BY <2>1, <2>2 DEF Construct, TypeOK
  <2> QED
    BY <1>11, <2>2, <2>3, <2>4, <2>5, <2>6, PoolIndices DEF CreateSession, TypeOK
<1>12. ASSUME NEW s \in Sessions, Readable(s) PROVE TypeOK'
  <2>1. \A ec \in {"aborted", "ready"} :
          Append(posted[ios[s]], ReceiveDone(s, ec)) \in Seq(Completion)
    BY CompletionTypes DEF Receives, CompletionsOf, TypeOK
  <2> QED
    BY <1>12, <2>1 DEF Readable, TypeOK
<1>13. ASSUME NEW s \in Sessions, KeepaliveExpires(s) PROVE TypeOK'
  <2>1. Append(posted[ios[s]], TimerDone(s, "ok")) \in Seq(Completion)
    BY CompletionTypes DEF CompletionsOf, TypeOK
  <2> QED
    BY <1>13, <2>1 DEF KeepaliveExpires, TypeOK
<1> QED
  BY <1>1, <1>2, <1>3, <1>4, <1>5, <1>7, <1>8, <1>9, <1>10, <1>11, <1>12, <1>13,
     <1>14 DEF Next

-----------------------------------------------------------------------------
(* What a step leaves alone.                                               *)

\* The completions of r in a queue are what they were.
SameOf(old, new, r) ==
  \A S \in SUBSET CompletionsOf(r) :
    /\ NoneOf(new, S) <=> NoneOf(old, S)
    /\ OneOf(old, S) => OneOf(new, S)

Untouched(r) ==
  /\ client'[r] = client[r] /\ ios'[r] = ios[r] /\ closed'[r] = closed[r]
  /\ armed'[r] = armed[r] /\ receiving'[r] = receiving[r]
  /\ \A c \in Clients : cache'[c] = r <=> cache[c] = r
  /\ \A k \in Ios : thread'[k] = thread[k] \/ (thread[k].s # r /\ thread'[k].s # r)
  /\ \A k \in Ios : SameOf(posted[k], posted'[k], r)

\* A step concerns no session outside S.
OnlyConcerns(S) == \A r \in Sessions \ S : Untouched(r)

LEMMA ExpiredInQueue ==
  ASSUME NEW s \in Sessions
  PROVE  /\ Expired(s) <=> ~NoneOf(posted[ios[s]], {TimerDone(s, "ok")})
         /\ Expired(s)' <=> ~NoneOf(posted'[ios'[s]], {TimerDone(s, "ok")})
BY DEF Expired, Queued, Contents, NoneOf, TimerDone

\* Nothing refers to s.
Unreferenced(s) ==
  /\ ~Cached(s) /\ ~HeldByReceiver(s) /\ ~receiving[s] /\ ~armed[s]
  /\ \A k \in Ios : thread[k].s # s /\ NoneOf(posted[k], CompletionsOf(s))

LEMMA ForgottenIsUnreferenced ==
  ASSUME NEW s \in Sessions
  PROVE  /\ TypeOK => (Forgotten(s) <=> Unreferenced(s))
         /\ TypeOK' => (Forgotten(s)' <=> Unreferenced(s)')
<1>1. ASSUME TypeOK PROVE Forgotten(s) <=> Unreferenced(s)
  <2>1. ASSUME NEW k \in Ios
        PROVE  (\A done \in Queued(k) : done.s # s) <=> NoneOf(posted[k], CompletionsOf(s))
    <3>1. Queued(k) \subseteq Completion
      BY <1>1 DEF TypeOK, Queued, Contents
    <3> QED
      BY <3>1, NoneQueued DEF Queued, CompletionsOf
  <2> QED
    BY <2>1 DEF Forgotten, Unreferenced, Alive
<1>2. ASSUME TypeOK' PROVE Forgotten(s)' <=> Unreferenced(s)'
  <2>1. ASSUME NEW k \in Ios
        PROVE  (\A done \in Queued(k)' : done.s # s) <=> NoneOf(posted'[k], CompletionsOf(s))
    <3>1. Queued(k)' \subseteq Completion /\ Queued(k)' = Contents(posted'[k])
      BY <1>2 DEF TypeOK, Queued, Contents
    <3> QED
      BY <3>1, NoneQueued DEF CompletionsOf
  <2>2. /\ Forgotten(s)' <=>
             /\ ~Cached(s)' /\ ~HeldByReceiver(s)' /\ ~receiving'[s] /\ ~armed'[s]
             /\ \A k \in Ios : thread'[k].s # s /\ \A done \in Queued(k)' : done.s # s
        /\ Unreferenced(s)' <=>
             /\ ~Cached(s)' /\ ~HeldByReceiver(s)' /\ ~receiving'[s] /\ ~armed'[s]
             /\ \A k \in Ios : thread'[k].s # s /\ NoneOf(posted'[k], CompletionsOf(s))
    BY DEF Forgotten, Alive, Unreferenced, NoneOf, Queued, Contents
  <2> QED
    BY <2>1, <2>2
<1> QED
  BY <1>1, <1>2

LEMMA UntouchedIsSame ==
  ASSUME TypeOK, TypeOK', NEW r \in Sessions, Untouched(r)
  PROVE  /\ Cached(r)' <=> Cached(r)
         /\ HeldByReceiver(r)' <=> HeldByReceiver(r)
         /\ Alive(r)' <=> Alive(r)
         /\ Forgotten(r)' <=> Forgotten(r)
         /\ Expired(r)' <=> Expired(r)
         /\ Leaving(r)' <=> Leaving(r)
<1>1. Cached(r)' <=> Cached(r)
  BY DEF Cached, Untouched
<1>2. HeldByReceiver(r)' <=> HeldByReceiver(r)
  BY PoolIndices DEF HeldByReceiver, Untouched
<1>3. \A k \in Ios : NoneOf(posted'[k], CompletionsOf(r)) <=> NoneOf(posted[k], CompletionsOf(r))
  BY DEF Untouched, SameOf
<1>4. Unreferenced(r)' <=> /\ ~Cached(r)' /\ ~HeldByReceiver(r)' /\ ~receiving'[r] /\ ~armed'[r]
                           /\ \A k \in Ios : thread'[k].s # r /\ NoneOf(posted'[k], CompletionsOf(r))
  BY DEF Unreferenced, NoneOf
<1>5. Unreferenced(r)' <=> Unreferenced(r)
  BY <1>1, <1>2, <1>3, <1>4 DEF Unreferenced, Untouched
<1>6. {TimerDone(r, "ok")} \in SUBSET CompletionsOf(r)
  BY CompletionTypes
<1>7. ios[r] \in Ios
  BY DEF TypeOK
<1>8. Expired(r)' <=> Expired(r)
  BY <1>6, <1>7, ExpiredInQueue DEF Untouched, SameOf
<1>9. Leaving(r)' <=> Leaving(r)
  BY DEF Leaving, Untouched
<1> QED
  BY <1>1, <1>2, <1>5, <1>8, <1>9, ForgottenIsUnreferenced DEF Alive

\* What an invariant of s says of the next state, in terms of its queues.
LEMMA NextQueues ==
  ASSUME NEW r \in Sessions
  PROVE  /\ AtHome(r)' <=> \A k \in Ios \ {ios'[r]} : NoneOf(posted'[k], CompletionsOf(r))
         /\ SessionInv(r)' <=>
              /\ AtHome(r)' /\ OwnEntry(r)' /\ HasClient(r)' /\ DeadLeaves(r)'
              /\ OneOf(posted'[ios'[r]], {TimerDone(r, "ok")})
              /\ KeepaliveChain(r)' /\ ReceiveInv(r)'
         /\ Unheard(r)' <=> ~receiving'[r] /\ NoneOf(posted'[ios'[r]], Receives(r))
         /\ ReceiveInv(r)' <=>
              /\ OneOf(posted'[ios'[r]], Receives(r))
              /\ receiving'[r] => NoneOf(posted'[ios'[r]], Receives(r))
              /\ ~ReceiveMayFail =>
                   /\ closed'[r] \/ ~Alive(r)' \/ NoneOf(posted'[ios'[r]], Failures(r))
                   /\ Cached(r)' /\ ~closed'[r] => ~Unheard(r)'
<1>1. SessionInv(r)' <=>
        /\ AtHome(r)' /\ OwnEntry(r)' /\ HasClient(r)' /\ DeadLeaves(r)'
        /\ OneOf(posted'[ios'[r]], {TimerDone(r, "ok")})
        /\ KeepaliveChain(r)' /\ ReceiveInv(r)'
  BY DEF SessionInv, OneOf, TimerDone
<1> QED
  BY <1>1 DEF AtHome, Unheard, ReceiveInv, NoneOf, OneOf

\* What is to be shown of every session.
Invariant(r) == SessionInv(r) /\ (Calm => CalmInv(r))

LEMMA UntouchedKeeps ==
  ASSUME TypeOK, TypeOK', NEW r \in Sessions, Untouched(r), Invariant(r)
  PROVE  Invariant(r)'
<1>1. /\ Cached(r)' <=> Cached(r)
      /\ HeldByReceiver(r)' <=> HeldByReceiver(r)
      /\ Alive(r)' <=> Alive(r)
      /\ Forgotten(r)' <=> Forgotten(r)
      /\ Expired(r)' <=> Expired(r)
      /\ Leaving(r)' <=> Leaving(r)
  BY UntouchedIsSame
<1>2. /\ {TimerDone(r, "ok")} \in SUBSET CompletionsOf(r)
      /\ Receives(r) \in SUBSET CompletionsOf(r) /\ Failures(r) \in SUBSET CompletionsOf(r)
  BY CompletionTypes DEF Receives, Failures
<1>3. /\ ios[r] \in Ios /\ ios'[r] = ios[r]
      /\ SessionInv(r)
  BY DEF TypeOK, Untouched, Invariant
<1>4. AtHome(r)'
  BY <1>3, NextQueues DEF SessionInv, AtHome, Untouched, SameOf
<1>5. OwnEntry(r)' /\ HasClient(r)' /\ DeadLeaves(r)'
  BY <1>1, <1>3 DEF SessionInv, OwnEntry, HasClient, DeadLeaves, Untouched
<1>6. OneOf(posted'[ios'[r]], {TimerDone(r, "ok")})
  BY <1>2, <1>3 DEF SessionInv, Untouched, SameOf
<1>7. KeepaliveChain(r)'
  BY <1>1, <1>3, PoolIndices DEF SessionInv, KeepaliveChain, Untouched
<1>8. /\ NoneOf(posted'[ios[r]], Receives(r)) <=> NoneOf(posted[ios[r]], Receives(r))
      /\ NoneOf(posted'[ios[r]], Failures(r)) <=> NoneOf(posted[ios[r]], Failures(r))
      /\ OneOf(posted[ios[r]], Receives(r)) => OneOf(posted'[ios[r]], Receives(r))
  BY <1>2, <1>3 DEF Untouched, SameOf
<1>9. ReceiveInv(r)'
  BY <1>1, <1>3, <1>8, NextQueues DEF SessionInv, ReceiveInv, Unheard, Untouched
<1>10. ASSUME Calm PROVE CalmInv(r)'
  <2>1. CalmInv(r)
    BY <1>10 DEF Invariant
  <2>2. Known(r)' /\ ExpiryOfEntry(r)'
    BY <1>1, <2>1 DEF CalmInv, Known, ExpiryOfEntry, Untouched
  <2>3. ClosesOnce(r)'
    BY <1>1, <2>1 DEF CalmInv, ClosesOnce, Untouched
  <2> QED
    BY <2>2, <2>3 DEF CalmInv
<1> QED
  BY <1>4, <1>5, <1>6, <1>7, <1>9, <1>10, NextQueues DEF Invariant, Calm

LEMMA SameOfAppend ==
  ASSUME NEW queue \in Seq(Completion), NEW e \in Completion, NEW r, e \notin CompletionsOf(r)
  PROVE  SameOf(queue, Append(queue, e), r)
<1> SUFFICES ASSUME NEW S \in SUBSET CompletionsOf(r)
             PROVE  /\ NoneOf(Append(queue, e), S) <=> NoneOf(queue, S)
                    /\ OneOf(queue, S) => OneOf(Append(queue, e), S)
  BY DEF SameOf
<1> QED
  BY OfAppend

LEMMA SameOfTail ==
  ASSUME NEW queue \in Seq(Completion), queue # <<>>, NEW r, Head(queue) \notin CompletionsOf(r)
  PROVE  SameOf(queue, Tail(queue), r)
<1> SUFFICES ASSUME NEW S \in SUBSET CompletionsOf(r)
             PROVE  /\ NoneOf(Tail(queue), S) <=> NoneOf(queue, S)
                    /\ OneOf(queue, S) => OneOf(Tail(queue), S)
  BY DEF SameOf
<1> QED
  BY OfTail

LEMMA SameOfTransitive ==
  ASSUME NEW old, NEW mid, NEW new, NEW r, SameOf(old, mid, r), SameOf(mid, new, r)
  PROVE  SameOf(old, new, r)
BY DEF SameOf

LEMMA SameOfRequeue ==
  ASSUME TypeOK, NEW k \in Ios, NEW queue, posted' = [posted EXCEPT ![k] = queue],
         NEW r, SameOf(posted[k], queue, r)
  PROVE  \A h \in Ios : SameOf(posted[h], posted'[h], r)
BY DEF TypeOK, SameOf

\* Nothing of s comes to a queue but a cancelled wait, to that of its io_service.
QueuesKeep(s) ==
  /\ \A k \in Ios \ {ios[s]} :
       NoneOf(posted[k], CompletionsOf(s)) => NoneOf(posted'[k], CompletionsOf(s))
  /\ \A S \in {{TimerDone(s, "ok")}, Receives(s), Failures(s)} :
       /\ NoneOf(posted'[ios[s]], S) <=> NoneOf(posted[ios[s]], S)
       /\ OneOf(posted[ios[s]], S) => OneOf(posted'[ios[s]], S)

\* A step that cancels the wait of s, or nothing at all.
OnlyCancels(s) ==
  /\ \A r \in Sessions \ {s} :
       armed'[r] = armed[r] /\ \A k \in Ios : SameOf(posted[k], posted'[k], r)
  /\ QueuesKeep(s)

LEMMA NothingCancelled ==
  ASSUME NEW s \in Sessions, UNCHANGED <<armed, posted>>
  PROVE  OnlyCancels(s)
BY DEF OnlyCancels, QueuesKeep, SameOf

LEMMA OfCancel ==
  ASSUME TypeOK, NEW s \in Sessions, Cancel(s)
  PROVE  OnlyCancels(s)
<1> DEFINE e == TimerDone(s, "aborted")
<1>1. PICK h \in Ios : h = ios[s]
  BY DEF TypeOK
<1>2. posted[h] \in Seq(Completion)
  BY DEF TypeOK
<1>3. /\ e \in Completion
      /\ \A r \in Sessions \ {s} : e \notin CompletionsOf(r)
      /\ e \notin {TimerDone(s, "ok")} /\ e \notin Receives(s) /\ e \notin Failures(s)
  BY DEF TimerDone, CompletionsOf, Completion, Receives, Failures
<1> HIDE DEF e
<1>4. \A r \in Sessions \ {s} : armed'[r] = armed[r]
  BY DEF Cancel, TypeOK
<1>5. CASE posted' = [posted EXCEPT ![h] = posted[h]]
  <2>1. posted' = posted
    BY <1>5 DEF TypeOK
  <2> QED
    BY <1>4, <2>1 DEF OnlyCancels, QueuesKeep, SameOf
<1>6. CASE posted' = [posted EXCEPT ![h] = Append(posted[h], e)]
  <2>1. \A r \in Sessions \ {s} : \A k \in Ios : SameOf(posted[k], posted'[k], r)
    BY <1>2, <1>3, <1>6, SameOfAppend, SameOfRequeue
  <2>2. posted'[h] = Append(posted[h], e) /\ \A k \in Ios \ {h} : posted'[k] = posted[k]
    BY <1>6 DEF TypeOK
  <2>3. \A S \in {{TimerDone(s, "ok")}, Receives(s), Failures(s)} :
          /\ NoneOf(posted'[h], S) <=> NoneOf(posted[h], S)
          /\ OneOf(posted[h], S) => OneOf(posted'[h], S)
    BY <1>2, <1>3, <2>2, OfAppend
  <2> QED
    BY <1>1, <1>4, <2>1, <2>2, <2>3 DEF OnlyCancels, QueuesKeep
<1> QED
  BY <1>1, <1>5, <1>6 DEF Cancel, e

LEMMA OfRelease ==
  ASSUME TypeOK, NEW s \in Sessions, NEW isLast, Release(s, isLast)
  PROVE  OnlyCancels(s)
BY OfCancel, NothingCancelled DEF Release

\* What such a step leaves of the invariant, whatever its thread does.
LEMMA QueuesKept ==
  ASSUME TypeOK, TypeOK', NEW s \in Sessions, SessionInv(s), QueuesKeep(s),
         UNCHANGED <<client, ios, receiving>>
  PROVE  /\ AtHome(s)' /\ (Expired(s)' <=> Expired(s))
         /\ OneOf(posted'[ios'[s]], {TimerDone(s, "ok")})
         /\ OneOf(posted'[ios'[s]], Receives(s))
         /\ receiving'[s] => NoneOf(posted'[ios'[s]], Receives(s))
         /\ NoneOf(posted'[ios'[s]], Failures(s)) <=> NoneOf(posted[ios[s]], Failures(s))
         /\ Unheard(s)' <=> Unheard(s)
<1>1. \A S \in {{TimerDone(s, "ok")}, Receives(s), Failures(s)} :
        /\ NoneOf(posted'[ios'[s]], S) <=> NoneOf(posted[ios[s]], S)
        /\ OneOf(posted[ios[s]], S) => OneOf(posted'[ios'[s]], S)
  BY DEF QueuesKeep
<1>2. AtHome(s)'
  BY NextQueues DEF SessionInv, AtHome, QueuesKeep
<1>3. Expired(s)' <=> Expired(s)
  BY <1>1, ExpiredInQueue
<1>4. Unheard(s)' <=> Unheard(s)
  BY <1>1, NextQueues DEF Unheard
<1> QED
  BY <1>1, <1>2, <1>3, <1>4 DEF SessionInv, ReceiveInv

-----------------------------------------------------------------------------
(* One action after the other: the session it concerns.                    *)

\* With the sessions the step concerns, all of them keep the invariant.
LEMMA ConcernedKeep ==
  ASSUME TypeOK, TypeOK', IInv, NEW S, OnlyConcerns(S), \A r \in Sessions \cap S : Invariant(r)'
  PROVE  IInv'
<1>1. \A r \in Sessions \ S : Invariant(r)'
  BY UntouchedKeeps DEF OnlyConcerns, IInv, Invariant
<1>2. \A r \in Sessions : Invariant(r)'
  BY <1>1
<1> QED
  BY <1>2 DEF IInv, Invariant

\* The step neither creates nor closes s, nor changes the cache.
Lives(s) == ~Forgotten(s) /\ cache' = cache /\ closed' = closed

\* Of a session in use, a step of thread 0 only cancels the wait at most.
LEMMA ReceiverKeeps ==
  ASSUME TypeOK, TypeOK', IInv, NEW s \in Sessions, OnlyConcerns({s}), OnlyCancels(s),
         UNCHANGED <<cache, client, ios, closed, receiving>>, Alive(s),
         \A k \in Ios \ {0} : thread'[k] = thread[k],
         thread[0].at \notin {"close", "erase"}, thread'[0].at \notin {"close", "erase"},
         KeepaliveChain(s)'
  PROVE  OnlyConcerns({s}) /\ Lives(s) /\ IInv'
<1>1. SessionInv(s) /\ ~Forgotten(s)
  BY DEF IInv, Forgotten
<1>2. /\ AtHome(s)' /\ (Expired(s)' <=> Expired(s))
      /\ OneOf(posted'[ios'[s]], {TimerDone(s, "ok")})
      /\ OneOf(posted'[ios'[s]], Receives(s))
      /\ receiving'[s] => NoneOf(posted'[ios'[s]], Receives(s))
      /\ NoneOf(posted'[ios'[s]], Failures(s)) <=> NoneOf(posted[ios[s]], Failures(s))
      /\ Unheard(s)' <=> Unheard(s)
  BY <1>1, QueuesKept DEF OnlyCancels
<1>3. /\ Cached(s)' <=> Cached(s)
      /\ Leaving(s) => Leaving(s)'
  BY DEF Cached, Leaving
<1>4. OwnEntry(s)' /\ HasClient(s)' /\ DeadLeaves(s)'
  BY <1>1, <1>3 DEF SessionInv, OwnEntry, HasClient, DeadLeaves
<1>5. ReceiveInv(s)'
  <2>1. ~ReceiveMayFail =>
          /\ closed'[s] \/ NoneOf(posted'[ios'[s]], Failures(s))
          /\ Cached(s)' /\ ~closed'[s] => ~Unheard(s)'
    BY <1>1, <1>2, <1>3 DEF SessionInv, ReceiveInv
  <2> QED
    BY <1>2, <2>1, NextQueues
<1>6. SessionInv(s)'
  BY <1>2, <1>4, <1>5, NextQueues
<1>7. ASSUME Calm PROVE CalmInv(s)'
  <2>1. CalmInv(s)
    BY <1>7 DEF IInv
  <2>2. Known(s)'
    BY <1>1, <1>3, <2>1 DEF CalmInv, Known
  <2>3. ClosesOnce(s)'
    BY <1>2, <1>3, <2>1 DEF CalmInv, ClosesOnce
  <2>4. ExpiryOfEntry(s)'
    BY <1>2, <1>3, <2>1 DEF CalmInv, ExpiryOfEntry
  <2> QED
    BY <2>2, <2>3, <2>4 DEF CalmInv
<1> QED
  BY <1>1, <1>6, <1>7, ConcernedKeep DEF Lives, Invariant, Calm

LEMMA ReceiveClientKeeps ==
  ASSUME TypeOK, TypeOK', IInv, ReceiveClient
  PROVE  OnlyConcerns({}) /\ IInv'
<1>1. thread[0].s = NoSession /\ thread'[0].s = NoSession
      /\ \A k \in Ios \ {0} : thread'[k] = thread[k]
  BY Threads, PoolIndices DEF ReceiveClient, TypeOK, At, Polling
<1>2. OnlyConcerns({})
  BY <1>1, UdpAssumption, PoolIndices
     DEF ReceiveClient, sessionVars, OnlyConcerns, Untouched, SameOf
<1> QED
  BY <1>2, ConcernedKeep

LEMMA FindSessionKeeps ==
  ASSUME TypeOK, TypeOK', IInv, FindSession
  PROVE  \E s \in Sessions : OnlyConcerns({s}) /\ Lives(s) /\ IInv'
<1>1. PICK s \in Sessions, c \in Clients : c = thread[0].c /\ s = cache[c]
  BY Threads, PoolIndices DEF FindSession, TypeOK
<1>2. /\ UNCHANGED <<posted, cache, client, ios, closed, armed, receiving>>
      /\ thread' = [thread EXCEPT ![0] = At("test", c, s)]
      /\ thread[0].at = "lookup" /\ thread[0].s = NoSession
  BY <1>1, Threads, PoolIndices DEF FindSession, sessionVars
<1>3. /\ thread'[0].at = "test" /\ thread'[0].s = s
      /\ \A k \in Ios \ {0} : thread'[k] = thread[k]
  BY <1>2, PoolIndices DEF TypeOK, At
<1>4. OnlyConcerns({s})
  BY <1>2, <1>3, UdpAssumption, PoolIndices DEF OnlyConcerns, Untouched, SameOf
<1>5. Alive(s) /\ OnlyCancels(s)
  BY <1>1, <1>2, NothingCancelled DEF Alive, Cached
<1>6. KeepaliveChain(s)'
  BY <1>3 DEF KeepaliveChain
<1> QED
  BY <1>2, <1>3, <1>4, <1>5, <1>6, ReceiverKeeps

LEMMA TestClosedKeeps ==
  ASSUME TypeOK, TypeOK', IInv, TestClosed
  PROVE  \E s \in Sessions : OnlyConcerns({s}) /\ Lives(s) /\ IInv'
<1>1. PICK s \in Sessions : s = thread[0].s
  BY Threads, PoolIndices DEF TestClosed
<1>2. /\ UNCHANGED <<posted, cache, client, ios, closed, armed, receiving>>
      /\ thread[0].at = "test"
  BY DEF TestClosed, sessionVars
<1>3. /\ thread'[0].at = IF closed[s] THEN "forward" ELSE "reset"
      /\ thread'[0].s = s
      /\ \A k \in Ios \ {0} : thread'[k] = thread[k]
  BY <1>1, Threads, PoolIndices DEF TestClosed, TypeOK
<1>4. OnlyConcerns({s})
  BY <1>1, <1>2, <1>3, PoolIndices DEF OnlyConcerns, Untouched, SameOf
<1>5. Alive(s) /\ OnlyCancels(s)
  BY <1>1, <1>2, NothingCancelled DEF Alive, HeldByReceiver
<1>6. KeepaliveChain(s)'
  <2>1. CASE closed[s]
    <3>1. Cached(s)' => Leaving(s)
      BY <1>2, <2>1 DEF IInv, SessionInv, DeadLeaves, Cached
    <3>2. Leaving(s) => \E k \in Ios : thread'[k].at \in {"close", "erase"} /\ thread'[k].s = s
      BY <1>2, <1>3 DEF Leaving
    <3> QED
      BY <3>1, <3>2 DEF KeepaliveChain
  <2>2. CASE ~closed[s]
    BY <1>3, <2>2 DEF KeepaliveChain
  <2> QED
    BY <2>1, <2>2
<1> QED
  BY <1>2, <1>3, <1>4, <1>5, <1>6, ReceiverKeeps

LEMMA ResetKeepaliveTimerKeeps ==
  ASSUME TypeOK, TypeOK', IInv, ResetKeepaliveTimer
  PROVE  \E s \in Sessions : OnlyConcerns({s}) /\ Lives(s) /\ IInv'
<1>1. PICK s \in Sessions : s = thread[0].s
  BY Threads, PoolIndices DEF ResetKeepaliveTimer
<1>2. /\ UNCHANGED <<cache, client, ios, closed, receiving>>
      /\ thread[0].at = "reset" /\ OnlyCancels(s)
  BY <1>1, OfCancel DEF ResetKeepaliveTimer
<1>3. /\ thread'[0].at = "arming" /\ thread'[0].s = s
      /\ \A k \in Ios \ {0} : thread'[k] = thread[k]
  BY <1>1, Threads, PoolIndices DEF ResetKeepaliveTimer, TypeOK
<1>4. OnlyConcerns({s})
  BY <1>1, <1>2, <1>3, PoolIndices DEF OnlyConcerns, Untouched, OnlyCancels
<1>5. Alive(s)
  BY <1>1, <1>2 DEF Alive, HeldByReceiver
<1>6. KeepaliveChain(s)'
  BY <1>3 DEF KeepaliveChain
<1> QED
  BY <1>2, <1>3, <1>4, <1>5, <1>6, ReceiverKeeps

LEMMA WaitBeginsKeeps ==
  ASSUME TypeOK, TypeOK', IInv, WaitBegins
  PROVE  \E s \in Sessions : OnlyConcerns({s}) /\ Lives(s) /\ IInv'
<1>1. PICK s \in Sessions : s = thread[0].s
  BY Threads, PoolIndices DEF WaitBegins
<1>2. /\ UNCHANGED <<posted, cache, client, ios, closed, receiving>>
      /\ armed' = [armed EXCEPT ![s] = TRUE] /\ thread[0].at = "arming"
  BY <1>1 DEF WaitBegins
<1>3. /\ thread'[0].at = "forward" /\ thread'[0].s = s
      /\ \A k \in Ios \ {0} : thread'[k] = thread[k]
  BY <1>1, Threads, PoolIndices DEF WaitBegins, TypeOK
<1>4. armed'[s] /\ \A r \in Sessions \ {s} : armed'[r] = armed[r]
  BY <1>2 DEF TypeOK
<1>5. OnlyConcerns({s}) /\ OnlyCancels(s)
  BY <1>1, <1>2, <1>3, <1>4, PoolIndices
     DEF OnlyConcerns, Untouched, OnlyCancels, QueuesKeep, SameOf
<1>6. Alive(s) /\ KeepaliveChain(s)'
  BY <1>1, <1>2, <1>4 DEF Alive, HeldByReceiver, KeepaliveChain
<1> QED
  BY <1>2, <1>3, <1>5, <1>6, ReceiverKeeps

LEMMA ForwardKeeps ==
  ASSUME TypeOK, TypeOK', IInv, Forward
  PROVE  \E s \in Sessions : OnlyConcerns({s}) /\ Lives(s) /\ IInv'
<1>1. PICK s \in Sessions : s = thread[0].s
  BY Threads, PoolIndices DEF Forward
<1>2. /\ UNCHANGED <<cache, client, ios, closed, receiving>>
      /\ thread[0].at = "forward" /\ OnlyCancels(s)
      /\ Cached(s) => UNCHANGED <<armed, posted>>
  BY <1>1, OfRelease DEF Forward, Release
<1>3. /\ thread'[0].at = "poll" /\ thread'[0].s = NoSession
      /\ \A k \in Ios \ {0} : thread'[k] = thread[k]
  BY PoolIndices DEF Forward, TypeOK, Polling, At
<1>4. OnlyConcerns({s})
  BY <1>1, <1>2, <1>3, UdpAssumption, PoolIndices DEF OnlyConcerns, Untouched, OnlyCancels
<1>5. Alive(s) /\ SessionInv(s)
  BY <1>1, <1>2 DEF Alive, HeldByReceiver, IInv
<1>6. KeepaliveChain(s)'
  <2>1. ASSUME NEW k \in Ios, thread[k].at \in {"close", "erase"}, thread[k].s = s
        PROVE  thread'[k].at \in {"close", "erase"} /\ thread'[k].s = s
    BY <1>2, <1>3, <2>1
  <2>2. /\ Cached(s)' <=> Cached(s)
        /\ Cached(s) => (Expired(s)' <=> Expired(s)) /\ armed'[s] = armed[s]
    BY <1>2 DEF Cached, Expired, Queued, Contents
  <2> QED
    BY <1>2, <1>5, <2>1, <2>2 DEF SessionInv, KeepaliveChain
<1> QED
  BY <1>2, <1>3, <1>4, <1>5, <1>6, ReceiverKeeps

LEMMA CloseKeeps ==
  ASSUME TypeOK, TypeOK', IInv, NEW k \in Ios, Close(k)
  PROVE  \E s \in Sessions :
           /\ OnlyConcerns({s}) /\ IInv'
           /\ Calm => Cached(s) /\ ~closed[s]
           /\ cache' = cache /\ closed' = [closed EXCEPT ![s] = TRUE]
<1>1. PICK s \in Sessions : s = thread[k].s
  BY Threads DEF Close
<1>2. SessionInv(s) /\ ~Forgotten(s) /\ thread[k].at = "close"
  BY <1>1, ClientOfClosing DEF IInv, Close
<1>3. /\ UNCHANGED <<cache, client, ios, receiving>>
      /\ closed' = [closed EXCEPT ![s] = TRUE]
      /\ OnlyCancels(s)
  BY <1>1, OfCancel DEF Close
<1>4. /\ thread'[k].at = "erase" /\ thread'[k].s = s
      /\ \A h \in Ios \ {k} : thread'[h] = thread[h]
  BY <1>1, Threads DEF Close, TypeOK
<1>5. /\ closed'[s] /\ \A r \in Sessions \ {s} : closed'[r] = closed[r]
      /\ Cached(s)' <=> Cached(s)
  BY <1>3 DEF Cached, TypeOK
<1>6. OnlyConcerns({s})
  BY <1>1, <1>3, <1>4, <1>5 DEF OnlyConcerns, Untouched, OnlyCancels
<1>7. /\ AtHome(s)' /\ (Expired(s)' <=> Expired(s))
      /\ OneOf(posted'[ios'[s]], {TimerDone(s, "ok")})
      /\ OneOf(posted'[ios'[s]], Receives(s))
      /\ receiving'[s] => NoneOf(posted'[ios'[s]], Receives(s))
  BY <1>2, <1>3, QueuesKept DEF OnlyCancels
<1>8. OwnEntry(s)' /\ HasClient(s)' /\ DeadLeaves(s)' /\ KeepaliveChain(s)'
  BY <1>2, <1>3, <1>4 DEF SessionInv, OwnEntry, HasClient, DeadLeaves, Leaving, KeepaliveChain
<1>9. ReceiveInv(s)'
  BY <1>5, <1>7, NextQueues
<1>10. SessionInv(s)'
  BY <1>7, <1>8, <1>9, NextQueues
<1>11. ASSUME Calm PROVE Cached(s) /\ ~closed[s] /\ CalmInv(s)'
  <2>1. CalmInv(s)
    BY <1>11 DEF IInv
  <2>2. k = ios[s] /\ Cached(s) /\ ~Expired(s) /\ ~closed[s]
    BY <1>1, <1>2, <2>1 DEF CalmInv, ClosesOnce
  <2>3. Known(s)' /\ ExpiryOfEntry(s)'
    BY <1>5, <1>7, <2>2 DEF Known, ExpiryOfEntry
  <2>4. ClosesOnce(s)'
    BY <1>3, <1>4, <1>5, <1>7, <2>1, <2>2 DEF CalmInv, ClosesOnce
  <2> QED
    BY <2>2, <2>3, <2>4 DEF CalmInv
<1> QED
  BY <1>3, <1>6, <1>10, <1>11, ConcernedKeep DEF Invariant, Calm

\* Without Calm, the entry a closed session erases may be that of another.
LEMMA EraseKeeps ==
  ASSUME TypeOK, TypeOK', IInv, NEW k \in Ios, Erase(k)
  PROVE  /\ IInv'
         /\ Calm => \E s \in Sessions, c \in Clients :
              /\ OnlyConcerns({s})
              /\ cache[c] = s /\ closed[s] /\ closed' = closed
              /\ cache' = [cache EXCEPT ![c] = NoSession]
<1>1. PICK s \in Sessions, c \in Clients, gone \in Sessions \union {NoSession} :
        s = thread[k].s /\ c = client[s] /\ gone = cache[c]
  BY ClientOfClosing DEF Erase, TypeOK
<1>2. /\ UNCHANGED <<client, ios, closed, receiving>>
      /\ cache' = [cache EXCEPT ![c] = NoSession]
      /\ IF gone = NoSession THEN UNCHANGED <<armed, mayWait, posted>>
         ELSE Release(gone, ~HeldByReceiver(gone))
      /\ thread[k].at = "erase"
  BY <1>1 DEF Erase
<1>3. /\ thread'[k].at = "poll" /\ thread'[k].s = NoSession
      /\ \A h \in Ios \ {k} : thread'[h] = thread[h]
  BY DEF Erase, TypeOK, Polling, At
<1>4. NoSession \notin Sessions
  BY UdpAssumption
<1>5. IF gone = NoSession THEN UNCHANGED <<armed, posted>> ELSE OnlyCancels(gone)
  BY <1>1, <1>2, OfRelease
<1>6. /\ cache'[c] = NoSession
      /\ \A d \in Clients \ {c} : cache'[d] = cache[d]
  BY <1>2 DEF TypeOK
<1>7. OnlyConcerns({s, gone})
  <2> SUFFICES ASSUME NEW r \in Sessions \ {s, gone} PROVE Untouched(r)
    BY DEF OnlyConcerns
  <2>1. \A d \in Clients : cache'[d] = r <=> cache[d] = r
    BY <1>1, <1>4, <1>6
  <2>2. armed'[r] = armed[r] /\ \A h \in Ios : SameOf(posted[h], posted'[h], r)
    BY <1>1, <1>5 DEF OnlyCancels, SameOf
  <2>3. \A h \in Ios : thread'[h] = thread[h] \/ (thread[h].s # r /\ thread'[h].s # r)
    BY <1>1, <1>3, <1>4
  <2> QED
    BY <1>2, <2>1, <2>2, <2>3 DEF Untouched
<1>8. ASSUME NEW r \in Sessions \cap {s, gone} PROVE SessionInv(r)'
  <2>1. SessionInv(r)
    BY DEF IInv
  <2>2. ~Forgotten(r)
    <3>1. ~Forgotten(s)
      BY <1>1, <1>2, ClientOfClosing
    <3>2. r = gone => Cached(r)
      BY <1>1 DEF Cached
    <3> QED
      BY <1>8, <3>1, <3>2 DEF Forgotten, Alive
  <2>3. ~Cached(r)'
    <3>1. \A d \in Clients : cache[d] = r => d = c
      BY <1>1, <1>8, <2>1 DEF SessionInv, OwnEntry
    <3> QED
      BY <1>4, <1>6, <3>1 DEF Cached
  <2>4. QueuesKeep(r)
    <3>1. CASE r = gone
      BY <1>4, <1>5, <3>1 DEF OnlyCancels
    <3>2. CASE r # gone
      <4>1. \A h \in Ios : SameOf(posted[h], posted'[h], r)
        BY <1>5, <3>2 DEF OnlyCancels, SameOf
      <4>2. /\ {TimerDone(r, "ok")} \in SUBSET CompletionsOf(r)
            /\ Receives(r) \in SUBSET CompletionsOf(r) /\ Failures(r) \in SUBSET CompletionsOf(r)
            /\ CompletionsOf(r) \in SUBSET CompletionsOf(r)
        BY CompletionTypes DEF Receives, Failures
      <4>3. ios[r] \in Ios
        BY DEF TypeOK
      <4> QED
        BY <4>1, <4>2, <4>3 DEF QueuesKeep, SameOf
    <3> QED
      BY <3>1, <3>2
  <2>5. /\ AtHome(r)' /\ (Expired(r)' <=> Expired(r))
        /\ OneOf(posted'[ios'[r]], {TimerDone(r, "ok")})
        /\ OneOf(posted'[ios'[r]], Receives(r))
        /\ receiving'[r] => NoneOf(posted'[ios'[r]], Receives(r))
        /\ NoneOf(posted'[ios'[r]], Failures(r)) <=> NoneOf(posted[ios[r]], Failures(r))
    BY <1>2, <2>1, <2>4, QueuesKept
  <2>6. OwnEntry(r)' /\ HasClient(r)' /\ DeadLeaves(r)' /\ KeepaliveChain(r)'
    BY <1>2, <2>1, <2>2, <2>3
       DEF SessionInv, OwnEntry, HasClient, DeadLeaves, KeepaliveChain, Cached
  <2>7. HeldByReceiver(r)' => HeldByReceiver(r)
    BY <1>3, PoolIndices DEF HeldByReceiver
  <2>8. ReceiveInv(r)'
    BY <1>2, <2>1, <2>3, <2>5, <2>7, NextQueues DEF SessionInv, ReceiveInv, Alive
  <2> QED
    BY <2>5, <2>6, <2>8, NextQueues
<1>9. ASSUME Calm
      PROVE  gone = s /\ closed[s] /\ CalmInv(s)'
  <2>1. CalmInv(s)
    BY <1>9 DEF IInv
  <2>2. k = ios[s] /\ Cached(s) /\ ~Expired(s) /\ closed[s]
    BY <1>1, <1>2, <2>1 DEF CalmInv, ClosesOnce
  <2>3. OwnEntry(s) /\ SessionInv(s)
    BY DEF IInv, SessionInv
  <2>4. gone = s
    BY <1>1, <2>2, <2>3 DEF OwnEntry, Cached
  <2>5. ~Expired(s)'
    BY <1>2, <1>4, <1>5, <2>2, <2>3, <2>4, QueuesKept DEF OnlyCancels
  <2>6. Known(s)' /\ ExpiryOfEntry(s)'
    BY <1>2, <2>2, <2>5 DEF Known, ExpiryOfEntry
  <2>7. ClosesOnce(s)'
    BY <1>1, <1>2, <1>3, <1>4, <2>1, <2>2 DEF CalmInv, ClosesOnce
  <2> QED
    BY <2>2, <2>4, <2>6, <2>7 DEF CalmInv
<1>10. IInv'
  <2>1. \A r \in Sessions \cap {s, gone} : Invariant(r)'
    BY <1>4, <1>8, <1>9 DEF Invariant, Calm
  <2> QED
    BY <1>7, <2>1, ConcernedKeep
<1>11. ASSUME Calm
       PROVE  \E r \in Sessions, d \in Clients :
                /\ OnlyConcerns({r})
                /\ cache[d] = r /\ closed[r] /\ closed' = closed
                /\ cache' = [cache EXCEPT ![d] = NoSession]
  <2>1. {s, gone} = {s}
    BY <1>9, <1>11
  <2>2. OnlyConcerns({s})
    BY <1>7, <2>1
  <2> QED
    BY <1>1, <1>2, <1>9, <1>11, <2>2
<1> QED
  BY <1>10, <1>11

\* A step of s on its thread k changes nothing but the receives of s.
LEMMA ReceivesKeep ==
  ASSUME TypeOK, TypeOK', IInv, NEW s \in Sessions, NEW k \in Ios, k = ios[s], ~Forgotten(s),
         UNCHANGED <<cache, client, ios, closed, armed, thread>>,
         \A h \in Ios \ {k} : posted'[h] = posted[h],
         \A r \in Sessions \ {s} : receiving'[r] = receiving[r] /\ SameOf(posted[k], posted'[k], r),
         NoneOf(posted'[k], {TimerDone(s, "ok")}) <=> NoneOf(posted[k], {TimerDone(s, "ok")}),
         OneOf(posted[k], {TimerDone(s, "ok")}) => OneOf(posted'[k], {TimerDone(s, "ok")}),
         ReceiveInv(s)'
  PROVE  OnlyConcerns({s}) /\ Lives(s) /\ IInv'
<1>1. OnlyConcerns({s})
  BY DEF OnlyConcerns, Untouched, SameOf
<1>2. SessionInv(s)
  BY DEF IInv
<1>3. /\ Cached(s)' <=> Cached(s)
      /\ HeldByReceiver(s)' <=> HeldByReceiver(s)
      /\ Alive(s)' <=> Alive(s)
      /\ Leaving(s)' <=> Leaving(s)
  BY DEF Cached, HeldByReceiver, Alive, Leaving
<1>4. Expired(s)' <=> Expired(s)
  BY ExpiredInQueue
<1>5. /\ AtHome(s)' /\ OwnEntry(s)' /\ HasClient(s)' /\ DeadLeaves(s)'
      /\ OneOf(posted'[ios'[s]], {TimerDone(s, "ok")})
  BY <1>2, <1>3, NextQueues DEF SessionInv, AtHome, OwnEntry, HasClient, DeadLeaves
<1>6. KeepaliveChain(s)'
  BY <1>2, <1>3, <1>4 DEF SessionInv, KeepaliveChain
<1>7. SessionInv(s)'
  BY <1>5, <1>6, NextQueues
<1>8. ASSUME Calm PROVE CalmInv(s)'
  <2>1. CalmInv(s)
    BY <1>8 DEF IInv
  <2>2. Known(s)' /\ ExpiryOfEntry(s)'
    BY <1>3, <1>4, <2>1 DEF CalmInv, Known, ExpiryOfEntry
  <2>3. ClosesOnce(s)'
    BY <1>3, <1>4, <2>1 DEF CalmInv, ClosesOnce
  <2> QED
    BY <2>2, <2>3 DEF CalmInv
<1> QED
  BY <1>1, <1>7, <1>8, ConcernedKeep DEF Lives, Invariant, Calm

LEMMA ReadableKeeps ==
  ASSUME TypeOK, TypeOK', IInv, NEW s \in Sessions, Readable(s)
  PROVE  OnlyConcerns({s}) /\ Lives(s) /\ IInv'
<1>1. PICK k \in Ios, ec \in {"aborted", "ready"} :
        /\ k = ios[s] /\ (ec = "aborted" <=> closed[s] \/ ~Alive(s))
        /\ posted' = [posted EXCEPT ![k] = Append(posted[k], ReceiveDone(s, ec))]
  BY DEF Readable, TypeOK
<1> DEFINE e == ReceiveDone(s, ec)
<1>2. /\ UNCHANGED <<cache, client, ios, closed, armed, thread>>
      /\ receiving' = [receiving EXCEPT ![s] = FALSE]
      /\ receiving[s]
  BY DEF Readable
<1>3. SessionInv(s) /\ ~Forgotten(s)
  BY <1>2 DEF IInv, Forgotten
<1>4. /\ e \in Completion /\ e \in Receives(s)
      /\ e # TimerDone(s, "ok")
      /\ e \in Failures(s) => closed[s] \/ ~Alive(s)
      /\ \A r \in Sessions \ {s} : e \notin CompletionsOf(r)
  BY <1>1 DEF ReceiveDone, TimerDone, Completion, Receives, Failures, CompletionsOf
<1> HIDE DEF e
<1>5. posted[k] \in Seq(Completion) /\ NoneOf(posted[k], Receives(s))
  BY <1>1, <1>2, <1>3 DEF TypeOK, SessionInv, ReceiveInv
<1>6. /\ posted'[k] = Append(posted[k], e) /\ ~receiving'[s]
      /\ \A h \in Ios \ {k} : posted'[h] = posted[h]
      /\ \A r \in Sessions \ {s} : receiving'[r] = receiving[r]
      /\ Alive(s)' <=> Alive(s)
  BY <1>1, <1>2 DEF Alive, Cached, HeldByReceiver, TypeOK, e
<1>7. /\ NoneOf(posted'[k], {TimerDone(s, "ok")}) <=> NoneOf(posted[k], {TimerDone(s, "ok")})
      /\ OneOf(posted[k], {TimerDone(s, "ok")}) => OneOf(posted'[k], {TimerDone(s, "ok")})
      /\ OneOf(posted'[k], Receives(s)) /\ ~NoneOf(posted'[k], Receives(s))
      /\ NoneOf(posted'[k], Failures(s)) <=> NoneOf(posted[k], Failures(s)) /\ e \notin Failures(s)
  BY <1>4, <1>5, <1>6, OfAppend
<1>8. \A r \in Sessions \ {s} : SameOf(posted[k], posted'[k], r)
  BY <1>4, <1>5, <1>6, SameOfAppend
<1>9. ReceiveInv(s)'
  <2>1. ios'[s] = k /\ closed'[s] = closed[s]
    BY <1>1, <1>2
  <2>2. ~ReceiveMayFail => closed'[s] \/ ~Alive(s)' \/ NoneOf(posted'[ios'[s]], Failures(s))
    BY <1>1, <1>3, <1>4, <1>6, <1>7, <2>1 DEF SessionInv, ReceiveInv
  <2> QED
    BY <1>6, <1>7, <2>1, <2>2, NextQueues
<1> QED
  BY <1>1, <1>2, <1>3, <1>6, <1>7, <1>8, <1>9, ReceivesKeep

LEMMA KeepaliveExpiresKeeps ==
  ASSUME TypeOK, TypeOK', IInv, NEW s \in Sessions, KeepaliveExpires(s)
  PROVE  OnlyConcerns({s}) /\ Lives(s) /\ IInv'
<1>1. PICK k \in Ios : k = ios[s]
  BY DEF TypeOK
<1> DEFINE e == TimerDone(s, "ok")
<1>2. /\ UNCHANGED <<cache, client, ios, closed, receiving, thread>>
      /\ posted' = [posted EXCEPT ![k] = Append(posted[k], e)]
      /\ armed' = [armed EXCEPT ![s] = FALSE]
      /\ armed[s] /\ ~Expired(s) /\ \A h \in Ios : thread[h].s # s
  BY <1>1 DEF KeepaliveExpires
<1>3. SessionInv(s) /\ ~Forgotten(s)
  BY <1>2 DEF IInv, Forgotten
<1>4. ~HeldByReceiver(s) /\ ~Leaving(s) /\ (Cached(s) => ~closed[s])
  BY <1>2, <1>3, PoolIndices DEF HeldByReceiver, Leaving, SessionInv, DeadLeaves
<1>5. /\ e \in Completion /\ e \notin Receives(s) /\ e \notin Failures(s)
      /\ \A r \in Sessions \ {s} : e \notin CompletionsOf(r)
  BY DEF TimerDone, Completion, Receives, Failures, CompletionsOf
<1>6. posted[k] \in Seq(Completion)
  BY DEF TypeOK
<1>7. NoneOf(posted[k], {e})
  BY <1>1, <1>2, ExpiredInQueue
<1> HIDE DEF e
<1>8. OnlyConcerns({s})
  <2> SUFFICES ASSUME NEW r \in Sessions \ {s} PROVE Untouched(r)
    BY DEF OnlyConcerns
  <2>1. \A h \in Ios : SameOf(posted[h], posted'[h], r)
    BY <1>2, <1>5, <1>6, SameOfAppend, SameOfRequeue
  <2> QED
    BY <1>2, <2>1 DEF Untouched, TypeOK
<1>9. /\ posted'[ios'[s]] = Append(posted[k], e)
      /\ \A h \in Ios \ {ios'[s]} : posted'[h] = posted[h]
      /\ Cached(s)' <=> Cached(s)
      /\ Alive(s)' <=> Alive(s)
  BY <1>1, <1>2 DEF Alive, Cached, HeldByReceiver, TypeOK
<1>10. OneOf(posted'[ios'[s]], {e}) /\ ~NoneOf(posted'[ios'[s]], {e})
  BY <1>5, <1>6, <1>7, <1>9, OfAppend
<1>11. Expired(s)'
  BY <1>10, ExpiredInQueue DEF e
<1>12. /\ AtHome(s)' /\ OwnEntry(s)' /\ HasClient(s)' /\ DeadLeaves(s)'
       /\ OneOf(posted'[ios'[s]], {TimerDone(s, "ok")}) /\ KeepaliveChain(s)'
  BY <1>2, <1>3, <1>4, <1>9, <1>10, <1>11, NextQueues
     DEF SessionInv, AtHome, OwnEntry, HasClient, DeadLeaves, KeepaliveChain, e
<1>13. ReceiveInv(s)'
  <2>1. \A S \in {Receives(s), Failures(s)} :
          /\ NoneOf(posted'[ios'[s]], S) <=> NoneOf(posted[ios[s]], S)
          /\ OneOf(posted[ios[s]], S) => OneOf(posted'[ios'[s]], S)
    BY <1>1, <1>5, <1>6, <1>9, OfAppend
  <2>2. receiving'[s] = receiving[s] /\ closed'[s] = closed[s]
    BY <1>2
  <2> QED
    BY <1>3, <1>9, <2>1, <2>2, NextQueues DEF SessionInv, ReceiveInv, Unheard
<1>14. SessionInv(s)'
  BY <1>12, <1>13, NextQueues
<1>15. ASSUME Calm PROVE CalmInv(s)'
  <2>1. CalmInv(s)
    BY <1>15 DEF IInv
  <2>2. IF closed[s] THEN ~Alive(s) ELSE Cached(s)
    BY <1>3, <1>4, <2>1 DEF CalmInv, Known, Alive
  <2>3. Known(s)' /\ ExpiryOfEntry(s)'
    BY <1>2, <1>9, <2>2 DEF Known, ExpiryOfEntry
  <2>4. ClosesOnce(s)'
    BY <1>2 DEF ClosesOnce
  <2> QED
    BY <2>3, <2>4 DEF CalmInv
<1> QED
  BY <1>2, <1>3, <1>8, <1>14, <1>15, ConcernedKeep DEF Lives, Invariant, Calm

\* What the completion at the head of a queue says of its session.
LEMMA HeadOf ==
  ASSUME TypeOK, IInv, NEW k \in Ios, posted[k] # <<>>,
         NEW s \in Sessions, Head(posted[k]) \in CompletionsOf(s)
  PROVE  /\ k = ios[s] /\ ~Forgotten(s) /\ posted[k] \in Seq(Completion)
         /\ \A r \in Sessions \ {s} : SameOf(posted[k], Tail(posted[k]), r)
<1>1. posted[k] \in Seq(Completion) /\ SessionInv(s)
  BY DEF TypeOK, IInv
<1>2. ~NoneOf(posted[k], CompletionsOf(s))
  BY <1>1, OfTail
<1>3. k = ios[s] /\ ~Forgotten(s)
  BY <1>1, <1>2, ForgottenIsUnreferenced DEF SessionInv, AtHome, Unreferenced
<1>4. \A r \in Sessions \ {s} : Head(posted[k]) \notin CompletionsOf(r)
  BY DEF CompletionsOf
<1> QED
  BY <1>1, <1>3, <1>4, SameOfTail

\* The handler of a wait that has outlived its session may close what it finds,
\* unless Calm.
LEMMA TimerHandlerKeeps ==
  ASSUME TypeOK, TypeOK', IInv, NEW k \in Ios, posted[k] # <<>>, thread[k].at = "poll",
         NEW s \in Sessions, NEW ec, Head(posted[k]) = [op |-> "timer", s |-> s, ec |-> ec],
         Head(posted[k]) \in Completion, TimerHandler(k, s, ec, Tail(posted[k]))
  PROVE  OnlyConcerns({s}) /\ Lives(s) /\ IInv'
<1> DEFINE done == Head(posted[k])
           rest == Tail(posted[k])
           ok   == {TimerDone(s, "ok")}
<1>1. /\ done \in CompletionsOf(s) /\ done \notin Receives(s) /\ done \notin Failures(s)
      /\ done \in ok <=> ec = "ok"
  BY DEF CompletionsOf, Receives, Failures, TimerDone
<1>2. /\ k = ios[s] /\ ~Forgotten(s) /\ posted[k] \in Seq(Completion)
      /\ \A r \in Sessions \ {s} : SameOf(posted[k], rest, r)
  BY <1>1, HeadOf
<1>3. /\ UNCHANGED <<cache, client, ios, closed, armed, receiving>>
      /\ posted' = [posted EXCEPT ![k] = rest]
  BY DEF TimerHandler, sessionVars
<1>4. SessionInv(s) /\ thread[k] = Polling
  BY Threads DEF IInv
<1>5. PICK closedRead \in IF Alive(s) THEN {closed[s]} ELSE FreedClosed :
        thread' = [thread EXCEPT ![k] =
          IF ~closedRead /\ ec = "ok" THEN At("close", client[s], s) ELSE Polling]
  BY DEF TimerHandler
<1>6. /\ \A h \in Ios \ {k} : thread'[h] = thread[h]
      /\ thread'[k].at \in {"poll", "close"} /\ thread'[k].s \in {s, NoSession}
      /\ thread'[k].at = "close" <=> ~closedRead /\ ec = "ok"
      /\ thread'[k].at = "close" => thread'[k].s = s
      /\ thread[k].at = "poll" /\ thread[k].s = NoSession
  BY <1>4, <1>5 DEF TypeOK, Polling, At
<1>7. /\ \A S \in {ok, Receives(s), Failures(s)} :
            /\ NoneOf(posted[k], S) <=> NoneOf(rest, S) /\ done \notin S
            /\ OneOf(posted[k], S) => OneOf(rest, S)
      /\ OneOf(posted[k], ok) /\ done \in ok => NoneOf(rest, ok)
  BY <1>2, OfTail
<1> HIDE DEF rest, done
<1>8. OnlyConcerns({s})
  <2> SUFFICES ASSUME NEW r \in Sessions \ {s} PROVE Untouched(r)
    BY DEF OnlyConcerns
  <2>1. \A h \in Ios : SameOf(posted[h], posted'[h], r)
    BY <1>2, <1>3, SameOfRequeue
  <2>2. thread[k].s # r /\ thread'[k].s # r
    BY <1>6, UdpAssumption
  <2> QED
    BY <1>3, <1>6, <2>1, <2>2 DEF Untouched
<1>9. /\ posted'[ios'[s]] = rest
      /\ \A h \in Ios \ {ios'[s]} : posted'[h] = posted[h]
      /\ Cached(s)' <=> Cached(s)
      /\ HeldByReceiver(s)' <=> HeldByReceiver(s)
      /\ Alive(s)' <=> Alive(s)
      /\ Leaving(s) => Leaving(s)'
  <2>1. posted'[ios'[s]] = rest /\ \A h \in Ios \ {ios'[s]} : posted'[h] = posted[h]
    BY <1>2, <1>3 DEF TypeOK
  <2>2. Cached(s)' <=> Cached(s)
    BY <1>3 DEF Cached
  <2>3. HeldByReceiver(s)' <=> HeldByReceiver(s)
    <3>1. CASE k = 0
      BY <1>6, <3>1 DEF HeldByReceiver
    <3>2. CASE k # 0
      BY <1>6, <3>2, PoolIndices DEF HeldByReceiver
    <3> QED
      BY <3>1, <3>2
  <2>4. Leaving(s) => Leaving(s)'
    BY <1>6 DEF Leaving
  <2> QED
    BY <2>1, <2>2, <2>3, <2>4 DEF Alive
<1>10. /\ OneOf(rest, ok)
       /\ Expired(s) <=> ~NoneOf(posted[k], ok)
       /\ Expired(s)' <=> ~NoneOf(rest, ok)
       /\ ec # "ok" => (Expired(s)' <=> Expired(s))
       /\ ec = "ok" => Expired(s) /\ ~Expired(s)'
  BY <1>1, <1>2, <1>4, <1>7, <1>9, ExpiredInQueue DEF SessionInv
<1>11. AtHome(s)' /\ OwnEntry(s)' /\ HasClient(s)' /\ DeadLeaves(s)'
  BY <1>2, <1>3, <1>4, <1>9, NextQueues
     DEF SessionInv, AtHome, OwnEntry, HasClient, DeadLeaves
<1>12. ReceiveInv(s)'
  BY <1>1, <1>2, <1>3, <1>4, <1>7, <1>9, NextQueues DEF SessionInv, ReceiveInv, Unheard
<1>13. KeepaliveChain(s)'
  <2>1. ASSUME NEW h \in Ios, thread[h].at \in {"close", "erase"}, thread[h].s = s
        PROVE  thread'[h].at \in {"close", "erase"} /\ thread'[h].s = s
    BY <1>6, <2>1
  <2>2. thread[0].s = s => thread'[0] = thread[0]
    BY <1>6, UdpAssumption, PoolIndices
  <2>3. CASE ec # "ok"
    BY <1>3, <1>4, <1>9, <1>10, <2>1, <2>2, <2>3 DEF SessionInv, KeepaliveChain
  <2>4. CASE ec = "ok" /\ Cached(s) /\ closed[s]
    BY <1>4, <1>9, <2>4 DEF SessionInv, DeadLeaves, Leaving, KeepaliveChain
  <2>5. CASE ec = "ok" /\ Cached(s) /\ ~closed[s]
    <3>1. thread'[k].at = "close" /\ thread'[k].s = s
      BY <1>5, <1>6, <2>5 DEF Alive
    <3> QED
      BY <3>1 DEF KeepaliveChain
  <2> QED
    BY <1>9, <2>3, <2>4, <2>5 DEF KeepaliveChain
<1>14. SessionInv(s)'
  BY <1>9, <1>10, <1>11, <1>12, <1>13, NextQueues
<1>15. ASSUME Calm PROVE CalmInv(s)'
  <2>1. CalmInv(s)
    BY <1>15 DEF IInv
  <2>2. Known(s)'
    BY <1>2, <1>3, <1>9, <2>1 DEF CalmInv, Known
  <2>3. ExpiryOfEntry(s)'
    BY <1>3, <1>9, <1>10, <2>1 DEF CalmInv, ExpiryOfEntry
  <2>4. thread'[k].at = "close" => Cached(s) /\ ~closed[s] /\ ~Expired(s)'
    <3>1. ~Alive(s) => closedRead
      BY <1>5, <1>15 DEF Calm
    <3> QED
      BY <1>5, <1>6, <1>10, <2>1, <3>1 DEF CalmInv, ExpiryOfEntry
  <2>5. ClosesOnce(s)'
    <3> SUFFICES ASSUME NEW h \in Ios, thread'[h].s = s, thread'[h].at \in {"close", "erase"}
                 PROVE  /\ h = ios'[s] /\ Cached(s)' /\ ~Expired(s)'
                        /\ closed'[s] <=> thread'[h].at = "erase"
      BY DEF ClosesOnce
    <3>1. CASE h = k
      BY <1>2, <1>3, <1>6, <1>9, <2>4, <3>1
    <3>2. CASE h # k
      <4>1. thread[h].s = s /\ thread[h].at \in {"close", "erase"}
        BY <1>6, <3>2
      <4>2. h = ios[s]
        BY <2>1, <4>1 DEF CalmInv, ClosesOnce
      <4> QED
        BY <1>2, <3>2, <4>2
    <3> QED
      BY <3>1, <3>2
  <2> QED
    BY <2>2, <2>3, <2>5 DEF CalmInv
<1> QED
  BY <1>2, <1>3, <1>8, <1>14, <1>15, ConcernedKeep DEF Lives, Invariant, Calm

\* A receive is started on a session that had none.
LEMMA AsyncReceiveStarts ==
  ASSUME TypeOK, NEW s \in Sessions, NEW k \in Ios, NEW queue \in Seq(Completion), NEW isOpen,
         AsyncReceive(s, k, queue, isOpen), NoneOf(queue, Receives(s))
  PROVE  /\ \A h \in Ios \ {k} : posted'[h] = posted[h]
         /\ \A r \in Sessions \ {s} : receiving'[r] = receiving[r] /\ SameOf(queue, posted'[k], r)
         /\ OneOf(posted'[k], Receives(s))
         /\ receiving'[s] <=> NoneOf(posted'[k], Receives(s))
         /\ NoneOf(posted'[k], {TimerDone(s, "ok")}) <=> NoneOf(queue, {TimerDone(s, "ok")})
         /\ OneOf(queue, {TimerDone(s, "ok")}) => OneOf(posted'[k], {TimerDone(s, "ok")})
         /\ isOpen /\ ~ReceiveMayFail => NoneOf(posted'[k], Failures(s))
<1>1. NoneOf(queue, Failures(s)) /\ OneOf(queue, Receives(s))
  BY NoneOfSubset DEF Failures
<1>2. CASE /\ receiving' = [receiving EXCEPT ![s] = TRUE]
           /\ posted' = [posted EXCEPT ![k] = queue]
  BY <1>1, <1>2 DEF TypeOK, SameOf
<1>3. ASSUME NEW ec \in IF isOpen THEN ReceiveResults ELSE {"error"},
             receiving' = [receiving EXCEPT ![s] = FALSE],
             posted' = [posted EXCEPT ![k] = Append(queue, ReceiveDone(s, ec))]
      PROVE  /\ \A h \in Ios \ {k} : posted'[h] = posted[h]
             /\ \A r \in Sessions \ {s} : receiving'[r] = receiving[r] /\ SameOf(queue, posted'[k], r)
             /\ OneOf(posted'[k], Receives(s))
             /\ receiving'[s] <=> NoneOf(posted'[k], Receives(s))
             /\ NoneOf(posted'[k], {TimerDone(s, "ok")}) <=> NoneOf(queue, {TimerDone(s, "ok")})
             /\ OneOf(queue, {TimerDone(s, "ok")}) => OneOf(posted'[k], {TimerDone(s, "ok")})
             /\ isOpen /\ ~ReceiveMayFail => NoneOf(posted'[k], Failures(s))
  <2> DEFINE e == ReceiveDone(s, ec)
  <2>1. /\ e \in Completion /\ e \in Receives(s) /\ e # TimerDone(s, "ok")
        /\ \A r \in Sessions \ {s} : e \notin CompletionsOf(r)
        /\ isOpen /\ ~ReceiveMayFail => e \notin Failures(s)
    BY <1>3 DEF ReceiveResults, ReceiveDone, TimerDone, Completion, Receives, Failures, CompletionsOf
  <2>2. /\ posted'[k] = Append(queue, e) /\ ~receiving'[s]
        /\ \A h \in Ios \ {k} : posted'[h] = posted[h]
        /\ \A r \in Sessions \ {s} : receiving'[r] = receiving[r]
    BY <1>3 DEF TypeOK
  <2> HIDE DEF e
  <2>3. \A r \in Sessions \ {s} : SameOf(queue, posted'[k], r)
    BY <2>1, <2>2, SameOfAppend
  <2> QED
    BY <1>1, <2>1, <2>2, <2>3, OfAppend
<1> QED
  BY <1>2, <1>3 DEF AsyncReceive

\* The head of a queue is a receive of s: none is left.
LEMMA ReceiveAtHead ==
  ASSUME TypeOK, IInv, NEW k \in Ios, posted[k] # <<>>,
         NEW s \in Sessions, Head(posted[k]) \in Receives(s)
  PROVE  /\ k = ios[s] /\ ~Forgotten(s)
         /\ \A r \in Sessions \ {s} : SameOf(posted[k], Tail(posted[k]), r)
         /\ Tail(posted[k]) \in Seq(Completion)
         /\ NoneOf(Tail(posted[k]), Receives(s)) /\ ~receiving[s]
         /\ NoneOf(Tail(posted[k]), {TimerDone(s, "ok")}) <=> NoneOf(posted[k], {TimerDone(s, "ok")})
         /\ OneOf(posted[k], {TimerDone(s, "ok")}) => OneOf(Tail(posted[k]), {TimerDone(s, "ok")})
<1>1. Head(posted[k]) \in CompletionsOf(s) /\ Head(posted[k]) # TimerDone(s, "ok")
  BY DEF Receives, TimerDone
<1>2. /\ k = ios[s] /\ ~Forgotten(s) /\ posted[k] \in Seq(Completion)
      /\ \A r \in Sessions \ {s} : SameOf(posted[k], Tail(posted[k]), r)
  BY <1>1, HeadOf
<1>3. ReceiveInv(s)
  BY DEF IInv, SessionInv
<1>4. NoneOf(Tail(posted[k]), Receives(s)) /\ ~NoneOf(posted[k], Receives(s))
  BY <1>2, <1>3, OfTail DEF ReceiveInv
<1>5. ~receiving[s]
  BY <1>2, <1>3, <1>4 DEF ReceiveInv
<1> QED
  BY <1>1, <1>2, <1>4, <1>5, OfTail

LEMMA ReceiveHandlerKeeps ==
  ASSUME TypeOK, TypeOK', IInv, NEW k \in Ios, posted[k] # <<>>,
         NEW s \in Sessions, NEW ec, Head(posted[k]) \in Receives(s),
         ReceiveHandler(k, s, ec, Tail(posted[k])),
         ReceiveMayFail \/ closed[s] \/ ~Alive(s) \/ ec = "ok"
  PROVE  OnlyConcerns({s}) /\ Lives(s) /\ IInv'
<1>1. PICK rest \in Seq(Completion) : rest = Tail(posted[k])
  BY ReceiveAtHead
<1>2. /\ k = ios[s] /\ ~Forgotten(s)
      /\ \A r \in Sessions \ {s} : SameOf(posted[k], rest, r)
      /\ NoneOf(rest, Receives(s)) /\ ~receiving[s]
      /\ NoneOf(rest, {TimerDone(s, "ok")}) <=> NoneOf(posted[k], {TimerDone(s, "ok")})
      /\ OneOf(posted[k], {TimerDone(s, "ok")}) => OneOf(rest, {TimerDone(s, "ok")})
  BY <1>1, ReceiveAtHead
<1>3. /\ UNCHANGED <<cache, client, ios, closed, armed, thread>>
      /\ (Cached(s)' <=> Cached(s)) /\ (Alive(s)' <=> Alive(s))
  BY DEF ReceiveHandler, Alive, Cached, HeldByReceiver
<1>4. CASE AsyncReceive(s, k, rest, ~closed[s] /\ Alive(s))
  <2>1. /\ \A h \in Ios \ {k} : posted'[h] = posted[h]
        /\ \A r \in Sessions \ {s} : receiving'[r] = receiving[r] /\ SameOf(rest, posted'[k], r)
        /\ OneOf(posted'[k], Receives(s))
        /\ receiving'[s] <=> NoneOf(posted'[k], Receives(s))
        /\ NoneOf(posted'[k], {TimerDone(s, "ok")}) <=> NoneOf(rest, {TimerDone(s, "ok")})
        /\ OneOf(rest, {TimerDone(s, "ok")}) => OneOf(posted'[k], {TimerDone(s, "ok")})
        /\ ~closed[s] /\ Alive(s) /\ ~ReceiveMayFail => NoneOf(posted'[k], Failures(s))
    BY <1>2, <1>4, AsyncReceiveStarts
  <2>2. ReceiveInv(s)'
    BY <1>2, <1>3, <2>1, NextQueues
  <2> QED
    BY <1>2, <1>3, <2>1, <2>2, ReceivesKeep, SameOfTransitive
<1>5. CASE /\ posted' = [posted EXCEPT ![k] = rest] /\ UNCHANGED receiving
           /\ ReceiveMayFail \/ closed[s] \/ ~Alive(s)
  <2>1. posted'[k] = rest /\ receiving' = receiving /\ \A h \in Ios \ {k} : posted'[h] = posted[h]
    BY <1>5 DEF TypeOK
  <2>2. OneOf(rest, Receives(s)) /\ NoneOf(rest, Failures(s))
    BY <1>2, NoneOfSubset DEF Failures
  <2>3. ReceiveInv(s)'
    BY <1>2, <1>3, <1>5, <2>1, <2>2, NextQueues DEF Alive
  <2> QED
    BY <1>2, <1>3, <2>1, <2>3, ReceivesKeep
<1> QED
  BY <1>1, <1>4, <1>5 DEF ReceiveHandler

LEMMA ReadyReceiveKeeps ==
  ASSUME TypeOK, TypeOK', IInv, NEW k \in Ios, posted[k] # <<>>,
         NEW s \in Sessions, Head(posted[k]) \in Receives(s), ReadyReceive(k, s, Tail(posted[k]))
  PROVE  OnlyConcerns({s}) /\ Lives(s) /\ IInv'
<1>1. CASE closed[s] \/ ~Alive(s)
  <2>1. PICK rest \in Seq(Completion) : rest = Tail(posted[k])
    BY ReceiveAtHead
  <2>2. /\ UNCHANGED <<cache, client, ios, closed, armed, thread>>
        /\ posted' = [posted EXCEPT ![k] = rest]
        /\ receiving' = [receiving EXCEPT ![s] = TRUE]
        /\ (Cached(s)' <=> Cached(s))
    BY <1>1, <2>1 DEF ReadyReceive, Cached
  <2>3. /\ posted'[k] = rest /\ receiving'[s]
        /\ \A h \in Ios \ {k} : posted'[h] = posted[h]
        /\ \A r \in Sessions \ {s} : receiving'[r] = receiving[r]
    BY <2>2 DEF TypeOK
  <2>4. /\ k = ios[s] /\ ~Forgotten(s)
        /\ \A r \in Sessions \ {s} : SameOf(posted[k], rest, r)
        /\ NoneOf(rest, Receives(s))
        /\ NoneOf(rest, {TimerDone(s, "ok")}) <=> NoneOf(posted[k], {TimerDone(s, "ok")})
        /\ OneOf(posted[k], {TimerDone(s, "ok")}) => OneOf(rest, {TimerDone(s, "ok")})
    BY <2>1, ReceiveAtHead
  <2>5. OneOf(rest, Receives(s)) /\ NoneOf(rest, Failures(s))
    BY <2>4, NoneOfSubset DEF Failures
  <2>6. ReceiveInv(s)'
    <3>1. ios'[s] = k /\ ~Unheard(s)'
      BY <2>2, <2>3, <2>4, NextQueues
    <3> QED
      BY <2>3, <2>4, <2>5, <3>1, NextQueues
  <2>7. /\ NoneOf(posted'[k], {TimerDone(s, "ok")}) <=> NoneOf(posted[k], {TimerDone(s, "ok")})
        /\ OneOf(posted[k], {TimerDone(s, "ok")}) => OneOf(posted'[k], {TimerDone(s, "ok")})
        /\ \A r \in Sessions \ {s} : receiving'[r] = receiving[r] /\ SameOf(posted[k], posted'[k], r)
    BY <2>3, <2>4
  <2> HIDE DEF ReceiveInv
  <2> QED
    BY <2>2, <2>3, <2>4, <2>6, <2>7, ReceivesKeep
<1>2. CASE ~(closed[s] \/ ~Alive(s))
  <2>1. PICK ec \in ReceiveResults : ReceiveHandler(k, s, ec, Tail(posted[k]))
    BY <1>2 DEF ReadyReceive
  <2>2. ReceiveMayFail \/ ec = "ok"
    BY DEF ReceiveResults
  <2> QED
    BY <2>1, <2>2, ReceiveHandlerKeeps
<1> QED
  BY <1>1, <1>2

LEMMA RunPostedKeeps ==
  ASSUME TypeOK, TypeOK', IInv, NEW k \in Ios, RunPosted(k)
  PROVE  \E s \in Sessions : OnlyConcerns({s}) /\ Lives(s) /\ IInv'
<1>1. PICK done \in Completion, s \in Sessions : done = Head(posted[k]) /\ s = done.s
  BY Posted DEF RunPosted, Completion
<1>2. thread[k].at = "poll" /\ posted[k] # <<>>
  BY DEF RunPosted
<1>3. CASE done.op = "timer" /\ TimerHandler(k, s, done.ec, Tail(posted[k]))
  <2>1. done = [op |-> "timer", s |-> s, ec |-> done.ec]
    BY <1>1, <1>3 DEF Completion
  <2> QED
    BY <1>1, <1>2, <1>3, <2>1, TimerHandlerKeeps
<1>4. CASE done.op = "receive" /\ done.ec = "ready" /\ ReadyReceive(k, s, Tail(posted[k]))
  <2>1. done \in Receives(s)
    BY <1>1, <1>4 DEF Receives, CompletionsOf
  <2> QED
    BY <1>1, <1>2, <1>4, <2>1, ReadyReceiveKeeps
<1>5. CASE done.op = "receive" /\ done.ec # "ready" /\ ReceiveHandler(k, s, done.ec, Tail(posted[k]))
  <2>1. done \in Receives(s)
    BY <1>1, <1>5 DEF Receives, CompletionsOf
  <2>2. k = ios[s] /\ ReceiveInv(s) /\ posted[k] \in Seq(Completion)
    BY <1>1, <1>2, <2>1, ReceiveAtHead DEF IInv, SessionInv, TypeOK
  <2>3. ReceiveMayFail \/ closed[s] \/ ~Alive(s) \/ done.ec = "ok"
    <3>1. ASSUME ~ReceiveMayFail, ~closed[s], Alive(s) PROVE done.ec = "ok"
      <4>1. NoneOf(posted[k], Failures(s))
        BY <2>2, <3>1 DEF ReceiveInv
      <4>2. done \notin Failures(s)
        BY <1>1, <1>2, <2>2, <4>1, OfTail
      <4> QED
        BY <1>5, <2>1, <4>2 DEF Failures, Receives, CompletionsOf, Completion
    <3> QED
      BY <3>1
  <2> QED
    BY <1>1, <1>2, <1>5, <2>1, <2>3, ReceiveHandlerKeeps
<1> QED
  BY <1>1, <1>3, <1>4, <1>5 DEF RunPosted

LEMMA CreateSessionKeeps ==
  ASSUME TypeOK, TypeOK', IInv, NEW s \in Sessions, CreateSession(s)
  PROVE  \E c \in Clients :
           /\ OnlyConcerns({s}) /\ IInv'
           /\ Forgotten(s) /\ cache[c] = NoSession /\ cache' = [cache EXCEPT ![c] = s]
           /\ closed' = [closed EXCEPT ![s] = FALSE]
<1>1. PICK c \in Clients, k \in Ios :
        /\ c = thread[0].c /\ Construct(s, c, k) /\ AsyncReceive(s, k, posted[k], TRUE)
  BY Threads, PoolIndices DEF CreateSession
<1>2. /\ Unreferenced(s) /\ cache[c] = NoSession
      /\ thread[0].at = "lookup" /\ thread[0].s = NoSession
      /\ thread' = [thread EXCEPT ![0] = At("test", c, s)]
      /\ cache' = [cache EXCEPT ![c] = s]
      /\ s # NoSession
  BY <1>1, Threads, PoolIndices, ForgottenIsUnreferenced, UdpAssumption DEF CreateSession
<1>3. /\ \A h \in Ios : NoneOf(posted[h], CompletionsOf(s))
      /\ posted[k] \in Seq(Completion)
  BY <1>2 DEF Unreferenced, TypeOK
<1>4. NoneOf(posted[k], Receives(s)) /\ NoneOf(posted[k], {TimerDone(s, "ok")})
      /\ OneOf(posted[k], {TimerDone(s, "ok")})
  <2>1. Receives(s) \subseteq CompletionsOf(s) /\ {TimerDone(s, "ok")} \subseteq CompletionsOf(s)
    BY CompletionTypes DEF Receives
  <2> QED
    BY <1>3, <2>1, NoneOfSubset
<1>5. /\ \A h \in Ios \ {k} : posted'[h] = posted[h]
      /\ \A r \in Sessions \ {s} : receiving'[r] = receiving[r] /\ SameOf(posted[k], posted'[k], r)
      /\ OneOf(posted'[k], Receives(s))
      /\ receiving'[s] <=> NoneOf(posted'[k], Receives(s))
      /\ NoneOf(posted'[k], {TimerDone(s, "ok")})
      /\ OneOf(posted'[k], {TimerDone(s, "ok")})
      /\ ~ReceiveMayFail => NoneOf(posted'[k], Failures(s))
  BY <1>1, <1>3, <1>4, AsyncReceiveStarts
<1>6. /\ thread'[0].at = "test" /\ thread'[0].s = s
      /\ \A h \in Ios \ {0} : thread'[h] = thread[h]
  BY <1>2, PoolIndices DEF TypeOK, At
<1>7. /\ ios'[s] = k /\ ~closed'[s] /\ ~armed'[s] /\ client'[s] = c /\ cache'[c] = s
      /\ \A r \in Sessions \ {s} : /\ client'[r] = client[r] /\ ios'[r] = ios[r]
                                   /\ closed'[r] = closed[r] /\ armed'[r] = armed[r]
      /\ \A d \in Clients : cache'[d] = IF d = c THEN s ELSE cache[d]
  BY <1>1, <1>2 DEF Construct, TypeOK
<1>8. OnlyConcerns({s})
  <2> SUFFICES ASSUME NEW r \in Sessions \ {s} PROVE Untouched(r)
    BY DEF OnlyConcerns
  <2>1. \A d \in Clients : cache'[d] = r <=> cache[d] = r
    BY <1>2, <1>7, UdpAssumption
  <2>2. \A h \in Ios : SameOf(posted[h], posted'[h], r)
    BY <1>5 DEF SameOf
  <2>3. \A h \in Ios : thread'[h] = thread[h] \/ (thread[h].s # r /\ thread'[h].s # r)
    BY <1>2, <1>6, UdpAssumption
  <2> QED
    BY <1>5, <1>7, <2>1, <2>2, <2>3 DEF Untouched
<1>9. Cached(s)' /\ ~Expired(s)'
  BY <1>5, <1>7, ExpiredInQueue DEF Cached
<1>10. AtHome(s)'
  BY <1>3, <1>5, <1>7, NextQueues
<1>11. OwnEntry(s)'
  BY <1>2, <1>7 DEF OwnEntry, Unreferenced, Cached
<1>12. HasClient(s)' /\ DeadLeaves(s)' /\ KeepaliveChain(s)'
  BY <1>6, <1>7 DEF HasClient, DeadLeaves, KeepaliveChain
<1>13. ReceiveInv(s)'
  BY <1>5, <1>7, NextQueues
<1>14. SessionInv(s)'
  BY <1>5, <1>7, <1>10, <1>11, <1>12, <1>13, NextQueues
<1>15. ClosesOnce(s)'
  BY <1>2, <1>6 DEF ClosesOnce, Unreferenced
<1>16. CalmInv(s)'
  BY <1>9, <1>15 DEF CalmInv, Known, ExpiryOfEntry
<1>17. Forgotten(s) /\ closed' = [closed EXCEPT ![s] = FALSE]
  BY <1>1 DEF CreateSession, Construct
<1> QED
  BY <1>2, <1>8, <1>14, <1>16, <1>17, ConcernedKeep DEF Invariant

-----------------------------------------------------------------------------
LEMMA InitInv == Init => IInv
<1> SUFFICES ASSUME Init, NEW s \in Sessions PROVE SessionInv(s) /\ CalmInv(s)
  BY DEF IInv
<1>1. \A k \in Ios : posted[k] = <<>> /\ thread[k].at = "poll" /\ thread[k].s = NoSession
  BY DEF Init, PoolInit, Polling, At
<1>2. \A S : NoneOf(<<>>, S) /\ OneOf(<<>>, S)
  BY DEF NoneOf, OneOf
<1>3. /\ s # NoSession /\ ~Cached(s) /\ ~armed[s] /\ ~receiving[s] /\ ios[s] = 0
      /\ ~HeldByReceiver(s)
  BY <1>1, UdpAssumption, PoolIndices DEF Init, Cached, HeldByReceiver
<1>4. ~Expired(s) /\ Unreferenced(s)
  BY <1>1, <1>2, <1>3, ExpiredInQueue, PoolIndices DEF Unreferenced
<1>5. Forgotten(s)
  BY <1>4, InitTypes, ForgottenIsUnreferenced
<1>6. AtHome(s) /\ OwnEntry(s) /\ HasClient(s) /\ DeadLeaves(s) /\ KeepaliveChain(s)
  BY <1>1, <1>2, <1>3, <1>5 DEF AtHome, OwnEntry, HasClient, DeadLeaves, KeepaliveChain, Cached
<1>7. OneOf(posted[ios[s]], {TimerDone(s, "ok")}) /\ ReceiveInv(s)
  BY <1>1, <1>2, <1>3, PoolIndices DEF ReceiveInv
<1>8. Known(s) /\ ClosesOnce(s) /\ ExpiryOfEntry(s)
  BY <1>1, <1>4, <1>5 DEF Known, ClosesOnce, ExpiryOfEntry
<1> QED
  BY <1>6, <1>7, <1>8 DEF SessionInv, CalmInv

LEMMA NextInv ==
  ASSUME TypeOK, TypeOK', IInv, [Next]_vars
  PROVE  IInv'
<1>1. CASE UNCHANGED vars
  <2>1. \A r \in Sessions : Untouched(r)
    BY <1>1 DEF vars, sessionVars, Untouched, SameOf
  <2> QED
    BY <2>1, UntouchedKeeps DEF IInv, Invariant, Calm
<1>2. CASE Next
  BY <1>2, ReceiveClientKeeps, FindSessionKeeps, TestClosedKeeps, ResetKeepaliveTimerKeeps,
     WaitBeginsKeeps, ForwardKeeps, RunPostedKeeps, CloseKeeps, EraseKeeps, CreateSessionKeeps, ReadableKeeps,
     KeepaliveExpiresKeeps DEF Next
<1> QED
  BY <1>1, <1>2

LEMMA Safe == Spec => [](TypeOK /\ IInv)
<1>1. Init => TypeOK /\ IInv
  BY InitTypes, InitInv
<1>2. TypeOK /\ IInv /\ [Next]_vars => (TypeOK /\ IInv)'
  BY NextTypes, NextInv
<1> QED
  BY <1>1, <1>2, PTL DEF Spec

\* The state of the UDP proxy keeps its shape: a thread always works for a session
\* that exists (udp/udp_switch_session.h, udp/udp_switch_session_manager.h).
THEOREM UdpTypeCorrect == Spec => []TypeOK
BY Safe, PTL

\* If freed memory keeps what it held, dead entries are about to leave, and a
\* session that leaves takes its own entry and no other's, though a cancel() may
\* miss a wait (udp_switch_session_manager.cpp:43-50).
THEOREM EntriesAndSessionsMatch ==
  ASSUME Calm
  PROVE  Spec => []EntriesMatchSessions
<1>1. TypeOK /\ IInv => EntriesMatchSessions
  <2> SUFFICES ASSUME TypeOK, IInv PROVE EntriesMatchSessions
    OBVIOUS
  <2>1. ASSUME NEW c \in Clients, cache[c] # NoSession
        PROVE  /\ client[cache[c]] = c
               /\ closed[cache[c]] => \E k \in Ios : thread[k].at = "erase" /\ thread[k].s = cache[c]
    <3>1. cache[c] \in Sessions /\ Cached(cache[c])
      BY <2>1 DEF TypeOK, Cached
    <3>2. OwnEntry(cache[c]) /\ DeadLeaves(cache[c])
      BY <3>1 DEF IInv, SessionInv
    <3> QED
      BY <3>1, <3>2 DEF OwnEntry, DeadLeaves, Leaving
  <2>2. DeadEntryIsLeaving
    BY <2>1 DEF DeadEntryIsLeaving
  <2>3. ASSUME NEW k \in Ios, thread[k].at = "erase"
        PROVE  cache[client[thread[k].s]] = thread[k].s
    <3>1. thread[k].s \in Sessions
      BY <2>3, ClientOfClosing
    <3>2. OwnEntry(thread[k].s) /\ ClosesOnce(thread[k].s)
      BY <3>1 DEF IInv, SessionInv, CalmInv
    <3>3. Cached(thread[k].s)
      BY <2>3, <3>2 DEF ClosesOnce
    <3> QED
      BY <3>2, <3>3 DEF OwnEntry, Cached
  <2>4. ErasesItself
    BY <2>3 DEF ErasesItself
  <2> QED
    BY <2>2, <2>4 DEF EntriesMatchSessions
<1> QED
  BY <1>1, Safe, PTL

\* Every entry that thread 0 is not using has something that will remove it
\* (udp_switch_session.cpp:79-98).
THEOREM EveryEntryWillExpire == Spec => []EntryWillExpire
<1>1. TypeOK /\ IInv => EntryWillExpire
  <2> SUFFICES ASSUME TypeOK, IInv, NEW c \in Clients, cache[c] # NoSession,
                      ~HeldByReceiver(cache[c])
               PROVE  \/ armed[cache[c]] \/ Expired(cache[c])
                      \/ \E k \in Ios : thread[k].at \in {"close", "erase"} /\ thread[k].s = cache[c]
    BY DEF EntryWillExpire
  <2>1. cache[c] \in Sessions /\ Cached(cache[c])
    BY DEF TypeOK, Cached
  <2>2. KeepaliveChain(cache[c])
    BY <2>1 DEF IInv, SessionInv
  <2> QED
    BY <2>1, <2>2 DEF KeepaliveChain, HeldByReceiver
<1> QED
  BY <1>1, Safe, PTL

\* Positions that hold one completion of S at most are none or one.
LEMMA CountOf ==
  ASSUME NEW queue, NEW S, OneOf(queue, S)
  PROVE  LET places == {j \in DOMAIN queue : queue[j] \in S}
         IN Cardinality(places) = IF NoneOf(queue, S) THEN 0 ELSE 1
<1> DEFINE places == {j \in DOMAIN queue : queue[j] \in S}
<1>1. CASE NoneOf(queue, S)
  <2>1. places = {}
    BY <1>1 DEF NoneOf
  <2> QED
    BY <1>1, <2>1, FS_EmptySet
<1>2. CASE ~NoneOf(queue, S)
  <2>1. PICK j \in DOMAIN queue : queue[j] \in S
    BY <1>2 DEF NoneOf
  <2>2. places = {j}
    BY <2>1 DEF OneOf
  <2> QED
    BY <1>2, <2>2, FS_Singleton
<1> QED
  BY <1>1, <1>2

\* A session never has two receives in progress on its one buffer, and an open one
\* has one, where receives do not fail (udp_switch_session.cpp:55-77).
THEOREM SessionsAreHeard == Spec => []OneReceivePerSession
<1>1. TypeOK /\ IInv => OneReceivePerSession
  <2> SUFFICES ASSUME TypeOK, IInv, NEW s \in Sessions
               PROVE  LET pending == Cardinality({j \in DOMAIN posted[ios[s]] :
                                        posted[ios[s]][j].op = "receive" /\ posted[ios[s]][j].s = s})
                                     + IF receiving[s] THEN 1 ELSE 0
                      IN /\ pending <= 1
                         /\ ~ReceiveMayFail /\ Cached(s) /\ ~closed[s] => pending = 1
    BY DEF OneReceivePerSession
  <2> DEFINE queue == posted[ios[s]]
             heard == {j \in DOMAIN queue : queue[j].op = "receive" /\ queue[j].s = s}
  <2>1. queue \in Seq(Completion)
    BY DEF TypeOK
  <2>2. \A j \in DOMAIN queue : queue[j] \in Completion
    BY <2>1
  <2>3. heard = {j \in DOMAIN queue : queue[j] \in Receives(s)}
    BY <2>2 DEF Receives, CompletionsOf
  <2>4. ReceiveInv(s)
    BY DEF IInv, SessionInv
  <2>5. Cardinality(heard) = IF NoneOf(queue, Receives(s)) THEN 0 ELSE 1
    BY <2>3, <2>4, CountOf DEF ReceiveInv
  <2>6. receiving[s] \in BOOLEAN
    BY DEF TypeOK
  <2> HIDE DEF heard
  <2>7. Cardinality(heard) + (IF receiving[s] THEN 1 ELSE 0) <= 1
    BY <2>4, <2>5 DEF ReceiveInv
  <2>8. ~ReceiveMayFail /\ Cached(s) /\ ~closed[s] =>
          Cardinality(heard) + (IF receiving[s] THEN 1 ELSE 0) = 1
    BY <2>4, <2>5 DEF ReceiveInv, Unheard
  <2> QED
    BY <2>7, <2>8 DEF heard
<1> QED
  BY <1>1, Safe, PTL

-----------------------------------------------------------------------------
(* The cache is a table of addresses.                                      *)

States == [s \in Sessions |-> SessionState(s)]

LEMMA OthersKeepState ==
  ASSUME TypeOK, TypeOK', NEW r \in Sessions, Untouched(r)
  PROVE  SessionState(r)' = SessionState(r)
<1>1. (Forgotten(r)' <=> Forgotten(r)) /\ closed'[r] = closed[r]
  BY UntouchedIsSame DEF Untouched
<1> QED
  BY <1>1 DEF SessionState

\* The states after a step that concerns s.
LEMMA NextStates ==
  ASSUME TypeOK, TypeOK', NEW s \in Sessions, OnlyConcerns({s})
  PROVE  States' = [States EXCEPT ![s] = SessionState(s)']
<1>1. \A r \in Sessions \ {s} : SessionState(r)' = SessionState(r)
  BY OthersKeepState DEF OnlyConcerns
<1> QED
  BY <1>1 DEF States

LEMMA LivesOrReleased ==
  ASSUME Calm, TypeOK, TypeOK', IInv, NEW s \in Sessions, OnlyConcerns({s}), Lives(s)
  PROVE  UNCHANGED <<cache, States>> \/ (Table!Release(s) /\ States' = [States EXCEPT ![s] = "free"])
<1>1. cache' = cache /\ closed' = closed /\ ~Forgotten(s) /\ (Cached(s)' <=> Cached(s))
  BY DEF Lives, Cached
<1>2. Known(s)
  BY DEF IInv, CalmInv
<1>3. States' = [States EXCEPT ![s] = SessionState(s)']
  BY NextStates
<1>4. CASE ~Forgotten(s)'
  <2>1. SessionState(s)' = SessionState(s)
    BY <1>1, <1>4 DEF SessionState
  <2> QED
    BY <1>1, <1>3, <2>1 DEF States
<1>5. CASE Forgotten(s)'
  <2>1. ~Cached(s)
    BY <1>1, <1>5 DEF Forgotten, Alive
  <2>2. closed[s] /\ SessionState(s) = "closed" /\ SessionState(s)' = "free"
    BY <1>1, <1>2, <1>5, <2>1 DEF Known, SessionState
  <2>3. \A c \in Clients : cache[c] # s
    BY <2>1 DEF Cached
  <2> QED
    BY <1>1, <1>3, <2>2, <2>3 DEF Table!Release, States
<1> QED
  BY <1>4, <1>5

LEMMA CreateEnters ==
  ASSUME TypeOK, TypeOK', IInv, NEW s \in Sessions, CreateSession(s)
  PROVE  \E c \in Clients : Table!Enter(c, s)
<1>1. PICK c \in Clients :
        /\ OnlyConcerns({s}) /\ Forgotten(s)
        /\ cache[c] = NoSession /\ cache' = [cache EXCEPT ![c] = s]
        /\ closed' = [closed EXCEPT ![s] = FALSE]
  BY CreateSessionKeeps
<1>2. SessionState(s) = "free"
  BY <1>1 DEF SessionState
<1>3. SessionState(s)' = "open"
  <2>1. cache'[c] = s /\ ~closed'[s]
    BY <1>1 DEF TypeOK
  <2>2. ~Forgotten(s)'
    BY <2>1 DEF Forgotten, Alive, Cached
  <2> QED
    BY <2>1, <2>2 DEF SessionState
<1> QED
  BY <1>1, <1>2, <1>3, NextStates DEF Table!Enter, States

LEMMA CloseCloses ==
  ASSUME Calm, TypeOK, TypeOK', IInv, NEW k \in Ios, Close(k)
  PROVE  \E s \in Sessions : Table!CloseSession(s)
<1>1. PICK s \in Sessions :
        /\ OnlyConcerns({s}) /\ Cached(s) /\ ~closed[s]
        /\ cache' = cache /\ closed' = [closed EXCEPT ![s] = TRUE]
  BY CloseKeeps
<1>2. Cached(s)' /\ closed'[s]
  BY <1>1 DEF Cached, TypeOK
<1>3. SessionState(s) = "open" /\ SessionState(s)' = "closed"
  BY <1>1, <1>2 DEF SessionState, Forgotten, Alive
<1> QED
  BY <1>1, <1>3, NextStates DEF Table!CloseSession, States

LEMMA EraseLeaves ==
  ASSUME Calm, TypeOK, TypeOK', IInv, NEW k \in Ios, Erase(k)
  PROVE  \E c \in Clients : Table!Leave(c)
<1>1. PICK s \in Sessions, c \in Clients :
        /\ OnlyConcerns({s})
        /\ cache[c] = s /\ closed[s] /\ closed' = closed
        /\ cache' = [cache EXCEPT ![c] = NoSession]
  BY EraseKeeps
<1>2. SessionState(s) = "closed"
  BY <1>1 DEF SessionState, Forgotten, Alive, Cached
<1>3. SessionState(s)' \in {"closed", "free"}
  BY <1>1 DEF SessionState
<1>4. States' \in {States, [States EXCEPT ![s] = "free"]}
  BY <1>1, <1>2, <1>3, NextStates DEF States
<1> QED
  BY <1>1, <1>2, <1>4, UdpAssumption DEF Table!Leave, States

\* Through every interleaving of the threads, the cache is a table of addresses with
\* one session each: entered once, closed once, gone after its entry, if freed
\* memory keeps what it held: a wait that cancel() has missed then does nothing
\* (udp_switch_session_manager.cpp:43-50, 76-99, udp_switch_session.cpp:100-117).
THEOREM SessionTableImplemented ==
  ASSUME Calm
  PROVE  Spec => ImplementsSessionTable
<1>1. Init => Table!TableInit
  <2> SUFFICES ASSUME Init PROVE Table!TableInit
    OBVIOUS
  <2>1. \A s \in Sessions : Forgotten(s)
    <3> SUFFICES ASSUME NEW s \in Sessions PROVE Forgotten(s)
      OBVIOUS
    <3>1. \A k \in Ios : thread[k].s = NoSession /\ Queued(k) = {}
      BY DEF Init, PoolInit, Polling, At, Queued, Contents
    <3> QED
      BY <3>1, UdpAssumption, PoolIndices DEF Init, Forgotten, Alive, Cached, HeldByReceiver
  <2>2. States = [s \in Sessions |-> "free"]
    BY <2>1 DEF States, SessionState
  <2> QED
    BY <2>2 DEF Init, Table!TableInit, States
<1>2. ASSUME TypeOK, TypeOK', IInv, [Next]_vars
      PROVE  [Table!TableNext]_<<cache, States>>
  <2>1. CASE UNCHANGED vars
    <3>1. \A r \in Sessions : Untouched(r)
      BY <1>2, <2>1 DEF vars, sessionVars, Untouched, SameOf
    <3> QED
      BY <1>2, <2>1, <3>1, OthersKeepState DEF vars, States
  <2>2. CASE ReceiveClient
    <3>1. OnlyConcerns({}) /\ cache' = cache
      BY <1>2, <2>2, ReceiveClientKeeps DEF ReceiveClient
    <3> QED
      BY <1>2, <3>1, OthersKeepState DEF States, OnlyConcerns
  <2>3. ASSUME NEW s \in Sessions, OnlyConcerns({s}), Lives(s)
        PROVE  [Table!TableNext]_<<cache, States>>
    BY <1>2, <2>3, LivesOrReleased DEF Table!TableNext
  <2>4. CASE FindSession \/ TestClosed \/ ResetKeepaliveTimer \/ WaitBegins \/ Forward
    BY <1>2, <2>3, <2>4, FindSessionKeeps, TestClosedKeeps, ResetKeepaliveTimerKeeps,
       WaitBeginsKeeps, ForwardKeeps
  <2>5. ASSUME NEW k \in Ios, RunPosted(k) PROVE [Table!TableNext]_<<cache, States>>
    BY <1>2, <2>3, <2>5, RunPostedKeeps
  <2>6. ASSUME NEW s \in Sessions, Readable(s) \/ KeepaliveExpires(s)
        PROVE  [Table!TableNext]_<<cache, States>>
    BY <1>2, <2>3, <2>6, ReadableKeeps, KeepaliveExpiresKeeps
  <2>7. ASSUME NEW k \in Ios, Close(k) \/ Erase(k) PROVE Table!TableNext
    BY <1>2, <2>7, CloseCloses, EraseLeaves DEF Table!TableNext
  <2>8. ASSUME NEW s \in Sessions, CreateSession(s) PROVE Table!TableNext
    BY <1>2, <2>8, CreateEnters DEF Table!TableNext
  <2> QED
    BY <1>2, <2>1, <2>2, <2>4, <2>5, <2>6, <2>7, <2>8 DEF Next
<1>3. [Table!TableNext]_<<cache, States>> <=> [Table!TableNext]_<<cache, [s \in Sessions |-> SessionState(s)]>>
  BY DEF States
<1> QED
  BY <1>1, <1>2, <1>3, Safe, PTL DEF ImplementsSessionTable, Table!TableSpec, Spec
=============================================================================
