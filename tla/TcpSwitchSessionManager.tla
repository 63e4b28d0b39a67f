----------------------- MODULE TcpSwitchSessionManager -----------------------
(***************************************************************************)
(* tcp/tcp_switch_session_manager.{h,cpp}: the accept loop, composed with  *)
(* the sessions it creates.  The acceptor lives on io_service 0, whose     *)
(* thread also runs start() of every session.                              *)
(***************************************************************************)
EXTENDS TcpSwitchSession

-----------------------------------------------------------------------------
(* The accept loop.                                                        *)

\* The constructor takes io_service 0 for the acceptor; run() calls
\* start_accept() before any thread of the pool exists.
Init ==
  /\ PoolInit(2)
  /\ accepting \in Sessions
  /\ phase = [s \in Sessions |-> IF s = accepting THEN "accepting" ELSE "absent"]
  /\ ios = [s \in Sessions |-> NextIndex(0)]
  /\ closed = [s \in Sessions |-> FALSE]
  /\ listed = [s \in Sessions |-> FALSE]
  /\ targets = [s \in Sessions |-> {}]
  /\ reading = [s \in Sessions |-> {}]
  /\ armed = [s \in Sessions |-> FALSE]
  /\ thread = [k \in Ios |-> Polling]
  /\ count = 0

\* Mutant: the handler returns on an error.
AcceptErrorReturns(s) ==
  /\ UNCHANGED <<next_io_service, posted, sessionVars, thread, count>>

\* The accept handler on an error: a warning, and on to start_accept().
AcceptError(s) ==
  /\ thread' = [thread EXCEPT ![0] = At("reaccept", s, 0, "accept")]
  /\ UNCHANGED <<next_io_service, posted, sessionVars, count>>

\* The accept handler: start() on success, a warning on error; start_accept()
\* follows either way.  Bound: an identity must be left for the next session.
Accepted ==
  /\ thread[0].at = "poll"
  /\ accepting # NoSession
  /\ \E s \in Sessions : Forgotten(s)
  /\ accepting' = NoSession
  /\ Start(accepting) \/ AcceptError(accepting)

\* start_accept(): a new session on the next io_service.  The handler ends and
\* lets go of its session; one that was never started is gone with it.
StartAccept(s) ==
  LET previous == thread[0].s IN
  /\ thread[0].at = "reaccept"
  /\ Forgotten(s)
  /\ accepting' = s
  /\ phase' = [phase EXCEPT ![previous] = IF @ = "accepting" THEN "absent" ELSE @,
                            ![s] = "accepting"]
  /\ \E k \in Ios : GetIoService(k) /\ ios' = [ios EXCEPT ![s] = k]
  /\ closed' = [closed EXCEPT ![s] = FALSE]
  /\ listed' = [listed EXCEPT ![s] = FALSE]
  /\ targets' = [targets EXCEPT ![s] = {}]
  /\ thread' = [thread EXCEPT ![0] = Polling]
  /\ UNCHANGED <<posted, reading, armed, count>>

Next ==
  \/ Accepted
  \/ ConnectTarget
  \/ ArmRead
  \/ \E k \in Ios : Close(k) \/ RunPosted(k)
  \/ \E s \in Sessions, c \in Channels : Readable(s, c)
  \/ \E s \in Sessions : StartAccept(s) \/ KeepaliveExpires(s)

Spec == Init /\ [][Next]_vars

\* A pool thread never stops running: a blocking connect() returns, a posted
\* completion reaches the head of the FIFO queue, a cancelled read completes.
\* Nothing makes a peer send or a client connect.
Fairness ==
  /\ WF_vars(ConnectTarget)
  /\ WF_vars(ArmRead)
  /\ WF_vars(\E s \in Sessions : StartAccept(s))
  /\ \A k \in Ios : WF_vars(Close(k)) /\ SF_vars(RunPosted(k))
  /\ \A s \in Sessions, c \in Channels : SF_vars(closed[s] /\ Readable(s, c))

FairSpec == Spec /\ Fairness

-----------------------------------------------------------------------------
(* Type invariant.                                                         *)

TypeOK ==
  /\ next_io_service \in Ios
  /\ phase \in [Sessions -> {"absent", "accepting", "started"}]
  /\ ios \in [Sessions -> Ios]
  /\ closed \in [Sessions -> BOOLEAN]
  /\ listed \in [Sessions -> BOOLEAN]
  /\ targets \in [Sessions -> SUBSET Targets]
  /\ reading \in [Sessions -> SUBSET Channels]
  /\ armed \in [Sessions -> BOOLEAN]
  /\ thread \in [Ios -> ThreadState]
  /\ accepting \in Sessions \union {NoSession}
  /\ count \in Int
  /\ posted \in [Ios -> Seq(Completion)]

-----------------------------------------------------------------------------
(* Safety.                                                                 *)

\* An open session is never destroyed.  The read handlers capture a bare this,
\* so the only thing that keeps it is the chain of keepalive waits, which every
\* client read breaks and has to mend (tcp_switch_session.cpp:168-187).
OpenSessionIsOwned == \A s \in Sessions : Open(s) => Alive(s)

\* The number of connections the statistics print is the number of sessions
\* that are open: increment_connection() and subtract_connection() pair up over
\* every path that ends a session.
CountMatchesOpen == count = Cardinality({s \in Sessions : Open(s)})

\* Once start() has returned, a closed session has no open target socket and no
\* pending keepalive wait, whichever thread closed it and however far start()
\* had come (tcp_switch_session.cpp:189-228).
ClosedHoldsNothing ==
  \A s \in Sessions :
    phase[s] = "started" /\ closed[s] /\ ~InStart(s) =>
      targets[s] = {} /\ ~listed[s] /\ ~armed[s]

\* The async_read_some() calls of s on channel c whose handler has yet to run.
PendingReads(s, c) ==
  Cardinality({j \in DOMAIN posted[ios[s]] : posted[ios[s]][j].op = "read"
                 /\ posted[ios[s]][j].s = s /\ posted[ios[s]][j].c = c})
    + (IF c \in reading[s] THEN 1 ELSE 0)

\* Each socket has one buffer, so it must never have two reads in progress; and
\* an open session must have exactly one on every channel, or the proxy has gone
\* deaf on it, unless the session is being closed or still being started.
OneReadPerChannel ==
  \A s \in Sessions, c \in Channels :
    /\ PendingReads(s, c) <= 1
    /\ Open(s) /\ ~InStart(s) /\ (\A k \in Ios : thread[k].s = s => thread[k].at # "close")
         => PendingReads(s, c) = 1

\* When the keepalive handler decides to close a session, no later keepalive
\* wait has been started: the client really was silent for the whole period, as
\* the message of that handler says (tcp_switch_session.cpp:176-179).
KeepaliveCloseMeansSilence ==
  \A k \in Ios : thread[k].at = "close" /\ thread[k].by = "timer" => ~armed[thread[k].s]

-----------------------------------------------------------------------------
(* The inductive invariant behind the safety properties, for one session.  *)

\* A completion is posted to the io_service of its session.
AtHome(s) == \A k \in Ios : \A done \in Queued(k) : done.s = s => ios[s] = k

Expired(s) == TimerDone(s, "ok") \in Queued(ios[s])

ClosedByTimer(s) ==
  \E k \in Ios : thread[k].at = "close" /\ thread[k].s = s /\ thread[k].by = "timer"

\* An open session has a keepalive wait that is pending, has expired, or has
\* expired and is closing it.
KeepaliveChain(s) == Open(s) => armed[s] \/ Expired(s) \/ ClosedByTimer(s)

SessionInv(s) == AtHome(s) /\ KeepaliveChain(s)

\* The rest holds as long as a destroyed session reads as closed and the keepalive
\* does not expire while start() connects, which with one thread it cannot.
Calm == FreedClosed = {TRUE} /\ (SlowConnect = FALSE \/ PoolSize = 1)

\* Nothing but thread 0 knows a session that is accepting or still connecting.
Untouched(s) ==
  /\ reading[s] = {}
  /\ \A k \in Ios : \A done \in Queued(k) : done.s # s
  /\ \A k \in Ios \ {0} : thread[k].s # s

Fresh(s) ==
  accepting = s =>
    /\ phase[s] = "accepting" /\ ~closed[s] /\ ~armed[s]
    /\ Untouched(s) /\ thread[0].s # s
    /\ targets[s] = {} /\ ~listed[s]

Connecting(s) ==
  /\ thread[0].s = s
  /\ thread[0].at = "connect" \/ (thread[0].at = "close" /\ thread[0].by = "accept")

ConnectIsUndisturbed(s) ==
  /\ thread[0].s = s /\ thread[0].at \in {"connect", "arm"} => phase[s] = "started"
  /\ Connecting(s) => Open(s) /\ Untouched(s) /\ (Targets # {} => listed[s])

\* Only a session that was started has handlers.
HandlersOfStarted(s) ==
  /\ armed[s] \/ reading[s] # {} => phase[s] = "started"
  /\ \A k \in Ios : \A done \in Queued(k) : done.s = s => phase[s] = "started"

\* A thread in close() closes an open session, and no other thread closes it.
OneCloser(s) ==
  \A k \in Ios : thread[k].at = "close" /\ thread[k].s = s =>
    Open(s) /\ k = IF thread[k].by = "accept" THEN 0 ELSE ios[s]

ClosedIsEmpty(s) ==
  /\ ~listed[s] => targets[s] = {}
  /\ closed[s] => ~listed[s] /\ ~armed[s]

CalmInv(s) ==
  /\ Fresh(s) /\ ConnectIsUndisturbed(s) /\ HandlersOfStarted(s)
  /\ OneCloser(s) /\ ClosedIsEmpty(s)

\* The rest is about the reads of a session: done completes one on channel c.
IsRead(done, s, c) == done.op = "read" /\ done.s = s /\ done.c = c

NoneIn(queue, s, c) == \A i \in DOMAIN queue : ~IsRead(queue[i], s, c)

OneIn(queue, s, c) ==
  \A i, j \in DOMAIN queue : IsRead(queue[i], s, c) /\ IsRead(queue[j], s, c) => i = j

Unread(s, c) == c \notin reading[s] /\ NoneIn(posted[ios[s]], s, c)

OneRead(s, c) ==
  /\ OneIn(posted[ios[s]], s, c)
  /\ c \in reading[s] => NoneIn(posted[ios[s]], s, c)

ClosedByRead(s) ==
  \E k \in Ios : thread[k].at = "close" /\ thread[k].s = s /\ thread[k].by = "read"

\* start() reads nothing before its last connect(), and then one channel after the
\* other; a read that is aborted is one of a closed session.
ReadsInOrder(s) ==
  /\ accepting = s => phase[s] = "accepting"
  /\ thread[0].s = s /\ thread[0].at \in {"connect", "arm"} => phase[s] = "started"
  /\ phase[s] # "started" \/ Connecting(s) => \A c \in Channels : Unread(s, c)
  /\ thread[0].s = s /\ thread[0].at = "arm" =>
       \A c \in Channels : c >= thread[0].i => Unread(s, c)
  /\ \A done \in Queued(ios[s]) :
       done.s = s /\ done.op = "read" /\ done.ec = "aborted" => closed[s]
  /\ Open(s) => (listed[s] <=> Targets # {})

\* Every channel that start() has come to has its read, but for a session that is
\* closed or that a failed read is closing; the keepalive handler takes no read.
NoneIsDeaf(s) ==
  Open(s) /\ ~Connecting(s) /\ ~ClosedByRead(s) =>
    \A c \in Channels :
      (thread[0].s = s /\ thread[0].at = "arm" => c < thread[0].i) => ~Unread(s, c)

ReadInv(s) == (\A c \in Channels : OneRead(s, c)) /\ ReadsInOrder(s) /\ NoneIsDeaf(s)

IInv == \A s \in Sessions : SessionInv(s) /\ ReadInv(s) /\ (Calm => CalmInv(s))

-----------------------------------------------------------------------------
(* Liveness.                                                               *)

\* A session that has been closed is eventually destroyed and none of its
\* handlers is left, whoever closed it: nothing leaks the session or hangs on to
\* its memory (the lambdas of tcp_switch_session.cpp:72 and 110 outlive it).
ClosedIsForgotten == \A s \in Sessions : closed[s] ~> Forgotten(s)

\* The accept loop goes on whatever happens to a connection: after every accept,
\* failed or not, and however start() ends, the next accept is issued
\* (tcp_switch_session_manager.cpp:24-40).
AcceptResumes == accepting = NoSession ~> accepting # NoSession

\* A read of the client's socket is about to be handled.
ClientDataPending(s) ==
  \E done \in Queued(ios[s]) : done.op = "read" /\ done.s = s /\ done.c = Client


-----------------------------------------------------------------------------
(* Refinement.                                                             *)

SessionState(s) ==
  IF Open(s) THEN "open"
  ELSE IF phase[s] = "started" /\ ~Forgotten(s) THEN "closed"
  ELSE "free"

Ledger == INSTANCE ConnectionLedger WITH state <- [s \in Sessions |-> SessionState(s)]

\* Over every interleaving of accept, start, read and keepalive handlers the
\* sessions and the connection count behave as the ledger says: opened and
\* counted together, closed and uncounted together, exactly once, then released.
ImplementsLedger == Ledger!LedgerSpec
=============================================================================
