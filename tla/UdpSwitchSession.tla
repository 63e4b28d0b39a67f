-------------------------- MODULE UdpSwitchSession --------------------------
(***************************************************************************)
(* udp/udp_switch_session.{h,cpp}: the proxy's side of one UDP client.     *)
(* Datagrams of the client come in on thread 0, which calls                *)
(* send_to_target(); the replies of the targets and the keepalive timer    *)
(* are handled on the thread of the session's own io_service.  The two     *)
(* share closed_, the timer and the socket without a lock, so each step    *)
(* one of them can see of the other is a step of its own.  A timer only    *)
(* cancels a wait it believes to have (mayWait): a cancel() of one thread  *)
(* in the middle of the other's async_wait() makes it forget that wait.    *)
(*                                                                         *)
(* The handlers only capture this: what keeps a session is its entry in    *)
(* the manager's cache, and the shared_ptr thread 0 has taken from there.  *)
(***************************************************************************)
EXTENDS IoServicePool, FiniteSets

CONSTANTS
  Clients,        \* addresses of clients
  Sessions,       \* identities of session objects (reused after destruction)
  NoClient, NoSession,
  ReceiveMayFail, \* can async_receive_from() fail with another error than aborted?
  FreedClosed,    \* values closed_ may read as once its object is destroyed
  MaxQueue        \* bound on the completions an io_service holds

ASSUME UdpAssumption ==
  /\ NoClient \notin Clients /\ NoSession \notin Sessions
  /\ ReceiveMayFail \in BOOLEAN
  /\ FreedClosed \in (SUBSET BOOLEAN) \ {{}}
  /\ MaxQueue \in Nat \ {0}

VARIABLES
  cache,          \* udp_switch_session_cache_
  client,         \* client_address_
  ios,            \* ios_: the io_service of the session
  closed,         \* closed_
  armed,          \* a keepalive wait is pending in the timer queue
  mayWait,        \* the timer believes it has one; if not, cancel() does nothing
  receiving,      \* an async_receive_from() is in progress on its socket
  thread,         \* what the thread of each io_service is executing
  listening       \* an async_receive_from() is in progress on the client socket

sessionVars == <<client, ios, closed, armed, mayWait, receiving>>
vars == <<next_io_service, posted, cache, sessionVars, thread, listening>>

At(pc, c, s) == [at |-> pc, c |-> c, s |-> s]
Polling == At("poll", NoClient, NoSession)

ThreadState ==
  {Polling} \union [at : {"lookup"}, c : Clients, s : {NoSession}]
    \union [at : {"test", "reset", "arming", "forward"}, c : Clients, s : Sessions]
    \union [at : {"close", "erase"}, c : Clients \union {NoClient}, s : Sessions]

TimerDone(s, ec)   == [op |-> "timer", s |-> s, ec |-> ec]
ReceiveDone(s, ec) == [op |-> "receive", s |-> s, ec |-> ec]

Completion == [op : {"timer", "receive"}, s : Sessions,
               ec : {"ok", "error", "aborted", "ready"}]

Cached(s) == \E c \in Clients : cache[c] = s

\* Thread 0 holds a shared_ptr from get_or_create_udp_switch_session() on.
HeldByReceiver(s) ==
  thread[0].s = s /\ thread[0].at \in {"test", "reset", "arming", "forward"}

Alive(s) == Cached(s) \/ HeldByReceiver(s)

Expired(s) == TimerDone(s, "ok") \in Queued(ios[s])

\* No handler refers to s any more: its memory can hold a new session.  (It may
\* be reused before; a handler that finds it so reads FreedClosed.)
Forgotten(s) ==
  /\ ~Alive(s) /\ ~receiving[s] /\ ~armed[s]
  /\ \A k \in Ios : thread[k].s # s /\ \A done \in Queued(k) : done.s # s

-----------------------------------------------------------------------------
(* Called by the manager, on thread 0.                                     *)

\* The errors async_receive_from() may end with, besides operation_aborted.
ReceiveResults == IF ReceiveMayFail THEN {"ok", "error"} ELSE {"ok"}

\* async_receive_target() past its test of closed_, on a socket that is open or
\* not: the receive stays in progress or is completed at once.
AsyncReceive(s, k, queue, isOpen) ==
  \/ /\ isOpen
     /\ receiving' = [receiving EXCEPT ![s] = TRUE]
     /\ posted' = [posted EXCEPT ![k] = queue]
  \/ \E ec \in IF isOpen THEN ReceiveResults ELSE {"error"} :
       /\ receiving' = [receiving EXCEPT ![s] = FALSE]
       /\ posted' = [posted EXCEPT ![k] = Append(queue, ReceiveDone(s, ec))]

\* The constructor of a session for c, on the io_service k.
Construct(s, c, k) ==
  /\ client' = [client EXCEPT ![s] = c]
  /\ ios' = [ios EXCEPT ![s] = k]
  /\ closed' = [closed EXCEPT ![s] = FALSE]
  /\ armed' = [armed EXCEPT ![s] = FALSE]
  /\ mayWait' = [mayWait EXCEPT ![s] = FALSE]

\* What expires_from_now(), cancel() and the destructor do to a pending wait: its
\* handler is posted, unless the timer does not know of it.
Cancel(s) ==
  /\ armed' = [armed EXCEPT ![s] = @ /\ ~mayWait[s]]
  /\ posted' = [posted EXCEPT ![ios[s]] =
       IF armed[s] /\ mayWait[s] THEN Append(@, TimerDone(s, "aborted")) ELSE @]

\* send_to_target(): the datagram is dropped if the session is closed.
TestClosed ==
  LET s == thread[0].s IN
  /\ thread[0].at = "test"
  /\ thread' = [thread EXCEPT ![0].at = IF closed[s] THEN "forward" ELSE "reset"]
  /\ UNCHANGED <<next_io_service, posted, cache, sessionVars, listening>>

\* Mutant: expires_from_now() called after async_wait(), which cancels the wait.
ResetCancelsNewWait ==
  LET s == thread[0].s IN
  /\ thread[0].at = "reset"
  /\ armed' = [armed EXCEPT ![s] = FALSE]
  /\ mayWait' = [mayWait EXCEPT ![s] = FALSE]
  /\ posted' = [posted EXCEPT ![ios[s]] = Append(@, TimerDone(s, "aborted"))]
  /\ thread' = [thread EXCEPT ![0].at = "forward"]
  /\ UNCHANGED <<next_io_service, cache, client, ios, closed, receiving, listening>>

\* reset_keepalive_timer(), on a session that may have been closed meanwhile:
\* expires_from_now(), and async_wait() up to its middle ...
ResetKeepaliveTimer ==
  LET s == thread[0].s IN
  /\ thread[0].at = "reset"
  /\ Cancel(s)
  /\ mayWait' = [mayWait EXCEPT ![s] = TRUE]
  /\ thread' = [thread EXCEPT ![0].at = "arming"]
  /\ UNCHANGED <<next_io_service, cache, client, ios, closed, receiving, listening>>

\* ... and the end of async_wait().  If close() has come between, its cancel() has
\* missed this wait, and the destructor of the timer will not look for it.
WaitBegins ==
  LET s == thread[0].s IN
  /\ thread[0].at = "arming"
  /\ armed' = [armed EXCEPT ![s] = TRUE]
  /\ thread' = [thread EXCEPT ![0].at = "forward"]
  /\ UNCHANGED <<next_io_service, posted, cache, client, ios, closed, mayWait,
                 receiving, listening>>

-----------------------------------------------------------------------------
(* Handlers, on the thread of the session's io_service.                    *)

\* The keepalive handler: with a session that is open it enters close().
TimerHandler(k, s, ec, rest) ==
  /\ posted' = [posted EXCEPT ![k] = rest]
  /\ \E closedRead \in IF Alive(s) THEN {closed[s]} ELSE FreedClosed :
       thread' = [thread EXCEPT ![k] =
                   IF ~closedRead /\ ec = "ok" THEN At("close", client[s], s) ELSE Polling]
  /\ UNCHANGED <<next_io_service, cache, sessionVars, listening>>

\* Mutant: the handler does not receive again.
ReceiveOnce(k, s, ec, rest) ==
  /\ posted' = [posted EXCEPT ![k] = rest]
  /\ UNCHANGED <<next_io_service, cache, sessionVars, thread, listening>>

\* The handler of async_receive_target().  It receives again after a datagram;
\* after an error it only warns, and the session never hears its targets again.
ReceiveHandler(k, s, ec, rest) ==
  /\ \E closedRead \in IF Alive(s) THEN {closed[s]} ELSE FreedClosed :
       IF ~closedRead /\ ec = "ok" THEN AsyncReceive(s, k, rest, ~closed[s] /\ Alive(s))
       ELSE /\ posted' = [posted EXCEPT ![k] = rest]
            /\ UNCHANGED receiving
  /\ UNCHANGED <<next_io_service, cache, client, ios, closed, armed, mayWait, thread,
                 listening>>

\* The socket was ready; closing it meanwhile has left the receive to be cancelled.
ReadyReceive(k, s, rest) ==
  IF closed[s] \/ ~Alive(s)
  THEN /\ posted' = [posted EXCEPT ![k] = rest]
       /\ receiving' = [receiving EXCEPT ![s] = TRUE]
       /\ UNCHANGED <<next_io_service, cache, client, ios, closed, armed, mayWait, thread,
                 listening>>
  ELSE \E ec \in ReceiveResults : ReceiveHandler(k, s, ec, rest)

\* Thread k runs the handler at the head of its queue.
RunPosted(k) ==
  /\ thread[k].at = "poll"
  /\ posted[k] # <<>>
  /\ LET done == Head(posted[k])
         rest == Tail(posted[k])
     IN
     \/ done.op = "timer" /\ TimerHandler(k, done.s, done.ec, rest)
     \/ done.op = "receive" /\ done.ec = "ready" /\ ReadyReceive(k, done.s, rest)
     \/ done.op = "receive" /\ done.ec # "ready" /\ ReceiveHandler(k, done.s, done.ec, rest)

\* Mutant: close() does not tell the manager.
CloseNotReported(k) ==
  LET s == thread[k].s IN
  /\ thread[k].at = "close"
  /\ closed' = [closed EXCEPT ![s] = TRUE]
  /\ Cancel(s)
  /\ mayWait' = [mayWait EXCEPT ![s] = FALSE]
  /\ thread' = [thread EXCEPT ![k] = Polling]
  /\ UNCHANGED <<next_io_service, cache, client, ios, receiving, listening>>

\* close() on thread k: the timer and the receive are cancelled.
Close(k) ==
  LET s == thread[k].s IN
  /\ thread[k].at = "close"
  /\ closed' = [closed EXCEPT ![s] = TRUE]
  /\ Cancel(s)
  /\ mayWait' = [mayWait EXCEPT ![s] = FALSE]
  /\ thread' = [thread EXCEPT ![k].at = "erase"]
  /\ UNCHANGED <<next_io_service, cache, client, ios, receiving, listening>>

\* The reactor reports the socket ready, or completes the receive with
\* operation_aborted once the socket is closed or the session destroyed.
Readable(s) ==
  /\ receiving[s]
  /\ thread[ios[s]].at = "poll"
  /\ receiving' = [receiving EXCEPT ![s] = FALSE]
  /\ posted' = [posted EXCEPT ![ios[s]] =
       Append(@, ReceiveDone(s, IF closed[s] \/ ~Alive(s) THEN "aborted" ELSE "ready"))]
  /\ UNCHANGED <<next_io_service, cache, client, ios, closed, armed, mayWait, thread,
                 listening>>

\* The reactor finds the keepalive wait of s expired and posts its handler.  The
\* period is far longer than any handler runs, so that a wait expires between the
\* handlers of its session, and never twice before its thread runs.
KeepaliveExpires(s) ==
  /\ armed[s]
  /\ thread[ios[s]].at = "poll"
  /\ \A k \in Ios : thread[k].s # s
  /\ ~Expired(s)
  /\ armed' = [armed EXCEPT ![s] = FALSE]
  /\ posted' = [posted EXCEPT ![ios[s]] = Append(@, TimerDone(s, "ok"))]
  /\ UNCHANGED <<next_io_service, cache, client, ios, closed, mayWait, receiving,
                 thread, listening>>
=============================================================================
