-------------------------- MODULE TcpSwitchSession --------------------------
(***************************************************************************)
(* tcp/tcp_switch_session.{h,cpp}: one proxied TCP connection, as an       *)
(* object with a lifetime.  start() runs on the acceptor's thread (thread  *)
(* 0) while the session's handlers run on the thread of its own            *)
(* io_service, so every step of start() that the other thread can see is a *)
(* step of its own; a handler is one step up to the test of close(), and   *)
(* the body of close() is a second one.                                    *)
(*                                                                         *)
(* Lifetime is that of the code: keepalive waits and the accept handler    *)
(* hold a shared_ptr to the session, the read handlers only capture this.  *)
(* What is relayed is the subject of TcpRelay; here a read either brings   *)
(* data or fails.                                                          *)
(***************************************************************************)
EXTENDS IoServicePool, Integers, FiniteSets

CONSTANTS
  Sessions,       \* identities of session objects (reused after destruction)
  NoSession,
  TargetCount,    \* length of target_address_list_
  SlowConnect,    \* can the keepalive expire while start() still connects?
  FreedClosed,    \* values closed_ may read as once its object is destroyed
  MaxDrift        \* bound on how far count may fall below zero

ASSUME SessionAssumption ==
  /\ NoSession \notin Sessions
  /\ TargetCount \in Nat
  /\ SlowConnect \in BOOLEAN
  /\ FreedClosed \in (SUBSET BOOLEAN) \ {{}}
  /\ MaxDrift \in Nat

\* Memory is finite.
ASSUME FiniteSessions == IsFiniteSet(Sessions)

VARIABLES
  phase,          \* "absent" | "accepting" | "started"
  ios,            \* ios_: the io_service of the session
  closed,         \* closed_
  listed,         \* target_socket_list_ is not empty
  targets,        \* target sockets that are open
  reading,        \* channels with an async_read_some() in progress
  armed,          \* a keepalive wait is pending in the timer queue
  thread,         \* what the thread of each io_service is executing
  accepting,      \* session whose client socket the pending accept will fill
  count           \* tcp_flow_statistics::count_

sessionVars == <<phase, ios, closed, listed, targets, reading, armed>>
vars == <<next_io_service, posted, sessionVars, thread, accepting, count>>

Client   == 0
Targets  == 1 .. TargetCount
Channels == {Client} \union Targets

-----------------------------------------------------------------------------
(* Threads, completions and lifetime.                                      *)

\* at: where the thread is; by: the handler it runs, "accept" runs start().
At(pc, s, i, by) == [at |-> pc, s |-> s, i |-> i, by |-> by]
Polling == At("poll", NoSession, 0, "none")

TimerDone(s, ec)   == [op |-> "timer", s |-> s, c |-> Client, ec |-> ec]
ReadDone(s, c, ec) == [op |-> "read",  s |-> s, c |-> c,      ec |-> ec]

ThreadState ==
  {Polling} \union [at : {"connect", "arm", "close", "reaccept"}, s : Sessions,
                    i : 0 .. TargetCount + 1, by : {"accept", "timer", "read"}]

Completion == [op : {"timer", "read"}, s : Sessions, c : Channels,
               ec : {"ok", "error", "aborted", "ready"}]

\* A running accept or keepalive handler captures a shared_ptr to s.
HeldByThread(s) == \E k \in Ios : thread[k].s = s /\ thread[k].by \in {"accept", "timer"}

\* So does every keepalive wait whose handler has not run yet.
HeldByTimer(s) ==
  armed[s] \/ \E done \in Queued(ios[s]) : done.op = "timer" /\ done.s = s

Alive(s) == accepting = s \/ HeldByThread(s) \/ HeldByTimer(s)

\* No handler refers to s any more: its memory can hold a new session.
Forgotten(s) ==
  /\ ~Alive(s)
  /\ reading[s] = {}
  /\ \A k \in Ios : thread[k].s # s /\ \A done \in Queued(k) : done.s # s

Open(s) == phase[s] = "started" /\ ~closed[s]

\* start() has been entered for s and has not returned.
InStart(s) ==
  /\ thread[0].s = s
  /\ \/ thread[0].at \in {"connect", "arm"}
     \/ thread[0].at = "close" /\ thread[0].by = "accept"

-----------------------------------------------------------------------------
(* Operations.                                                             *)

\* The socket of channel c is open.
SocketOpen(s, c) == IF c = Client THEN ~closed[s] ELSE listed[s] /\ c \in targets[s]

\* async_read_some() on channel c.  queue is the session's completion queue
\* and busy its reads in progress when the call is made.  The read stays in
\* progress, or Asio's first attempt completes it at once and posts the
\* completion; on a socket that is not open the completion is an error.
AsyncRead(s, c, queue, busy) ==
  \/ /\ SocketOpen(s, c)
     /\ reading' = [reading EXCEPT ![s] = busy \union {c}]
     /\ posted' = [posted EXCEPT ![ios[s]] = queue]
  \/ \E ec \in IF SocketOpen(s, c) THEN {"ok", "error"} ELSE {"error"} :
       /\ reading' = [reading EXCEPT ![s] = busy]
       /\ posted' = [posted EXCEPT ![ios[s]] = Append(queue, ReadDone(s, c, ec))]

\* expires_from_now() cancels the pending wait, whose handler is posted.
Cancel(s, queue) == IF armed[s] THEN Append(queue, TimerDone(s, "aborted")) ELSE queue

\* Mutant: expires_from_now() called after async_wait(), which cancels the wait.
ResetCancelsNewWait(s) == armed' = [armed EXCEPT ![s] = FALSE]

\* reset_keepalive_timer(): the wait is started after the pending one is
\* cancelled, so that there is exactly one.
ResetKeepaliveTimer(s) == armed' = [armed EXCEPT ![s] = TRUE]

\* Mutant: close() leaves the keepalive wait pending.
CancelForgotten(s) == UNCHANGED armed

\* keepalive_timer_.cancel().
CancelKeepaliveTimer(s) == armed' = [armed EXCEPT ![s] = FALSE]

\* Mutant: the sockets are closed and left in the list.
ListNotCleared(s) ==
  /\ targets' = [targets EXCEPT ![s] = IF listed[s] THEN {} ELSE @]
  /\ UNCHANGED listed

\* close_target_socket(): closes the sockets that are still in the list.
CloseTargetSocket(s) ==
  /\ targets' = [targets EXCEPT ![s] = IF listed[s] THEN {} ELSE @]
  /\ listed' = [listed EXCEPT ![s] = FALSE]

\* Mutant: close() without its test.
CloseAlways(k, s, by, return) == thread' = [thread EXCEPT ![k] = At("close", s, 0, by)]

\* The test at the head of close(): thread k enters the body or moves on.
TestClosed(k, s, by, return) ==
  thread' = [thread EXCEPT ![k] = IF closed[s] THEN return ELSE At("close", s, 0, by)]

\* The body of close().  The reads in progress are cancelled with their
\* sockets: from here on they can only complete with operation_aborted.
Close(k) ==
  LET s == thread[k].s IN
  /\ thread[k].at = "close"
  /\ closed' = [closed EXCEPT ![s] = TRUE]
  /\ posted' = [posted EXCEPT ![ios[s]] = Cancel(s, @)]
  /\ CancelKeepaliveTimer(s)
  /\ CloseTargetSocket(s)
  /\ count' = count - 1
  /\ thread' = [thread EXCEPT ![k] = IF thread[k].by = "accept"
                                     THEN At("reaccept", s, 0, "accept") ELSE Polling]
  /\ UNCHANGED <<next_io_service, phase, ios, reading, accepting>>

-----------------------------------------------------------------------------
(* start(), on the acceptor's thread.                                      *)

\* increment_connection(), reset_keepalive_timer() and init_target_socket().
\* Bound: no session starts once count has fallen to -MaxDrift.
Start(s) ==
  /\ count + MaxDrift >= 0
  /\ count' = count + 1
  /\ phase' = [phase EXCEPT ![s] = "started"]
  /\ ResetKeepaliveTimer(s)
  /\ listed' = [listed EXCEPT ![s] = Targets # {}]
  /\ thread' = [thread EXCEPT ![0] = At("connect", s, 1, "accept")]
  /\ UNCHANGED <<next_io_service, posted, ios, closed, targets, reading>>

\* One round of connect_target_server(): the blocking connect() of target i
\* succeeds or throws.  If the keepalive has closed the session meanwhile,
\* the loop goes on over the cleared list: connect() re-opens the socket of
\* an element that nothing will ever close.
ConnectTarget ==
  LET s == thread[0].s
      i == thread[0].i
  IN
  /\ thread[0].at = "connect"
  /\ \/ /\ i > TargetCount
        /\ thread' = [thread EXCEPT ![0] = At("arm", s, Client, "accept")]
        /\ UNCHANGED targets
     \/ /\ i \in Targets
        /\ targets' = [targets EXCEPT ![s] = @ \union {i}]
        /\ thread' = [thread EXCEPT ![0] = At("connect", s, i + 1, "accept")]
     \/ /\ i \in Targets
        /\ TestClosed(0, s, "accept", At("reaccept", s, 0, "accept"))
        /\ UNCHANGED targets
  /\ UNCHANGED <<next_io_service, posted, phase, ios, closed, listed, reading,
                 armed, accepting, count>>

\* Mutant: the last target is left out.
ArmReadEndsEarly(s, c) == c >= TargetCount \/ (c = 1 /\ ~listed[s])

\* The loop of async_read_target() reads the bounds of the list once, before its
\* first round: a list cleared by then ends it, a list cleared later does not.
ArmReadEnds(s, c) == c > TargetCount \/ (c = 1 /\ ~listed[s])

\* async_read_client(), then one round of async_read_target() per target.
ArmRead ==
  LET s == thread[0].s
      c == thread[0].i
  IN
  /\ thread[0].at = "arm"
  /\ IF ArmReadEnds(s, c)
     THEN /\ thread' = [thread EXCEPT ![0] = At("reaccept", s, 0, "accept")]
          /\ UNCHANGED <<posted, reading>>
     ELSE /\ AsyncRead(s, c, posted[ios[s]], reading[s])
          /\ thread' = [thread EXCEPT ![0] = At("arm", s, c + 1, "accept")]
  /\ UNCHANGED <<next_io_service, phase, ios, closed, listed, targets, armed,
                 accepting, count>>

-----------------------------------------------------------------------------
(* Handlers, on the thread of the session's io_service.  rest is what the  *)
(* queue of thread k holds once the completion is taken from it.           *)

\* The read handlers of async_read_client() and async_read_target().
ReadHandler(k, s, c, ec, rest) ==
  /\ \E closedRead \in IF Alive(s) THEN {closed[s]} ELSE FreedClosed :
       \/ /\ closedRead \/ ec = "aborted"
          /\ posted' = [posted EXCEPT ![k] = rest]
          /\ UNCHANGED <<reading, armed, thread>>
       \/ /\ ~closedRead /\ ec = "error"
          /\ posted' = [posted EXCEPT ![k] = rest]
          /\ UNCHANGED reading
          /\ thread' = [thread EXCEPT ![k] = At("close", s, 0, "read")]
          /\ UNCHANGED armed
       \/ /\ ~closedRead /\ ec = "ok"
          /\ IF c = Client /\ Alive(s)
             THEN /\ ResetKeepaliveTimer(s)
                  /\ AsyncRead(s, c, Cancel(s, rest), reading[s])
             ELSE /\ AsyncRead(s, c, rest, reading[s])
                  /\ UNCHANGED armed
          /\ UNCHANGED thread
  /\ UNCHANGED <<next_io_service, phase, ios, closed, listed, targets, accepting, count>>

\* The keepalive handler of reset_keepalive_timer().
TimerHandler(k, s, ec, rest) ==
  /\ posted' = [posted EXCEPT ![k] = rest]
  /\ IF ec = "ok" THEN TestClosed(k, s, "timer", Polling) ELSE UNCHANGED thread
  /\ UNCHANGED <<next_io_service, sessionVars, accepting, count>>

\* The socket was ready: the read is made now, and brings data, end of stream
\* or an error.  Closing the socket meanwhile has left it to be cancelled.
ReadyRead(k, s, c, rest) ==
  IF closed[s]
  THEN /\ posted' = [posted EXCEPT ![k] = rest]
       /\ reading' = [reading EXCEPT ![s] = @ \union {c}]
       /\ UNCHANGED <<next_io_service, phase, ios, closed, listed, targets, armed,
                      thread, accepting, count>>
  ELSE \E ec \in {"ok", "error"} : ReadHandler(k, s, c, ec, rest)

\* Thread k runs the handler at the head of its queue.
RunPosted(k) ==
  /\ thread[k].at = "poll"
  /\ posted[k] # <<>>
  /\ LET done == Head(posted[k])
         rest == Tail(posted[k])
     IN
     \/ done.op = "timer" /\ TimerHandler(k, done.s, done.ec, rest)
     \/ done.op = "read" /\ done.ec = "ready" /\ ReadyRead(k, done.s, done.c, rest)
     \/ done.op = "read" /\ done.ec # "ready" /\ ReadHandler(k, done.s, done.c, done.ec, rest)

\* The reactor reports the socket of a read in progress ready, or completes the
\* read with operation_aborted once the socket is closed.
Readable(s, c) ==
  /\ c \in reading[s]
  /\ thread[ios[s]].at = "poll"
  /\ reading' = [reading EXCEPT ![s] = @ \ {c}]
  /\ posted' = [posted EXCEPT ![ios[s]] =
                  Append(@, ReadDone(s, c, IF closed[s] THEN "aborted" ELSE "ready"))]
  /\ UNCHANGED <<next_io_service, phase, ios, closed, listed, targets, armed,
                 thread, accepting, count>>

\* The reactor finds the keepalive wait of s expired and posts its handler.
KeepaliveExpires(s) ==
  /\ armed[s]
  /\ thread[ios[s]].at = "poll"
  /\ SlowConnect \/ ~InStart(s)
  /\ armed' = [armed EXCEPT ![s] = FALSE]
  /\ posted' = [posted EXCEPT ![ios[s]] = Append(@, TimerDone(s, "ok"))]
  /\ UNCHANGED <<next_io_service, phase, ios, closed, listed, targets, reading,
                 thread, accepting, count>>
=============================================================================
