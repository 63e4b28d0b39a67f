----------------------- MODULE UdpSwitchSessionManager -----------------------
(***************************************************************************)
(* udp/udp_switch_session_manager.{h,cpp}: the receive loop on the client  *)
(* socket, which belongs to io_service 0, and the cache of sessions by     *)
(* client address, composed with the sessions.  The cache is only used     *)
(* under mutex_, so what happens under the mutex is one step.              *)
(***************************************************************************)
EXTENDS UdpSwitchSession

\* The constructor takes io_service 0 for the client socket; run() calls
\* async_receive_client() before any thread of the pool exists.
Init ==
  /\ PoolInit(1)
  /\ cache = [c \in Clients |-> NoSession]
  /\ client = [s \in Sessions |-> NoClient]
  /\ ios = [s \in Sessions |-> 0]
  /\ closed = [s \in Sessions |-> FALSE]
  /\ armed = [s \in Sessions |-> FALSE]
  /\ mayWait = [s \in Sessions |-> FALSE]
  /\ receiving = [s \in Sessions |-> FALSE]
  /\ thread = [k \in Ios |-> Polling]
  /\ listening = TRUE

\* The handler of async_receive_client() is run, with a datagram of c or with an
\* error, after which nothing is ever received from any client again.
\* Bounds: MaxQueue, as every datagram may add a cancelled wait to a queue, and
\* an identity is left for the session the datagram may need.
ReceiveClient ==
  /\ thread[0].at = "poll" /\ listening
  /\ \A k \in Ios : Len(posted[k]) < MaxQueue
  /\ \E s \in Sessions : Forgotten(s)
  /\ listening' = FALSE
  /\ \/ \E c \in Clients : thread' = [thread EXCEPT ![0] = At("lookup", c, NoSession)]
     \/ ReceiveMayFail /\ UNCHANGED thread
  /\ UNCHANGED <<next_io_service, posted, cache, sessionVars>>

\* get_or_create_udp_switch_session(), a session being found.
FindSession ==
  LET c == thread[0].c IN
  /\ thread[0].at = "lookup"
  /\ cache[c] # NoSession
  /\ thread' = [thread EXCEPT ![0] = At("test", c, cache[c])]
  /\ UNCHANGED <<next_io_service, posted, cache, sessionVars, listening>>

\* Mutant: a closed session in the cache is replaced by a new one.
CreateOverClosed(s) ==
  LET c == thread[0].c IN
  /\ thread[0].at = "lookup"
  /\ cache[c] \in {NoSession} \union {x \in Sessions : closed[x]}
  /\ Forgotten(s)
  /\ \E k \in Ios : /\ GetIoService(k)
                    /\ Construct(s, c, k)
                    /\ AsyncReceive(s, k, posted[k], TRUE)
  /\ cache' = [cache EXCEPT ![c] = s]
  /\ thread' = [thread EXCEPT ![0] = At("test", c, s)]
  /\ UNCHANGED listening

\* get_or_create_udp_switch_session(), a session being created.
CreateSession(s) ==
  LET c == thread[0].c IN
  /\ thread[0].at = "lookup"
  /\ cache[c] = NoSession
  /\ Forgotten(s)
  /\ \E k \in Ios : /\ GetIoService(k)
                    /\ Construct(s, c, k)
                    /\ AsyncReceive(s, k, posted[k], TRUE)
  /\ cache' = [cache EXCEPT ![c] = s]
  /\ thread' = [thread EXCEPT ![0] = At("test", c, s)]
  /\ UNCHANGED listening

\* When the last shared_ptr to s goes, the destructor of the timer cancels the wait
\* it knows of; one it does not know of outlives the session.
Release(s, isLast) ==
  IF isLast THEN Cancel(s) /\ mayWait' = [mayWait EXCEPT ![s] = FALSE]
  ELSE UNCHANGED <<armed, mayWait, posted>>

\* Mutant: the handler returns when it finds the session closed.
ForwardOrReturn ==
  LET s == thread[0].s IN
  /\ thread[0].at = "forward"
  /\ listening' = ~closed[s]
  /\ thread' = [thread EXCEPT ![0] = Polling]
  /\ Release(s, ~Cached(s))
  /\ UNCHANGED <<next_io_service, cache, client, ios, closed, receiving>>

\* send_to() to each target, or nothing if the session is closed; then
\* async_receive_client(), and the handler lets go of the session.
Forward ==
  LET s == thread[0].s IN
  /\ thread[0].at = "forward"
  /\ listening' = TRUE
  /\ thread' = [thread EXCEPT ![0] = Polling]
  /\ Release(s, ~Cached(s))
  /\ UNCHANGED <<next_io_service, cache, client, ios, closed, receiving>>

\* udp_switch_session_closed() removes the entry of an address, whatever session
\* it holds.  close() returns to a session that may be destroyed by then.
Erase(k) ==
  LET s == thread[k].s
      c == client[s]
  IN
  /\ thread[k].at = "erase"
  /\ cache' = [cache EXCEPT ![c] = NoSession]
  /\ thread' = [thread EXCEPT ![k] = Polling]
  /\ LET gone == cache[c] IN
     IF gone = NoSession THEN UNCHANGED <<armed, mayWait, posted>>
     ELSE Release(gone, ~HeldByReceiver(gone))
  /\ UNCHANGED <<next_io_service, client, ios, closed, receiving, listening>>

Next ==
  \/ ReceiveClient
  \/ FindSession
  \/ TestClosed
  \/ ResetKeepaliveTimer
  \/ WaitBegins
  \/ Forward
  \/ \E k \in Ios : RunPosted(k) \/ Close(k) \/ Erase(k)
  \/ \E s \in Sessions : CreateSession(s) \/ Readable(s) \/ KeepaliveExpires(s)

Spec == Init /\ [][Next]_vars

\* A pool thread never stops and its queue is FIFO; a cancelled receive completes.
\* Nothing makes a client or a target send.
Fairness ==
  /\ WF_vars(FindSession \/ \E s \in Sessions : CreateSession(s))
  /\ WF_vars(TestClosed) /\ WF_vars(ResetKeepaliveTimer) /\ WF_vars(WaitBegins)
  /\ WF_vars(Forward)
  /\ \A k \in Ios : SF_vars(RunPosted(k)) /\ WF_vars(Close(k)) /\ WF_vars(Erase(k))
  /\ \A s \in Sessions : SF_vars((closed[s] \/ ~Alive(s)) /\ Readable(s))

FairSpec == Spec /\ Fairness

-----------------------------------------------------------------------------
TypeOK ==
  /\ next_io_service \in Ios
  /\ posted \in [Ios -> Seq(Completion)]
  /\ cache \in [Clients -> Sessions \union {NoSession}]
  /\ client \in [Sessions -> Clients \union {NoClient}]
  /\ ios \in [Sessions -> Ios]
  /\ closed \in [Sessions -> BOOLEAN]
  /\ armed \in [Sessions -> BOOLEAN]
  /\ mayWait \in [Sessions -> BOOLEAN]
  /\ receiving \in [Sessions -> BOOLEAN]
  /\ thread \in [Ios -> ThreadState]
  /\ listening \in BOOLEAN

\* The cache holds a closed session only for the moment between the end of its
\* close() and the erasure: a client is never left with a dead entry, which
\* would swallow all its datagrams (udp_switch_session.cpp:26-29, 104-116).
DeadEntryIsLeaving ==
  \A c \in Clients : LET s == cache[c] IN
    s # NoSession =>
      /\ client[s] = c
      /\ closed[s] => \E k \in Ios : thread[k].at = "erase" /\ thread[k].s = s

\* Entries are erased by address, and a new session may have taken the address:
\* a session that is about to erase still is the one the cache holds
\* (udp_switch_session_manager.cpp:43-50).
ErasesItself ==
  \A k \in Ios : thread[k].at = "erase" => cache[client[thread[k].s]] = thread[k].s

\* Freed memory keeps what it held: closed_ of a destroyed session still reads TRUE,
\* and the handler of a wait that has outlived it does nothing.
Calm == FreedClosed = {TRUE}

\* Entries and sessions agree, through every interleaving of the receive handler
\* with a session that closes: what is dead is about to leave, and what leaves is
\* what it takes for itself (udp_switch_session.cpp:104-116).  Only if Calm: a
\* missed wait may otherwise close what has become of its session, and erase the
\* entry of another.
EntriesMatchSessions == DeadEntryIsLeaving /\ ErasesItself

\* A cached session that thread 0 is not using will be closed some day: it has a
\* keepalive wait, pending or expired, or is being closed.
EntryWillExpire ==
  \A c \in Clients : LET s == cache[c] IN
    s # NoSession /\ ~HeldByReceiver(s) =>
      armed[s] \/ Expired(s)
        \/ \E k \in Ios : thread[k].at \in {"close", "erase"} /\ thread[k].s = s

\* A session never has two receives in progress, into the one buffer of its socket,
\* and one that is open has one, unless a receive has failed
\* (udp_switch_session.cpp:55-77).
OneReceivePerSession ==
  \A s \in Sessions :
    LET pending == Cardinality({j \in DOMAIN posted[ios[s]] :
                      posted[ios[s]][j].op = "receive" /\ posted[ios[s]][j].s = s})
                   + IF receiving[s] THEN 1 ELSE 0
    IN /\ pending <= 1
       /\ ~ReceiveMayFail /\ Cached(s) /\ ~closed[s] => pending = 1

\* When the keepalive handler decides to close a session, no later keepalive
\* wait has been started: the client really was silent for the whole period, as
\* the message of that handler says (udp_switch_session.cpp:87-91).
KeepaliveCloseMeansSilence ==
  \A k \in Ios : thread[k].at = "close" => ~armed[thread[k].s]

-----------------------------------------------------------------------------
(* The inductive invariant behind the safety properties, for one session.  *)

NoneOf(queue, S) == \A i \in DOMAIN queue : queue[i] \notin S
OneOf(queue, S)  == \A i, j \in DOMAIN queue : queue[i] \in S /\ queue[j] \in S => i = j

CompletionsOf(s) == {done \in Completion : done.s = s}
Receives(s)      == {done \in CompletionsOf(s) : done.op = "receive"}
Failures(s)      == {done \in Receives(s) : done.ec \in {"error", "aborted"}}

\* A completion is posted to the io_service of its session.
AtHome(s) == \A k \in Ios \ {ios[s]} : NoneOf(posted[k], CompletionsOf(s))

OwnEntry(s) == \A c \in Clients : cache[c] = s => client[s] = c

Leaving(s) == \E k \in Ios : thread[k].at = "erase" /\ thread[k].s = s

\* Memory that something refers to holds a session with a client.
HasClient(s) == Forgotten(s) \/ client[s] \in Clients

\* A dead entry leaves.
DeadLeaves(s) == Cached(s) /\ closed[s] => Leaving(s)

\* An entry has a keepalive wait or is about to get one, unless it is closed.
KeepaliveChain(s) ==
  Cached(s) =>
    \/ armed[s] \/ Expired(s)
    \/ thread[0].s = s /\ thread[0].at \in {"test", "reset", "arming"}
    \/ \E k \in Ios : thread[k].at \in {"close", "erase"} /\ thread[k].s = s

Unheard(s) == ~receiving[s] /\ NoneOf(posted[ios[s]], Receives(s))

\* Two receives would share a buffer; without failures an open session has one.
ReceiveInv(s) ==
  /\ OneOf(posted[ios[s]], Receives(s))
  /\ receiving[s] => NoneOf(posted[ios[s]], Receives(s))
  /\ ~ReceiveMayFail =>
       /\ closed[s] \/ ~Alive(s) \/ NoneOf(posted[ios[s]], Failures(s))
       /\ Cached(s) /\ ~closed[s] => ~Unheard(s)

SessionInv(s) ==
  /\ AtHome(s) /\ OwnEntry(s) /\ HasClient(s) /\ DeadLeaves(s)
  /\ OneOf(posted[ios[s]], {TimerDone(s, "ok")})
  /\ KeepaliveChain(s) /\ ReceiveInv(s)

\* If Calm, what refers to a session is its entry, or it is closed ...
Known(s) == Forgotten(s) \/ Cached(s) \/ closed[s]

\* ... close() runs on the thread of the session, once, while the cache holds it ...
ClosesOnce(s) ==
  \A k \in Ios : thread[k].s = s /\ thread[k].at \in {"close", "erase"} =>
    /\ k = ios[s] /\ Cached(s) /\ ~Expired(s)
    /\ closed[s] <=> thread[k].at = "erase"

\* ... and a wait that has expired was that of an open entry, or was missed.
ExpiryOfEntry(s) == Expired(s) => IF closed[s] THEN ~Alive(s) ELSE Cached(s)

CalmInv(s) == Known(s) /\ ClosesOnce(s) /\ ExpiryOfEntry(s)

IInv == \A s \in Sessions : SessionInv(s) /\ (Calm => CalmInv(s))

-----------------------------------------------------------------------------
\* A session that has been closed is eventually destroyed, and no handler of it
\* is left, provided that a wait close() has missed expires in the end
\* (udp_switch_session.cpp:84-85, 104-116).
ClosedIsForgotten ==
  \A s \in Sessions :
    SF_vars(KeepaliveExpires(s)) => (closed[s] ~> Forgotten(s))

\* Provided that time passes, the entry of a client goes away unless the client
\* sends again, and again: the cache does not grow with clients that are gone.
SilentClientIsErased ==
  \A c \in Clients :
    (\A s \in Sessions : SF_vars(KeepaliveExpires(s))) =>
      (cache[c] # NoSession ~> cache[c] = NoSession \/ thread[0].c = c)

\* As long as no receive fails, the proxy listens to its clients again after each
\* datagram, whatever state its session is found in.
ListensAgain == ~listening ~> listening

-----------------------------------------------------------------------------
(* Refinement.                                                             *)

SessionState(s) ==
  IF Forgotten(s) THEN "free" ELSE IF closed[s] THEN "closed" ELSE "open"

Table == INSTANCE UdpSessionTable WITH
  table <- cache, state <- [s \in Sessions |-> SessionState(s)]

\* Over every interleaving of the two threads that share a session, the cache is a
\* table of addresses: one session serves an address, is closed once, takes its
\* own entry with it and is destroyed after that, if Calm
\* (udp_switch_session_manager.cpp:43-50, 76-99, udp_switch_session.cpp:100-117).
ImplementsSessionTable == Table!TableSpec
=============================================================================
