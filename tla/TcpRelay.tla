------------------------------ MODULE TcpRelay ------------------------------
(***************************************************************************)
(* tcp/tcp_switch_session.cpp, the data of one open session.  The client   *)
(* is peer 0 and target i is peer i; every connection has a bounded buffer *)
(* in each direction, held by the kernels.  A read handler takes what one  *)
(* async_read_some() brings, writes it with blocking writes to each of its *)
(* destinations in turn, and only then reads again: while it writes, the   *)
(* only thread of the session's io_service does nothing else.              *)
(***************************************************************************)
EXTENDS Integers, Sequences, FiniteSets

CONSTANTS
  TargetCount,    \* length of target_address_list_
  BufferSize,     \* units a tcp_socket's buffer holds
  ReceiveWindow,  \* units the kernels hold on their way to the proxy, per connection
  SendWindow,     \* and on their way from it
  ClientSends,    \* bound on the units the client sends
  TargetSends     \* bound on the units each target sends

ASSUME RelayAssumption ==
  /\ TargetCount \in Nat /\ BufferSize \in Nat \ {0}
  /\ ReceiveWindow \in Nat \ {0} /\ SendWindow \in Nat \ {0}
  /\ ClientSends \in Nat /\ TargetSends \in Nat

VARIABLES
  sent, got,      \* per peer: the units it has sent and received
  inbound,        \* per peer: units on their way to the proxy
  outbound,       \* per peer: units on their way from the proxy
  peer,           \* per peer: "up", "fin" (sends no more) or "gone" (reset)
  relay,          \* what the session's thread is doing
  closedBy,       \* whose failed read closed the session, or Nobody, Keepalive
  packets         \* tcp_flow_statistics: packets read from and written to a peer

peerVars == <<sent, got, peer>>
vars == <<peerVars, inbound, outbound, relay, closedBy, packets>>

Client    == 0
Targets   == 1 .. TargetCount
Peers     == {Client} \union Targets
Nobody    == -1
Keepalive == -2

MaxSend(c) == IF c = Client THEN ClientSends ELSE TargetSends
Unit == Peers \X (1 .. ClientSends + TargetSends)

\* The peers whose data d receives.
Sources(d) == IF d = Client THEN Targets ELSE {Client}

\* from: whose data is being relayed; to: the destination being written to;
\* chunk: what was read; done: how much of it this destination has been sent.
Polling == [at |-> "poll", from |-> Client, to |-> Client, chunk |-> <<>>, done |-> 0]
Writing(from, to, chunk) ==
  [at |-> "write", from |-> from, to |-> to, chunk |-> chunk, done |-> 0]

Init ==
  /\ sent = [c \in Peers |-> <<>>]
  /\ got = [c \in Peers |-> <<>>]
  /\ inbound = [c \in Peers |-> <<>>]
  /\ outbound = [c \in Peers |-> <<>>]
  /\ peer = [c \in Peers |-> "up"]
  /\ relay = Polling
  /\ closedBy = Nobody
  /\ packets = [read |-> [c \in Peers |-> 0], written |-> [c \in Peers |-> 0]]

-----------------------------------------------------------------------------
(* The peers and the network.                                              *)

PeerSends(c) ==
  /\ peer[c] = "up" /\ closedBy = Nobody
  /\ Len(sent[c]) < MaxSend(c) /\ Len(inbound[c]) < ReceiveWindow
  /\ LET unit == <<c, Len(sent[c]) + 1>> IN
     /\ sent' = [sent EXCEPT ![c] = Append(@, unit)]
     /\ inbound' = [inbound EXCEPT ![c] = Append(@, unit)]
  /\ UNCHANGED <<got, outbound, peer, relay, closedBy, packets>>

PeerReceives(c) ==
  /\ peer[c] # "gone" /\ outbound[c] # <<>>
  /\ got' = [got EXCEPT ![c] = Append(@, Head(outbound[c]))]
  /\ outbound' = [outbound EXCEPT ![c] = Tail(@)]
  /\ UNCHANGED <<sent, inbound, peer, relay, closedBy, packets>>

\* A peer shuts its side down and goes on receiving.
PeerFinishes(c) ==
  /\ peer[c] = "up" /\ closedBy = Nobody
  /\ peer' = [peer EXCEPT ![c] = "fin"]
  /\ UNCHANGED <<sent, got, inbound, outbound, relay, closedBy, packets>>

\* A peer resets its connection: what it sent can still be read.
PeerResets(c) ==
  /\ peer[c] # "gone" /\ closedBy = Nobody
  /\ peer' = [peer EXCEPT ![c] = "gone"]
  /\ outbound' = [outbound EXCEPT ![c] = <<>>]
  /\ UNCHANGED <<sent, got, inbound, relay, closedBy, packets>>

\* A socket closed over unread data is reset: what it still had to send is lost.
ResetOnClose(c) ==
  /\ closedBy # Nobody /\ inbound[c] # <<>> /\ outbound[c] # <<>>
  /\ outbound' = [outbound EXCEPT ![c] = <<>>]
  /\ UNCHANGED <<peerVars, inbound, relay, closedBy, packets>>

-----------------------------------------------------------------------------
(* The session.                                                            *)

\* Mutant: the loop runs past the last target.
DestinationPastEnd(from, to, chunk) ==
  IF from = Client /\ to <= TargetCount THEN Writing(from, to + 1, chunk) ELSE Polling

\* The destination after "to": the next target of the list, if there is one.
NextDestination(from, to, chunk) ==
  IF from = Client /\ to < TargetCount THEN Writing(from, to + 1, chunk) ELSE Polling

\* The read handler of c: async_read_client() or async_read_target().
ReadSome(c) ==
  /\ relay.at = "poll" /\ closedBy = Nobody
  /\ \E n \in 1 .. BufferSize :
       /\ n <= Len(inbound[c])
       /\ relay' = LET chunk == SubSeq(inbound[c], 1, n) IN
                   IF c # Client THEN Writing(c, Client, chunk)
                   ELSE NextDestination(Client, 0, chunk)
       /\ inbound' = [inbound EXCEPT ![c] = SubSeq(@, n + 1, Len(@))]
  /\ packets' = [packets EXCEPT !.read[c] = @ + 1]
  /\ UNCHANGED <<peerVars, outbound, closedBy>>

\* Mutant: a peer that has hung up is not read to its end.
ReadFailsEarly(c) ==
  /\ relay.at = "poll" /\ closedBy = Nobody
  /\ peer[c] # "up"
  /\ closedBy' = c
  /\ UNCHANGED <<peerVars, inbound, outbound, relay, packets>>

\* The read handler of c is given end of stream or an error, and closes.
ReadFails(c) ==
  /\ relay.at = "poll" /\ closedBy = Nobody
  /\ inbound[c] = <<>> /\ peer[c] # "up"
  /\ closedBy' = c
  /\ UNCHANGED <<peerVars, inbound, outbound, relay, packets>>

\* Mutant: after a partial write the chunk is sent from its start.
WriteRestarts ==
  LET d == relay.to IN
  /\ relay.at = "write" /\ relay.done < Len(relay.chunk)
  /\ peer[d] # "gone" /\ Len(outbound[d]) < SendWindow
  /\ outbound' = [outbound EXCEPT ![d] = Append(@, Head(relay.chunk))]
  /\ relay' = [relay EXCEPT !.done = @ + 1]
  /\ UNCHANGED <<peerVars, inbound, closedBy, packets>>

\* boost::asio::write() moves data as the window allows, and blocks otherwise.
WriteSome ==
  LET d == relay.to IN
  /\ relay.at = "write" /\ relay.done < Len(relay.chunk)
  /\ peer[d] # "gone" /\ Len(outbound[d]) < SendWindow
  /\ outbound' = [outbound EXCEPT ![d] = Append(@, relay.chunk[relay.done + 1])]
  /\ relay' = [relay EXCEPT !.done = @ + 1]
  /\ UNCHANGED <<peerVars, inbound, closedBy, packets>>

\* Mutant: write_some() in place of write().
WriteSomeReturns ==
  /\ relay.at = "write" /\ relay.done > 0
  /\ packets' = [packets EXCEPT !.written[relay.to] = @ + 1]
  /\ relay' = NextDestination(relay.from, relay.to, relay.chunk)
  /\ UNCHANGED <<peerVars, inbound, outbound, closedBy>>

\* The write has returned without an error.
WriteDone ==
  /\ relay.at = "write" /\ relay.done = Len(relay.chunk)
  /\ packets' = [packets EXCEPT !.written[relay.to] = @ + 1]
  /\ relay' = NextDestination(relay.from, relay.to, relay.chunk)
  /\ UNCHANGED <<peerVars, inbound, outbound, closedBy>>

\* Mutant: the first error ends the loop over the targets.
WriteFailureBreaks ==
  /\ relay.at = "write" /\ relay.done < Len(relay.chunk)
  /\ peer[relay.to] = "gone"
  /\ relay' = Polling
  /\ UNCHANGED <<peerVars, inbound, outbound, closedBy, packets>>

\* Mutant: a failed write is tried again.
WriteFailureRetries ==
  /\ relay.at = "write" /\ relay.done < Len(relay.chunk)
  /\ peer[relay.to] = "gone"
  /\ UNCHANGED vars

\* The write has failed: the rest of the chunk is dropped for this destination
\* and nothing else happens, the session stays open.
WriteFails ==
  /\ relay.at = "write" /\ relay.done < Len(relay.chunk)
  /\ peer[relay.to] = "gone"
  /\ relay' = NextDestination(relay.from, relay.to, relay.chunk)
  /\ UNCHANGED <<peerVars, inbound, outbound, closedBy, packets>>

\* The keepalive handler closes the session.
KeepaliveCloses ==
  /\ relay.at = "poll" /\ closedBy = Nobody
  /\ closedBy' = Keepalive
  /\ UNCHANGED <<peerVars, inbound, outbound, relay, packets>>

SessionStep == WriteSome \/ WriteDone \/ WriteFails

Next ==
  \/ SessionStep
  \/ KeepaliveCloses
  \/ \E c \in Peers : \/ PeerSends(c) \/ PeerReceives(c) \/ PeerFinishes(c)
                      \/ PeerResets(c) \/ ResetOnClose(c)
                      \/ ReadSome(c) \/ ReadFails(c)

Spec == Init /\ [][Next]_vars

\* The thread never stops, the io_service serves its queue in order, and the
\* peers keep receiving whatever else they do.
Fairness ==
  /\ WF_vars(SessionStep)
  /\ \A c \in Peers : SF_vars(ReadSome(c) \/ ReadFails(c)) /\ WF_vars(PeerReceives(c))

FairSpec == Spec /\ Fairness

-----------------------------------------------------------------------------
TypeOK ==
  /\ sent \in [Peers -> Seq(Unit)]
  /\ got \in [Peers -> Seq(Unit)]
  /\ inbound \in [Peers -> Seq(Unit)]
  /\ outbound \in [Peers -> Seq(Unit)]
  /\ peer \in [Peers -> {"up", "fin", "gone"}]
  /\ relay \in [at : {"poll", "write"}, from : Peers, to : Peers,
                chunk : Seq(Unit), done : 0 .. BufferSize]
  /\ closedBy \in Peers \union {Nobody, Keepalive}
  /\ packets \in [read : [Peers -> Nat], written : [Peers -> Nat]]

\* How many of the first n units of a stream are from c, and these units in order.
Count(stream, c, n) == Cardinality({i \in 1 .. n : stream[i][1] = c})
Of(stream, c) ==
  [k \in 1 .. Count(stream, c, Len(stream)) |->
     stream[CHOOSE i \in 1 .. Len(stream) : stream[i][1] = c /\ Count(stream, c, i) = k]]

\* What the proxy has written to d so far, of what c sent.
Written(c, d) == Of(got[d] \o outbound[d], c)

\* What it has read from c and has still to write to d.
Held(c, d) ==
  IF relay.at = "poll" \/ relay.from # c \/ relay.to > d THEN <<>>
  ELSE IF relay.to < d THEN relay.chunk
  ELSE SubSeq(relay.chunk, relay.done + 1, Len(relay.chunk))

\* While the session is open nothing on its way to a destination that has not
\* reset its connection is lost, repeated or reordered: what was written, what
\* the read buffer still holds and what is unread add up to what was sent,
\* however chunks were cut (tcp_switch_session.cpp:79-88,117-124,135-166).
NothingLost ==
  closedBy = Nobody =>
    \A d \in Peers : \A c \in Sources(d) :
      peer[d] # "gone" => Written(c, d) \o Held(c, d) \o inbound[c] = sent[c]

\* A packet the statistics count as received from the client is counted as sent
\* to every target whose connection holds, except the one being written
\* (tcp_switch_session.cpp:84,142,159).
PacketsBalance ==
  \A i \in Targets :
    peer[i] # "gone" =>
      packets.read[Client] - packets.written[i] =
        IF relay.at = "write" /\ relay.from = Client /\ relay.to <= i THEN 1 ELSE 0

\* The session is only closed for the end of a peer's stream once everything the
\* peer sent has been written to every destination whose connection holds.
CloseDrains ==
  [][\A c \in Peers : closedBy' = c /\ closedBy = Nobody =>
       \A d \in Peers : c \in Sources(d) /\ peer[d] # "gone" => Written(c, d) = sent[c]]_vars

\* Seen from the peers the session is a broadcast: also after a reset, a failed
\* write or the end of the session, what a peer has received of a stream is what
\* that stream began with.
Streams == INSTANCE Broadcast
ImplementsBroadcast == Streams!BroadcastSpec

\* As long as the peers keep receiving, what a peer sent reaches every one of its
\* destinations or the session ends: no blocking write and no other stream holds
\* it back for ever, so that again and again a destination has everything
\* (tcp_switch_session.cpp:138,155).
EverythingArrives ==
  \A d \in Peers : \A c \in Sources(d) :
    []<>(\/ closedBy # Nobody \/ peer[d] = "gone"
         \/ Streams!Delivered(c, d) = Len(sent[c]))

-----------------------------------------------------------------------------
(* The inductive invariant.                                                *)

\* A peer sends no more than its bound, and a read no more than the buffer.
WithinBounds ==
  /\ \A c \in Peers : Len(sent[c]) <= MaxSend(c)
  /\ relay.done <= Len(relay.chunk) /\ Len(relay.chunk) <= BufferSize

\* Only an open session writes, and what it writes goes where it belongs.
WritesToDestination ==
  relay.at = "write" => closedBy = Nobody /\ relay.from \in Sources(relay.to)

\* Every buffer of one direction holds the units of its own sender.
SentBy(stream, senders) == \A i \in 1 .. Len(stream) : stream[i][1] \in senders
StreamsApart ==
  /\ \A c \in Peers : SentBy(inbound[c], {c}) /\ SentBy(got[c] \o outbound[c], Sources(c))
  /\ SentBy(relay.chunk, {relay.from})

\* What has been written of a stream is what the stream began with, after a reset
\* or the end of the session too.
BeginsWith(stream, part) ==
  /\ Len(part) <= Len(stream)
  /\ \A i \in 1 .. Len(part) : part[i] = stream[i]
WrittenInOrder == \A d \in Peers : \A c \in Sources(d) : BeginsWith(sent[c], Written(c, d))

RelayInv ==
  /\ TypeOK /\ WithinBounds /\ WritesToDestination /\ StreamsApart
  /\ NothingLost /\ PacketsBalance /\ WrittenInOrder
=============================================================================
