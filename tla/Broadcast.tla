------------------------------ MODULE Broadcast ------------------------------
(***************************************************************************)
(* What a proxied TCP connection promises about its data: every target     *)
(* receives the client's stream, the client receives the streams of all    *)
(* targets merged, and no stream loses, repeats or reorders anything       *)
(* within what it has delivered.                                           *)
(***************************************************************************)
EXTENDS Naturals, Sequences, FiniteSets

CONSTANTS
  Peers,          \* the client and the targets
  Sources(_),     \* the peers whose streams a peer receives
  MaxSend(_)      \* bound on the units a peer sends

VARIABLES
  sent,           \* per peer: the units it has sent; a unit is <<sender, n>>
  got             \* per peer: the units it has received

BroadcastInit ==
  /\ sent = [c \in Peers |-> <<>>]
  /\ got = [c \in Peers |-> <<>>]

Send(c) ==
  /\ Len(sent[c]) < MaxSend(c)
  /\ sent' = [sent EXCEPT ![c] = Append(@, <<c, Len(@) + 1>>)]
  /\ UNCHANGED got

\* How much of c's stream d has received.
Delivered(c, d) == Cardinality({i \in 1 .. Len(got[d]) : got[d][i][1] = c})

\* d receives the next unit of the stream of one of its sources.
Deliver(d) ==
  \E c \in Sources(d) :
    /\ Delivered(c, d) < Len(sent[c])
    /\ got' = [got EXCEPT ![d] = Append(@, sent[c][Delivered(c, d) + 1])]
    /\ UNCHANGED sent

BroadcastNext == \E c \in Peers : Send(c) \/ Deliver(c)

BroadcastSpec == BroadcastInit /\ [][BroadcastNext]_<<sent, got>>
=============================================================================
