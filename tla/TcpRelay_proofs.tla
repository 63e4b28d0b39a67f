--------------------------- MODULE TcpRelay_proofs ---------------------------
(***************************************************************************)
(* For any number of targets, any buffer, any windows and streams of any   *)
(* length: an open session loses nothing, repeats nothing and reorders     *)
(* nothing, it only closes for a peer that has been drained, and what the  *)
(* peers see of it is a broadcast.                                         *)
(***************************************************************************)
EXTENDS TcpRelay, FiniteSetTheorems, SequenceTheorems, TLAPS

-----------------------------------------------------------------------------
(* The units of one sender in a stream.                                    *)

LEMMA CountStep ==
  ASSUME NEW stream, NEW c, NEW n \in Nat
  PROVE  /\ Count(stream, c, n) \in Nat
         /\ Count(stream, c, n + 1) =
              IF stream[n + 1][1] = c THEN Count(stream, c, n) + 1 ELSE Count(stream, c, n)
<1> DEFINE first(k) == {i \in 1 .. k : stream[i][1] = c}
<1>1. IsFiniteSet(first(n)) /\ Cardinality(first(n)) \in Nat
  <2>1. IsFiniteSet(1 .. n)
    BY FS_Interval
  <2>2. first(n) \in SUBSET (1 .. n)
    OBVIOUS
  <2> QED
    BY <2>1, <2>2, FS_Subset, FS_CardinalityType
<1>2. CASE stream[n + 1][1] = c
  <2>1. first(n + 1) = first(n) \cup {n + 1} /\ n + 1 \notin first(n)
    BY <1>2
  <2> QED
    BY <1>1, <1>2, <2>1, FS_AddElement DEF Count
<1>3. CASE stream[n + 1][1] # c
  <2>1. first(n + 1) = first(n)
    BY <1>3
  <2> QED
    BY <1>1, <1>3, <2>1 DEF Count
<1> QED
  BY <1>1, <1>2, <1>3 DEF Count

LEMMA CountNone ==
  ASSUME NEW stream, NEW c
  PROVE  Count(stream, c, 0) = 0
<1>1. {i \in 1 .. 0 : stream[i][1] = c} = {}
  OBVIOUS
<1> QED
  BY <1>1, FS_EmptySet DEF Count

LEMMA CountGrows ==
  ASSUME NEW stream, NEW c, NEW m \in Nat, NEW n \in Nat, m <= n
  PROVE  Count(stream, c, m) <= Count(stream, c, n)
<1> DEFINE first(k) == {i \in 1 .. k : stream[i][1] = c}
<1>1. first(m) \in SUBSET first(n) /\ first(n) \in SUBSET (1 .. n)
  OBVIOUS
<1>2. IsFiniteSet(first(n))
  <2>1. IsFiniteSet(1 .. n)
    BY FS_Interval
  <2> QED
    BY <1>1, <2>1, FS_Subset
<1> QED
  BY <1>1, <1>2, FS_Subset DEF Count

\* Only the units up to n matter.
LEMMA CountSame ==
  ASSUME NEW stream, NEW other, NEW c, NEW n \in Nat,
         \A i \in 1 .. n : stream[i] = other[i]
  PROVE  Count(stream, c, n) = Count(other, c, n)
<1>1. {i \in 1 .. n : stream[i][1] = c} = {i \in 1 .. n : other[i][1] = c}
  OBVIOUS
<1> QED
  BY <1>1 DEF Count

\* The units of c have different ranks.
LEMMA CountApart ==
  ASSUME NEW stream, NEW c, NEW i \in Nat \ {0}, NEW j \in Nat \ {0}, i < j,
         stream[j][1] = c
  PROVE  Count(stream, c, i) < Count(stream, c, j)
<1>1. j - 1 \in Nat /\ i <= j - 1 /\ (j - 1) + 1 = j
  OBVIOUS
<1>2. Count(stream, c, j) = Count(stream, c, j - 1) + 1 /\ Count(stream, c, j - 1) \in Nat
  BY <1>1, CountStep
<1> QED
  BY <1>1, <1>2, CountGrows, CountStep

\* Every rank up to the count is that of one unit: the ranks of the units of c are
\* an injection into as many numbers as there are units.
LEMMA EveryRank ==
  ASSUME NEW stream, NEW c, NEW n \in Nat, NEW k \in 1 .. Count(stream, c, n)
  PROVE  \E i \in 1 .. n : stream[i][1] = c /\ Count(stream, c, i) = k
<1> DEFINE places == {i \in 1 .. n : stream[i][1] = c}
           ranks == 1 .. Count(stream, c, n)
           rank == [i \in places |-> Count(stream, c, i)]
<1>1. Count(stream, c, n) \in Nat
  BY CountStep
<1>2. ASSUME NEW i \in places PROVE Count(stream, c, i) \in ranks
  <2>1. i \in Nat \ {0} /\ i - 1 \in Nat /\ (i - 1) + 1 = i /\ i <= n
    OBVIOUS
  <2>2. Count(stream, c, i) = Count(stream, c, i - 1) + 1 /\ Count(stream, c, i - 1) \in Nat
    BY <1>2, <2>1, CountStep
  <2>3. Count(stream, c, i) <= Count(stream, c, n)
    BY <2>1, CountGrows
  <2> QED
    BY <1>1, <2>2, <2>3
<1>3. ASSUME NEW i \in places, NEW j \in places, i # j
      PROVE  Count(stream, c, i) # Count(stream, c, j)
  <2>1. /\ i \in Nat \ {0} /\ j \in Nat \ {0} /\ (i < j \/ j < i)
        /\ stream[i][1] = c /\ stream[j][1] = c
    BY <1>3
  <2>2. Count(stream, c, i) \in Nat /\ Count(stream, c, j) \in Nat
    BY <2>1, CountStep
  <2> QED
    BY <2>1, <2>2, CountApart
<1>4. rank \in Injection(places, ranks)
  BY <1>2, <1>3 DEF Injection, IsInjective
<1>5. IsFiniteSet(ranks) /\ Cardinality(ranks) = Cardinality(places)
  <2>1. IsFiniteSet(ranks) /\ Cardinality(ranks) = Count(stream, c, n)
    BY <1>1, FS_Interval
  <2> QED
    BY <2>1 DEF Count
<1>6. rank \in Surjection(places, ranks)
  BY <1>4, <1>5, FS_Injection
<1>7. PICK i \in places : rank[i] = k
  BY <1>6 DEF Surjection
<1> QED
  BY <1>7

\* What Of returns: a sequence of the units of c, each at its rank.
LEMMA OfSequence ==
  ASSUME NEW S, NEW stream \in Seq(S), NEW c
  PROVE  /\ Of(stream, c) \in Seq(S)
         /\ Len(Of(stream, c)) = Count(stream, c, Len(stream))
         /\ \A k \in 1 .. Len(Of(stream, c)) :
              \E i \in 1 .. Len(stream) :
                 stream[i][1] = c /\ Count(stream, c, i) = k /\ Of(stream, c)[k] = stream[i]
<1> DEFINE size == Count(stream, c, Len(stream))
<1>1. Len(stream) \in Nat /\ size \in Nat
  BY CountStep
<1>2. \A k \in 1 .. size : \E i \in 1 .. Len(stream) :
         stream[i][1] = c /\ Count(stream, c, i) = k /\ Of(stream, c)[k] = stream[i]
  <2> SUFFICES ASSUME NEW k \in 1 .. size
               PROVE  \E i \in 1 .. Len(stream) :
                        stream[i][1] = c /\ Count(stream, c, i) = k /\ Of(stream, c)[k] = stream[i]
    OBVIOUS
  <2> DEFINE place == CHOOSE i \in 1 .. Len(stream) : stream[i][1] = c /\ Count(stream, c, i) = k
  <2>1. place \in 1 .. Len(stream) /\ stream[place][1] = c /\ Count(stream, c, place) = k
    <3>1. \E i \in 1 .. Len(stream) : stream[i][1] = c /\ Count(stream, c, i) = k
      BY <1>1, EveryRank
    <3> QED
      BY <3>1, Zenon
  <2>2. Of(stream, c)[k] = stream[place]
    BY DEF Of
  <2> QED
    BY <2>1, <2>2
<1>3. \A k \in 1 .. size : Of(stream, c)[k] \in S
  BY <1>2, ElementOfSeq
<1>4. Of(stream, c) = [k \in 1 .. size |-> Of(stream, c)[k]]
  BY DEF Of
<1>5. Of(stream, c) \in Seq(S) /\ Len(Of(stream, c)) = size
  <2> DEFINE units == Of(stream, c)
  <2>1. units \in [1 .. size -> S]
    BY <1>3, <1>4
  <2> HIDE DEF units
  <2>2. units \in Seq(S) /\ Len(units) = size
    BY <1>1, <2>1
  <2> QED
    BY <2>2 DEF units
<1> QED
  BY <1>2, <1>5

\* A unit of c is in Of at its rank.
LEMMA OfPlace ==
  ASSUME NEW S, NEW stream \in Seq(S), NEW c, NEW i \in 1 .. Len(stream), stream[i][1] = c
  PROVE  /\ Count(stream, c, i) \in 1 .. Len(Of(stream, c))
         /\ Of(stream, c)[Count(stream, c, i)] = stream[i]
<1>1. i - 1 \in Nat /\ (i - 1) + 1 = i /\ i \in Nat \ {0} /\ Len(stream) \in Nat /\ i <= Len(stream)
  OBVIOUS
<1>2. Count(stream, c, i) \in Nat \ {0}
  <2>1. PICK n \in Nat : n + 1 = i
    BY <1>1
  <2>2. Count(stream, c, n + 1) = Count(stream, c, n) + 1 /\ Count(stream, c, n) \in Nat
    BY <2>1, CountStep
  <2> QED
    BY <2>1, <2>2
<1>3. Count(stream, c, i) \in 1 .. Len(Of(stream, c))
  <2>1. /\ Len(Of(stream, c)) = Count(stream, c, Len(stream))
        /\ Count(stream, c, Len(stream)) \in Nat
    BY <1>1, OfSequence, CountStep
  <2>2. Count(stream, c, i) <= Count(stream, c, Len(stream))
    BY <1>1, CountGrows
  <2> QED
    BY <1>2, <2>1, <2>2
<1>4. PICK j \in 1 .. Len(stream) :
         /\ stream[j][1] = c /\ Count(stream, c, j) = Count(stream, c, i)
         /\ Of(stream, c)[Count(stream, c, i)] = stream[j]
  BY <1>3, OfSequence
<1>5. j = i
  <2>1. j \in Nat \ {0} /\ (j = i \/ j < i \/ i < j)
    BY <1>1
  <2> QED
    BY <1>1, <1>2, <1>4, <2>1, CountApart
<1> QED
  BY <1>3, <1>4, <1>5

LEMMA OfAppend ==
  ASSUME NEW S, NEW stream \in Seq(S), NEW c, NEW unit \in S
  PROVE  Of(Append(stream, unit), c) =
           IF unit[1] = c THEN Append(Of(stream, c), unit) ELSE Of(stream, c)
<1> DEFINE longer == Append(stream, unit)
           n == Len(stream)
           size == Count(stream, c, n)
<1>1. /\ longer \in Seq(S) /\ Len(longer) = n + 1 /\ n \in Nat
      /\ \A i \in 1 .. n : longer[i] = stream[i]
      /\ longer[n + 1] = unit
  BY AppendProperties
<1> HIDE DEF longer
<1>2. \A i \in 0 .. n : Count(longer, c, i) = Count(stream, c, i)
  BY <1>1, CountSame
<1>3. size \in Nat /\ Count(longer, c, n + 1) = IF unit[1] = c THEN size + 1 ELSE size
  <2>1. n \in 0 .. n
    BY <1>1
  <2>2. size \in Nat /\ Count(longer, c, n) = size
    BY <1>1, <1>2, <2>1, CountStep
  <2>3. Count(longer, c, n + 1) =
          IF longer[n + 1][1] = c THEN Count(longer, c, n) + 1 ELSE Count(longer, c, n)
    <3>1. n \in Nat
      BY <1>1
    <3> HIDE DEF n
    <3> QED
      BY <3>1, CountStep
  <2> QED
    BY <1>1, <2>2, <2>3
<1>4. /\ Of(longer, c) \in Seq(S) /\ Of(stream, c) \in Seq(S)
      /\ Len(Of(longer, c)) = Count(longer, c, n + 1) /\ Len(Of(stream, c)) = size
  BY <1>1, OfSequence
<1>5. ASSUME NEW k \in 1 .. size
      PROVE  Of(longer, c)[k] = Of(stream, c)[k]
  <2>1. PICK i \in 1 .. n :
           stream[i][1] = c /\ Count(stream, c, i) = k /\ Of(stream, c)[k] = stream[i]
    BY <1>4, OfSequence
  <2>2. longer[i][1] = c /\ Count(longer, c, i) = k /\ longer[i] = stream[i] /\ i \in 1 .. n + 1
    BY <1>1, <1>2, <2>1
  <2>3. Of(longer, c)[Count(longer, c, i)] = longer[i]
    BY <1>1, <2>2, OfPlace
  <2> QED
    BY <2>1, <2>2, <2>3
<1>6. CASE unit[1] = c
  <2>1. Of(longer, c)[size + 1] = unit
    <3>1. n + 1 \in 1 .. n + 1 /\ longer[n + 1][1] = c /\ Count(longer, c, n + 1) = size + 1
      BY <1>1, <1>3, <1>6
    <3> QED
      BY <1>1, <3>1, OfPlace
  <2>2. /\ Append(Of(stream, c), unit) \in Seq(S)
        /\ Len(Append(Of(stream, c), unit)) = size + 1
        /\ \A k \in 1 .. size : Append(Of(stream, c), unit)[k] = Of(stream, c)[k]
        /\ Append(Of(stream, c), unit)[size + 1] = unit
    BY <1>4, AppendProperties
  <2>3. \A k \in 1 .. size + 1 : Of(longer, c)[k] = Append(Of(stream, c), unit)[k]
    BY <1>3, <1>5, <2>1, <2>2
  <2> QED
    BY <1>3, <1>4, <1>6, <2>2, <2>3, SeqEqual DEF longer
<1>7. CASE unit[1] # c
  BY <1>3, <1>4, <1>5, <1>7, SeqEqual DEF longer
<1> QED
  BY <1>6, <1>7

\* A part of a stream holds the first of its units.
LEMMA OfPart ==
  ASSUME NEW S, NEW part \in Seq(S), NEW rest \in Seq(S), NEW c
  PROVE  BeginsWith(Of(part \o rest, c), Of(part, c))
<1> DEFINE stream == part \o rest
<1>1. /\ stream \in Seq(S) /\ Len(stream) = Len(part) + Len(rest)
      /\ Len(part) \in Nat /\ Len(rest) \in Nat
      /\ \A i \in 1 .. Len(part) : stream[i] = part[i]
  BY ConcatProperties
<1> HIDE DEF stream
<1>2. \A i \in 0 .. Len(part) : Count(stream, c, i) = Count(part, c, i)
  BY <1>1, CountSame
<1>3. Len(Of(part, c)) <= Len(Of(stream, c))
  BY <1>1, <1>2, CountGrows, OfSequence
<1>4. ASSUME NEW k \in 1 .. Len(Of(part, c))
      PROVE  Of(part, c)[k] = Of(stream, c)[k]
  <2>1. PICK i \in 1 .. Len(part) :
           part[i][1] = c /\ Count(part, c, i) = k /\ Of(part, c)[k] = part[i]
    BY OfSequence
  <2>2. stream[i][1] = c /\ Count(stream, c, i) = k /\ stream[i] = part[i] /\ i \in 1 .. Len(stream)
    BY <1>1, <1>2, <2>1
  <2>3. Of(stream, c)[Count(stream, c, i)] = stream[i]
    BY <1>1, <2>2, OfPlace
  <2> QED
    BY <2>1, <2>2, <2>3
<1> QED
  BY <1>3, <1>4 DEF BeginsWith, stream

-----------------------------------------------------------------------------
(* Types.                                                                  *)

Relay == [at : {"poll", "write"}, from : Peers, to : Peers,
          chunk : Seq(Unit), done : 0 .. BufferSize]

LEMMA PeersAreNumbers ==
  /\ Peers = 0 .. TargetCount /\ Client \in Peers /\ Client \notin Targets
  /\ Targets \subseteq Peers
BY RelayAssumption DEF Peers, Targets, Client

LEMMA PollingTyped == Polling \in Relay
<1>1. <<>> \in Seq(Unit) /\ 0 \in 0 .. BufferSize
  BY RelayAssumption, EmptySeq
<1> QED
  BY <1>1, PeersAreNumbers DEF Polling, Relay

LEMMA WritingTyped ==
  ASSUME NEW from \in Peers, NEW to \in Peers, NEW chunk \in Seq(Unit)
  PROVE  Writing(from, to, chunk) \in Relay
<1>1. 0 \in 0 .. BufferSize
  BY RelayAssumption
<1> QED
  BY <1>1 DEF Writing, Relay

\* What comes after a destination: the next target, from the start of the chunk.
LEMMA NextTyped ==
  ASSUME NEW from \in Peers, NEW to \in Peers, NEW chunk \in Seq(Unit)
  PROVE  LET next == NextDestination(from, to, chunk) IN
         /\ next \in Relay
         /\ \/ /\ next = Polling /\ next.at = "poll"
               /\ from # Client \/ to = TargetCount
            \/ /\ from = Client /\ to < TargetCount /\ to + 1 \in Targets
               /\ next = Writing(from, to + 1, chunk)
<1>1. CASE from = Client /\ to < TargetCount
  <2>1. to + 1 \in Targets
    BY <1>1, PeersAreNumbers, RelayAssumption DEF Targets
  <2> QED
    BY <1>1, <2>1, PeersAreNumbers, WritingTyped DEF NextDestination
<1>2. CASE ~(from = Client /\ to < TargetCount)
  <2>1. from # Client \/ to = TargetCount
    BY <1>2, PeersAreNumbers, RelayAssumption
  <2> QED
    BY <1>2, <2>1, PollingTyped DEF NextDestination, Polling
<1> QED
  BY <1>1, <1>2

\* What a read takes, and what it leaves.
LEMMA Cut ==
  ASSUME NEW S, NEW stream \in Seq(S), NEW n \in 1 .. Len(stream)
  PROVE  /\ SubSeq(stream, 1, n) \in Seq(S) /\ Len(SubSeq(stream, 1, n)) = n
         /\ SubSeq(stream, n + 1, Len(stream)) \in Seq(S)
         /\ Len(SubSeq(stream, n + 1, Len(stream))) = Len(stream) - n
         /\ \A i \in 1 .. n : SubSeq(stream, 1, n)[i] = stream[i]
         /\ \A i \in 1 .. Len(stream) - n :
              SubSeq(stream, n + 1, Len(stream))[i] = stream[n + i]
         /\ SubSeq(stream, 1, n) \o SubSeq(stream, n + 1, Len(stream)) = stream
<1>1. /\ \A i \in 1 .. Len(stream) : stream[i] \in S
      /\ Len(stream) \in Nat /\ n \in Nat /\ n <= Len(stream)
  BY ElementOfSeq
<1>2. /\ SubSeq(stream, 1, n) \in Seq(S) /\ Len(SubSeq(stream, 1, n)) = n
      /\ \A i \in 1 .. n : SubSeq(stream, 1, n)[i] = stream[i]
  <2>1. \A i \in 1 .. n : stream[i] \in S
    BY <1>1
  <2>2. 1 <= n /\ n - 1 + 1 = n /\ \A i \in 1 .. n : 1 + i - 1 = i
    BY <1>1
  <2> QED
    BY <1>1, <2>1, <2>2, SubSeqProperties
<1>3. /\ SubSeq(stream, n + 1, Len(stream)) \in Seq(S)
      /\ Len(SubSeq(stream, n + 1, Len(stream))) = Len(stream) - n
      /\ \A i \in 1 .. Len(stream) - n : SubSeq(stream, n + 1, Len(stream))[i] = stream[n + i]
  <2>1. \A i \in n + 1 .. Len(stream) : stream[i] \in S
    BY <1>1
  <2>2. /\ n + 1 \in Int /\ Len(stream) \in Int /\ Len(stream) - (n + 1) + 1 = Len(stream) - n
        /\ (IF n + 1 <= Len(stream) THEN Len(stream) - (n + 1) + 1 ELSE 0) = Len(stream) - n
        /\ \A i \in 1 .. Len(stream) - n : (n + 1) + i - 1 = n + i
    BY <1>1
  <2>3. /\ SubSeq(stream, n + 1, Len(stream)) \in Seq(S)
        /\ Len(SubSeq(stream, n + 1, Len(stream))) =
             IF n + 1 <= Len(stream) THEN Len(stream) - (n + 1) + 1 ELSE 0
        /\ \A i \in 1 .. Len(stream) - (n + 1) + 1 :
             SubSeq(stream, n + 1, Len(stream))[i] = stream[(n + 1) + i - 1]
    <3> DEFINE m == n + 1
               k == Len(stream)
    <3>1. m \in Int /\ k \in Int /\ \A i \in m .. k : stream[i] \in S
      BY <2>1, <2>2
    <3> HIDE DEF m, k
    <3>2. /\ SubSeq(stream, m, k) \in Seq(S)
          /\ Len(SubSeq(stream, m, k)) = IF m <= k THEN k - m + 1 ELSE 0
          /\ \A i \in 1 .. k - m + 1 : SubSeq(stream, m, k)[i] = stream[m + i - 1]
      BY <3>1, SubSeqProperties
    <3> QED
      BY <3>2 DEF m, k
  <2> QED
    BY <2>2, <2>3
<1>4. SubSeq(stream, 1, n) \o SubSeq(stream, n + 1, Len(stream)) = SubSeq(stream, 1, Len(stream))
  <2>1. 1 \in 1 .. Len(stream) + 1 /\ n \in 1 - 1 .. Len(stream) /\ Len(stream) \in n .. Len(stream)
    BY <1>1
  <2> QED
    BY <2>1, ConcatAdjacentSubSeq
<1> QED
  BY <1>2, <1>3, <1>4, SubSeqFull

\* Counting a packet.
Counters == [read : [Peers -> Nat], written : [Peers -> Nat]]

LEMMA CountersTyped ==
  ASSUME NEW counters \in Counters, NEW c \in Peers
  PROVE  /\ [counters EXCEPT !.read[c] = @ + 1] \in Counters
         /\ [counters EXCEPT !.written[c] = @ + 1] \in Counters
<1>1. counters.read \in [Peers -> Nat] /\ counters.written \in [Peers -> Nat]
  BY DEF Counters
<1>2. /\ [counters.read EXCEPT ![c] = @ + 1] \in [Peers -> Nat]
      /\ [counters.written EXCEPT ![c] = @ + 1] \in [Peers -> Nat]
  BY <1>1
<1> QED
  BY <1>1, <1>2 DEF Counters

LEMMA TypeStep ==
  ASSUME TypeOK, WithinBounds, [Next]_vars
  PROVE  TypeOK'
<1> USE DEF peerVars
<1>1. ASSUME NEW c \in Peers, PeerSends(c) PROVE TypeOK'
  <2>1. <<c, Len(sent[c]) + 1>> \in Unit
    <3>1. sent[c] \in Seq(Unit) /\ Len(sent[c]) \in Nat
      BY DEF TypeOK
    <3>2. MaxSend(c) \in Nat /\ MaxSend(c) <= ClientSends + TargetSends
      BY RelayAssumption DEF MaxSend
    <3>3. Len(sent[c]) + 1 \in 1 .. ClientSends + TargetSends
      BY <1>1, <3>1, <3>2, RelayAssumption DEF PeerSends
    <3> QED
      BY <3>3 DEF Unit
  <2>2. /\ Append(sent[c], <<c, Len(sent[c]) + 1>>) \in Seq(Unit)
        /\ Append(inbound[c], <<c, Len(sent[c]) + 1>>) \in Seq(Unit)
    BY <2>1, AppendProperties DEF TypeOK
  <2> QED
    BY <1>1, <2>2 DEF PeerSends, TypeOK
<1>2. ASSUME NEW c \in Peers, PeerReceives(c) PROVE TypeOK'
  <2>1. /\ Tail(outbound[c]) \in Seq(Unit)
        /\ Append(got[c], Head(outbound[c])) \in Seq(Unit)
    BY <1>2, HeadTailProperties, AppendProperties DEF PeerReceives, TypeOK
  <2> QED
    BY <1>2, <2>1 DEF PeerReceives, TypeOK
<1>3. ASSUME NEW c \in Peers, PeerFinishes(c) PROVE TypeOK'
  BY <1>3 DEF PeerFinishes, TypeOK
<1>4. ASSUME NEW c \in Peers, PeerResets(c) PROVE TypeOK'
  BY <1>4, EmptySeq DEF PeerResets, TypeOK
<1>5. ASSUME NEW c \in Peers, ResetOnClose(c) PROVE TypeOK'
  BY <1>5, EmptySeq DEF ResetOnClose, TypeOK
<1>6. ASSUME NEW c \in Peers, ReadSome(c) PROVE TypeOK'
  <2>1. PICK n \in 1 .. BufferSize :
       /\ n <= Len(inbound[c])
       /\ relay' = IF c # Client THEN Writing(c, Client, SubSeq(inbound[c], 1, n))
                   ELSE NextDestination(Client, 0, SubSeq(inbound[c], 1, n))
       /\ inbound' = [inbound EXCEPT ![c] = SubSeq(@, n + 1, Len(@))]
    BY <1>6 DEF ReadSome, TypeOK
  <2>2. n \in 1 .. Len(inbound[c]) /\ inbound[c] \in Seq(Unit)
    BY <2>1, RelayAssumption DEF TypeOK
  <2>3. /\ SubSeq(inbound[c], 1, n) \in Seq(Unit)
        /\ SubSeq(inbound[c], n + 1, Len(inbound[c])) \in Seq(Unit)
    BY <2>2, Cut
  <2>4. relay' \in Relay
    <3>1. Client \in Peers /\ 0 \in Peers
      BY PeersAreNumbers DEF Client
    <3> QED
      BY <2>1, <2>3, <3>1, WritingTyped, NextTyped DEF TypeOK
  <2>5. inbound' \in [Peers -> Seq(Unit)]
    BY <2>1, <2>3 DEF TypeOK
  <2>6. packets' \in [read : [Peers -> Nat], written : [Peers -> Nat]]
    BY <1>6, CountersTyped DEF ReadSome, Counters, TypeOK
  <2> QED
    BY <1>6, <2>4, <2>5, <2>6 DEF ReadSome, Relay, TypeOK
<1>7. ASSUME NEW c \in Peers, ReadFails(c) PROVE TypeOK'
  BY <1>7 DEF ReadFails, TypeOK
<1>8. CASE WriteSome
  <2>1. relay.done + 1 \in 0 .. BufferSize /\ relay.done + 1 \in 1 .. Len(relay.chunk)
    <3>1. relay.done \in 0 .. BufferSize /\ relay.chunk \in Seq(Unit)
      BY DEF TypeOK
    <3>2. /\ relay.done \in Nat /\ Len(relay.chunk) \in Nat /\ BufferSize \in Nat
          /\ relay.done < Len(relay.chunk) /\ Len(relay.chunk) <= BufferSize
      BY <1>8, <3>1, RelayAssumption DEF WriteSome, WithinBounds
    <3> QED
      BY <3>2
  <2>2. /\ relay.chunk[relay.done + 1] \in Unit
        /\ relay.to \in Peers
    BY <2>1, ElementOfSeq DEF TypeOK
  <2>3. Append(outbound[relay.to], relay.chunk[relay.done + 1]) \in Seq(Unit)
    BY <2>2, AppendProperties DEF TypeOK
  <2> QED
    BY <1>8, <2>1, <2>2, <2>3 DEF WriteSome, TypeOK
<1>9. CASE WriteDone
  <2>1. relay' \in Relay
    BY <1>9, NextTyped DEF WriteDone, TypeOK
  <2>2. packets' \in [read : [Peers -> Nat], written : [Peers -> Nat]]
    BY <1>9, CountersTyped DEF WriteDone, Counters, TypeOK
  <2> QED
    BY <1>9, <2>1, <2>2 DEF WriteDone, Relay, TypeOK
<1>10. CASE WriteFails
  <2>1. relay' \in Relay
    BY <1>10, NextTyped DEF WriteFails, TypeOK
  <2> QED
    BY <1>10, <2>1 DEF WriteFails, Relay, TypeOK
<1>11. CASE KeepaliveCloses
  BY <1>11 DEF KeepaliveCloses, TypeOK
<1>12. CASE UNCHANGED vars
  BY <1>12 DEF vars, TypeOK
<1> QED
  BY <1>1, <1>2, <1>3, <1>4, <1>5, <1>6, <1>7, <1>8, <1>9, <1>10, <1>11, <1>12
  DEF Next, SessionStep

-----------------------------------------------------------------------------
(* Bounds and directions.                                                  *)

LEMMA LengthsStep ==
  ASSUME TypeOK, WithinBounds, [Next]_vars
  PROVE  WithinBounds'
<1> USE DEF peerVars
<1> DEFINE Fits == relay.done <= Len(relay.chunk) /\ Len(relay.chunk) <= BufferSize
           Sent == \A c \in Peers : Len(sent[c]) <= MaxSend(c)
<1>1. Fits /\ Sent
  BY DEF WithinBounds
<1>2. ASSUME NEW c \in Peers, PeerSends(c) PROVE Fits' /\ Sent'
  <2>1. sent[c] \in Seq(Unit) /\ Len(sent[c]) \in Nat /\ MaxSend(c) \in Nat
    BY RelayAssumption DEF TypeOK, MaxSend
  <2>2. sent' = [sent EXCEPT ![c] = Append(@, <<c, Len(sent[c]) + 1>>)] /\ UNCHANGED relay
    BY <1>2 DEF PeerSends
  <2>3. Len(sent'[c]) = Len(sent[c]) + 1
    BY <2>1, <2>2 DEF TypeOK
  <2>4. \A p \in Peers \ {c} : sent'[p] = sent[p]
    BY <2>2 DEF TypeOK
  <2>5. Len(sent'[c]) <= MaxSend(c)
    BY <1>2, <2>1, <2>3 DEF PeerSends
  <2> QED
    BY <1>1, <2>2, <2>4, <2>5
<1>3. ASSUME NEW next, NEW chunk \in Seq(Unit), Len(chunk) <= BufferSize,
             \/ next = Polling
             \/ \E from, to \in Peers : next = Writing(from, to, chunk)
      PROVE  next.done <= Len(next.chunk) /\ Len(next.chunk) <= BufferSize
  BY <1>3, RelayAssumption DEF Polling, Writing
<1>4. ASSUME NEW c \in Peers, ReadSome(c) PROVE Fits' /\ Sent'
  <2>1. PICK n \in 1 .. BufferSize :
       /\ n <= Len(inbound[c])
       /\ relay' = IF c # Client THEN Writing(c, Client, SubSeq(inbound[c], 1, n))
                   ELSE NextDestination(Client, 0, SubSeq(inbound[c], 1, n))
    BY <1>4 DEF ReadSome
  <2>2. n \in 1 .. Len(inbound[c]) /\ inbound[c] \in Seq(Unit)
    BY <2>1, RelayAssumption DEF TypeOK
  <2>3. SubSeq(inbound[c], 1, n) \in Seq(Unit) /\ Len(SubSeq(inbound[c], 1, n)) <= BufferSize
    BY <2>2, Cut, RelayAssumption
  <2>4. 0 \in Peers /\ Client \in Peers /\ Targets \subseteq Peers
    BY PeersAreNumbers DEF Client
  <2>5. \/ relay' = Polling
        \/ \E from, to \in Peers : relay' = Writing(from, to, SubSeq(inbound[c], 1, n))
    BY <2>1, <2>3, <2>4, NextTyped
  <2> QED
    BY <1>1, <1>3, <1>4, <2>3, <2>5 DEF ReadSome
<1>5. ASSUME WriteSome PROVE Fits' /\ Sent'
  <2>1. /\ relay.done \in Nat /\ Len(relay.chunk) \in Nat /\ relay.done < Len(relay.chunk)
        /\ relay'.done = relay.done + 1 /\ relay'.chunk = relay.chunk
    BY <1>5, RelayAssumption DEF WriteSome, TypeOK
  <2> QED
    BY <1>1, <1>5, <2>1 DEF WriteSome
<1>6. ASSUME WriteDone \/ WriteFails PROVE Fits' /\ Sent'
  <2>1. /\ relay' = NextDestination(relay.from, relay.to, relay.chunk)
        /\ UNCHANGED sent
    BY <1>6 DEF WriteDone, WriteFails
  <2>2. /\ relay.from \in Peers /\ relay.to \in Peers /\ relay.chunk \in Seq(Unit)
        /\ Targets \subseteq Peers
    BY PeersAreNumbers DEF TypeOK
  <2>3. \/ relay' = Polling
        \/ \E from, to \in Peers : relay' = Writing(from, to, relay.chunk)
    BY <2>1, <2>2, NextTyped
  <2> QED
    BY <1>1, <1>3, <2>1, <2>2, <2>3
<1>7. ASSUME UNCHANGED <<sent, relay>> PROVE Fits' /\ Sent'
  BY <1>1, <1>7
<1> HIDE DEF Fits, Sent
<1>8. Fits' /\ Sent'
  BY <1>2, <1>4, <1>5, <1>6, <1>7
  DEF Next, SessionStep, PeerReceives, PeerFinishes, PeerResets, ResetOnClose, ReadFails,
      KeepaliveCloses, vars
<1> QED
  BY <1>8 DEF WithinBounds, Fits, Sent

LEMMA DestinationStep ==
  ASSUME TypeOK, WritesToDestination, [Next]_vars
  PROVE  WritesToDestination'
<1> USE DEF peerVars
<1>1. ASSUME NEW c \in Peers, ReadSome(c) PROVE WritesToDestination'
  <2>1. PICK n \in 1 .. BufferSize :
       /\ n <= Len(inbound[c])
       /\ relay' = IF c # Client THEN Writing(c, Client, SubSeq(inbound[c], 1, n))
                   ELSE NextDestination(Client, 0, SubSeq(inbound[c], 1, n))
    BY <1>1 DEF ReadSome
  <2>2. n \in 1 .. Len(inbound[c]) /\ inbound[c] \in Seq(Unit)
    BY <2>1, RelayAssumption DEF TypeOK
  <2>3. SubSeq(inbound[c], 1, n) \in Seq(Unit) /\ 0 \in Peers /\ Client \in Peers
    BY <2>2, Cut, PeersAreNumbers DEF Client
  <2>4. closedBy' = Nobody
    BY <1>1 DEF ReadSome
  <2>5. CASE c # Client
    <3>1. c \in Targets /\ relay'.from = c /\ relay'.to = Client
      BY <2>1, <2>5 DEF Writing, Peers
    <3> QED
      BY <2>4, <3>1 DEF WritesToDestination, Sources
  <2>6. CASE c = Client
    <3>1. \/ relay'.at = "poll"
          \/ relay'.from = Client /\ relay'.to \in Targets
      <4> DEFINE chunk == SubSeq(inbound[c], 1, n)
      <4>1. chunk \in Seq(Unit) /\ relay' = NextDestination(Client, 0, chunk)
        BY <2>1, <2>3, <2>6
      <4> HIDE DEF chunk
      <4> QED
        BY <2>3, <4>1, NextTyped DEF Writing
    <3> QED
      BY <2>4, <3>1, PeersAreNumbers DEF WritesToDestination, Sources
  <2> QED
    BY <2>5, <2>6
<1>2. CASE WriteSome
  BY <1>2 DEF WriteSome, WritesToDestination, TypeOK
<1>3. CASE WriteDone \/ WriteFails
  <2>1. /\ relay' = NextDestination(relay.from, relay.to, relay.chunk)
        /\ closedBy' = Nobody
    BY <1>3 DEF WriteDone, WriteFails, WritesToDestination
  <2>2. relay.from \in Peers /\ relay.to \in Peers /\ relay.chunk \in Seq(Unit)
    BY DEF TypeOK
  <2>3. \/ relay'.at = "poll"
        \/ relay'.from = Client /\ relay'.to \in Targets
    BY <2>1, <2>2, NextTyped DEF Writing
  <2> QED
    BY <2>1, <2>3, PeersAreNumbers DEF WritesToDestination, Sources
<1>4. CASE KeepaliveCloses \/ \E c \in Peers : ReadFails(c)
  BY <1>4 DEF KeepaliveCloses, ReadFails, WritesToDestination
<1>5. ASSUME UNCHANGED <<relay, closedBy>> PROVE WritesToDestination'
  BY <1>5 DEF WritesToDestination, Sources
<1> QED
  BY <1>1, <1>2, <1>3, <1>4, <1>5
  DEF Next, SessionStep, PeerSends, PeerReceives, PeerFinishes, PeerResets, ResetOnClose, vars

-----------------------------------------------------------------------------
(* A unit on its way from the proxy.                                       *)

LEMMA MoveUnit ==
  ASSUME NEW S, NEW have \in Seq(S), NEW coming \in Seq(S), coming # <<>>
  PROVE  Append(have, Head(coming)) \o Tail(coming) = have \o coming
<1>1. /\ Head(coming) \in S /\ Tail(coming) \in Seq(S)
      /\ coming = <<Head(coming)>> \o Tail(coming)
      /\ <<Head(coming)>> \in Seq(S)
  <2>1. Len(coming) \in Nat \ {0} /\ Head(coming) = coming[1]
    BY EmptySeq
  <2>2. /\ 1 \in 1 .. Len(coming) /\ Len(coming) \in 1 .. Len(coming) /\ 1 + 1 = 2
    BY <2>1
  <2>3. /\ SubSeq(coming, 1, Len(coming)) = <<coming[1]>> \o SubSeq(coming, 1 + 1, Len(coming))
        /\ SubSeq(coming, 1, Len(coming)) = coming
        /\ Tail(coming) = SubSeq(coming, 2, Len(coming))
    BY <2>2, SubSeqRecursiveFirst, SubSeqFull, TailIsSubSeq
  <2> QED
    BY <2>1, <2>2, <2>3, HeadTailProperties
<1>2. Append(have, Head(coming)) = have \o <<Head(coming)>>
  BY <1>1, AppendIsConcat
<1>3. (have \o <<Head(coming)>>) \o Tail(coming) = have \o (<<Head(coming)>> \o Tail(coming))
  BY <1>1, ConcatAssociative
<1> QED
  BY <1>1, <1>2, <1>3

LEMMA AddUnit ==
  ASSUME NEW S, NEW have \in Seq(S), NEW coming \in Seq(S), NEW unit \in S
  PROVE  have \o Append(coming, unit) = Append(have \o coming, unit)
<1>1. <<unit>> \in Seq(S) /\ have \o coming \in Seq(S)
  BY ConcatProperties
<1>2. /\ Append(coming, unit) = coming \o <<unit>>
      /\ Append(have \o coming, unit) = (have \o coming) \o <<unit>>
  BY <1>1, AppendIsConcat
<1> QED
  BY <1>1, <1>2, ConcatAssociative

-----------------------------------------------------------------------------
(* What a read and the end of a write do.                                  *)

LEMMA AfterRead ==
  ASSUME TypeOK, NEW c \in Peers, ReadSome(c)
  PROVE  \E chunk, rest \in Seq(Unit) :
           /\ chunk \o rest = inbound[c]
           /\ inbound' = [inbound EXCEPT ![c] = rest]
           /\ \/ c \in Targets /\ relay' = Writing(c, Client, chunk)
              \/ c = Client /\ 1 \in Targets /\ relay' = Writing(Client, 1, chunk)
              \/ c = Client /\ Targets = {} /\ relay' = Polling
<1>1. PICK n \in 1 .. BufferSize :
     /\ n <= Len(inbound[c])
     /\ relay' = IF c # Client THEN Writing(c, Client, SubSeq(inbound[c], 1, n))
                 ELSE NextDestination(Client, 0, SubSeq(inbound[c], 1, n))
     /\ inbound' = [inbound EXCEPT ![c] = SubSeq(@, n + 1, Len(@))]
  BY DEF ReadSome
<1>2. n \in 1 .. Len(inbound[c]) /\ inbound[c] \in Seq(Unit)
  BY <1>1, RelayAssumption DEF TypeOK
<1> DEFINE chunk == SubSeq(inbound[c], 1, n)
           rest == SubSeq(inbound[c], n + 1, Len(inbound[c]))
<1>3. chunk \in Seq(Unit) /\ rest \in Seq(Unit) /\ chunk \o rest = inbound[c]
  BY <1>2, Cut
<1>4. /\ relay' = IF c # Client THEN Writing(c, Client, chunk)
                  ELSE NextDestination(Client, 0, chunk)
      /\ inbound' = [inbound EXCEPT ![c] = rest]
  BY <1>1
<1> HIDE DEF chunk, rest
<1>5. \/ c \in Targets /\ relay' = Writing(c, Client, chunk)
      \/ c = Client /\ 1 \in Targets /\ relay' = Writing(Client, 1, chunk)
      \/ c = Client /\ Targets = {} /\ relay' = Polling
  <2>1. CASE c # Client
    BY <1>4, <2>1 DEF Peers
  <2>2. CASE c = Client
    <3>1. 0 \in Peers /\ Client \in Peers /\ 0 + 1 = 1 /\ (TargetCount = 0 => Targets = {})
      BY PeersAreNumbers DEF Client, Targets
    <3> QED
      BY <1>3, <1>4, <2>2, <3>1, NextTyped
  <2> QED
    BY <2>1, <2>2
<1> QED
  BY <1>3, <1>4, <1>5

LEMMA AfterWrite ==
  ASSUME TypeOK, WritesToDestination, WriteDone \/ WriteFails
  PROVE  /\ UNCHANGED <<sent, got, inbound, outbound, peer, closedBy>>
         /\ relay.at = "write"
         /\ \/ /\ relay' = Polling
               /\ (relay.from # Client /\ relay.to = Client) \/ relay.to = TargetCount
            \/ /\ relay' = Writing(Client, relay.to + 1, relay.chunk)
               /\ relay.from = Client /\ relay.to + 1 \in Targets
<1>1. /\ relay' = NextDestination(relay.from, relay.to, relay.chunk)
      /\ UNCHANGED <<sent, got, inbound, outbound, peer, closedBy>>
      /\ relay.at = "write"
  BY DEF WriteDone, WriteFails, peerVars
<1>2. relay.from \in Peers /\ relay.to \in Peers /\ relay.chunk \in Seq(Unit)
  BY DEF TypeOK
<1>3. relay.from # Client => relay.to = Client
  BY <1>1, <1>2 DEF WritesToDestination, Sources
<1> QED
  BY <1>1, <1>2, <1>3, NextTyped

\* A client's data goes to targets, and a target's to the client.
LEMMA Directions ==
  ASSUME NEW d \in Peers, NEW c \in Sources(d)
  PROVE  /\ c \in Peers
         /\ \/ c = Client /\ d \in Targets
            \/ c \in Targets /\ d = Client
BY PeersAreNumbers DEF Sources, Peers

-----------------------------------------------------------------------------
(* Every buffer holds the units of its own sender.                         *)

LEMMA SentByParts ==
  ASSUME NEW S, NEW part \in Seq(S), NEW rest \in Seq(S), NEW senders
  PROVE  SentBy(part \o rest, senders) <=> SentBy(part, senders) /\ SentBy(rest, senders)
<1>1. /\ Len(part \o rest) = Len(part) + Len(rest) /\ Len(part) \in Nat /\ Len(rest) \in Nat
      /\ \A i \in 1 .. Len(part) + Len(rest) :
           (part \o rest)[i] = IF i <= Len(part) THEN part[i] ELSE rest[i - Len(part)]
  BY ConcatProperties
<1> DEFINE whole == part \o rest
<1> HIDE DEF whole
<1>2. SentBy(whole, senders) => SentBy(part, senders) /\ SentBy(rest, senders)
  <2> SUFFICES ASSUME SentBy(whole, senders)
               PROVE  SentBy(part, senders) /\ SentBy(rest, senders)
    OBVIOUS
  <2>1. \A i \in 1 .. Len(part) : whole[i] = part[i] /\ i \in 1 .. Len(whole)
    BY <1>1 DEF whole
  <2>2. \A i \in 1 .. Len(rest) : whole[Len(part) + i] = rest[i] /\ Len(part) + i \in 1 .. Len(whole)
    BY <1>1 DEF whole
  <2> QED
    BY <2>1, <2>2 DEF SentBy
<1>3. SentBy(part, senders) /\ SentBy(rest, senders) => SentBy(whole, senders)
  <2> SUFFICES ASSUME SentBy(part, senders), SentBy(rest, senders), NEW i \in 1 .. Len(whole)
               PROVE  whole[i][1] \in senders
    BY DEF SentBy
  <2>1. CASE i <= Len(part)
    BY <1>1, <2>1 DEF whole, SentBy
  <2>2. CASE i > Len(part)
    <3>1. i - Len(part) \in 1 .. Len(rest) /\ whole[i] = rest[i - Len(part)]
      BY <1>1, <2>2 DEF whole
    <3> QED
      BY <3>1 DEF SentBy
  <2> QED
    BY <1>1, <2>1, <2>2
<1> QED
  BY <1>2, <1>3 DEF whole

LEMMA SentByAppend ==
  ASSUME NEW S, NEW stream \in Seq(S), NEW unit \in S, NEW senders,
         SentBy(stream, senders), unit[1] \in senders
  PROVE  SentBy(Append(stream, unit), senders)
<1>1. /\ Len(Append(stream, unit)) = Len(stream) + 1 /\ Len(stream) \in Nat
      /\ \A i \in 1 .. Len(stream) : Append(stream, unit)[i] = stream[i]
      /\ Append(stream, unit)[Len(stream) + 1] = unit
  BY AppendProperties
<1>2. \A i \in 1 .. Len(stream) + 1 : i \in 1 .. Len(stream) \/ i = Len(stream) + 1
  BY <1>1
<1> QED
  BY <1>1, <1>2 DEF SentBy

LEMMA NothingSent == \A senders : SentBy(<<>>, senders)
BY DEF SentBy

LEMMA ApartStep ==
  ASSUME TypeOK, WithinBounds, WritesToDestination, StreamsApart, [Next]_vars
  PROVE  StreamsApart'
<1> USE DEF peerVars
<1> DEFINE In(c) == SentBy(inbound[c], {c})
           Out(c) == SentBy(got[c] \o outbound[c], Sources(c))
           Chunk == SentBy(relay.chunk, {relay.from})
           Goal == (\A c \in Peers : In(c) /\ Out(c)) /\ Chunk
<1>1. Goal /\ (Goal' <=> StreamsApart')
  BY DEF StreamsApart, Sources
<1>2. ASSUME NEW c \in Peers
      PROVE  got[c] \in Seq(Unit) /\ outbound[c] \in Seq(Unit) /\ inbound[c] \in Seq(Unit)
  BY <1>2 DEF TypeOK
<1>3. ASSUME NEW p \in Peers, PeerSends(p) PROVE Goal'
  <2>1. /\ inbound' = [inbound EXCEPT ![p] = Append(@, <<p, Len(sent[p]) + 1>>)]
        /\ UNCHANGED <<got, outbound, relay>>
    BY <1>3 DEF PeerSends
  <2>2. SentBy(Append(inbound[p], <<p, Len(sent[p]) + 1>>), {p})
    <3> DEFINE unit == <<p, Len(sent[p]) + 1>>
    <3>1. inbound[p] \in Seq(Unit \cup {unit}) /\ unit \in Unit \cup {unit} /\ unit[1] \in {p}
      BY <1>2, SeqMonotonic
    <3> HIDE DEF unit
    <3>2. SentBy(Append(inbound[p], unit), {p})
      BY <1>1, <3>1, SentByAppend
    <3> QED
      BY <3>2 DEF unit
  <2>3. inbound'[p] = Append(inbound[p], <<p, Len(sent[p]) + 1>>)
        /\ \A c \in Peers \ {p} : inbound'[c] = inbound[c]
    BY <2>1 DEF TypeOK
  <2> QED
    BY <1>1, <2>1, <2>2, <2>3
<1>4. ASSUME NEW p \in Peers, PeerReceives(p) PROVE Goal'
  <2>1. got'[p] \o outbound'[p] = got[p] \o outbound[p]
    <3>1. got'[p] = Append(got[p], Head(outbound[p])) /\ outbound'[p] = Tail(outbound[p])
      BY <1>4 DEF PeerReceives, TypeOK
    <3> QED
      BY <1>2, <1>4, <3>1, MoveUnit DEF PeerReceives
  <2>2. /\ \A c \in Peers \ {p} : got'[c] = got[c] /\ outbound'[c] = outbound[c]
        /\ UNCHANGED <<inbound, relay>>
    BY <1>4 DEF PeerReceives, TypeOK
  <2>3. \A c \in Peers : Out(c)'
    BY <1>1, <2>1, <2>2
  <2> QED
    BY <1>1, <2>2, <2>3
<1>5. ASSUME NEW p \in Peers, PeerResets(p) \/ ResetOnClose(p) PROVE Goal'
  <2>1. /\ outbound' = [outbound EXCEPT ![p] = <<>>]
        /\ UNCHANGED <<got, inbound, relay>>
    BY <1>5 DEF PeerResets, ResetOnClose
  <2>2. SentBy(got[p] \o <<>>, Sources(p))
    <3>1. SentBy(got[p], Sources(p))
      BY <1>1, <1>2, SentByParts
    <3> QED
      BY <1>2, <3>1, ConcatEmptySeq
  <2>3. outbound'[p] = <<>> /\ \A c \in Peers \ {p} : outbound'[c] = outbound[c]
    BY <2>1 DEF TypeOK
  <2>4. \A c \in Peers : Out(c)'
    BY <1>1, <2>1, <2>2, <2>3
  <2> QED
    BY <1>1, <2>1, <2>4
<1>6. ASSUME NEW p \in Peers, ReadSome(p) PROVE Goal'
  <2>1. PICK chunk, rest \in Seq(Unit) :
           /\ chunk \o rest = inbound[p]
           /\ inbound' = [inbound EXCEPT ![p] = rest]
           /\ \/ p \in Targets /\ relay' = Writing(p, Client, chunk)
              \/ p = Client /\ 1 \in Targets /\ relay' = Writing(Client, 1, chunk)
              \/ p = Client /\ Targets = {} /\ relay' = Polling
    BY <1>6, AfterRead
  <2>2. SentBy(chunk, {p}) /\ SentBy(rest, {p})
    <3>1. SentBy(chunk \o rest, {p})
      BY <1>1, <2>1
    <3> QED
      BY ONLY <3>1, chunk \in Seq(Unit), rest \in Seq(Unit), SentByParts
  <2>3. Chunk'
    <3>1. \/ relay'.chunk = chunk /\ relay'.from = p
          \/ relay'.chunk = <<>>
      BY <2>1 DEF Writing, Polling
    <3> QED
      BY <2>2, <3>1, NothingSent
  <2>4. inbound'[p] = rest /\ \A c \in Peers \ {p} : inbound'[c] = inbound[c]
    BY <2>1 DEF TypeOK
  <2>5. UNCHANGED <<got, outbound>>
    BY <1>6 DEF ReadSome
  <2>6. \A c \in Peers : In(c)'
    BY <1>1, <2>2, <2>4
  <2> QED
    BY <1>1, <2>3, <2>5, <2>6
<1>7. ASSUME WriteSome PROVE Goal'
  <2>1. relay.done + 1 \in 1 .. Len(relay.chunk)
    <3>1. relay.done \in Nat /\ Len(relay.chunk) \in Nat
      BY RelayAssumption DEF TypeOK
    <3> QED
      BY <1>7, <3>1 DEF WriteSome
  <2>2. PICK d \in Peers, unit \in Unit : d = relay.to /\ unit = relay.chunk[relay.done + 1]
    BY <2>1, ElementOfSeq DEF TypeOK
  <2>3. /\ outbound' = [outbound EXCEPT ![d] = Append(@, unit)]
        /\ UNCHANGED <<got, inbound>> /\ relay'.chunk = relay.chunk /\ relay'.from = relay.from
    BY <1>7, <2>2 DEF WriteSome, TypeOK
  <2>4. unit[1] \in Sources(d)
    <3>1. unit[1] = relay.from
      BY <1>1, <2>1, <2>2 DEF SentBy
    <3> QED
      BY <1>7, <2>2, <3>1 DEF WriteSome, WritesToDestination
  <2>5. SentBy(got[d] \o Append(outbound[d], unit), Sources(d))
    <3>1. got[d] \o outbound[d] \in Seq(Unit) /\ SentBy(got[d] \o outbound[d], Sources(d))
      BY <1>1, <1>2, ConcatProperties
    <3>2. SentBy(Append(got[d] \o outbound[d], unit), Sources(d))
      BY <2>4, <3>1, SentByAppend
    <3>3. got[d] \in Seq(Unit) /\ outbound[d] \in Seq(Unit) /\ unit \in Unit
      BY <1>2
    <3>4. got[d] \o Append(outbound[d], unit) = Append(got[d] \o outbound[d], unit)
      <4>1. \A have, coming \in Seq(Unit) :
              have \o Append(coming, unit) = Append(have \o coming, unit)
        BY AddUnit
      <4> QED
        BY <3>3, <4>1
    <3> QED
      BY <3>2, <3>4, Zenon
  <2>6. outbound'[d] = Append(outbound[d], unit)
        /\ \A c \in Peers \ {d} : outbound'[c] = outbound[c]
    BY <2>3 DEF TypeOK
  <2>7. \A c \in Peers : Out(c)'
    BY <1>1, <2>3, <2>5, <2>6
  <2> QED
    BY <1>1, <2>3, <2>7
<1>8. ASSUME WriteDone \/ WriteFails PROVE Goal'
  <2>1. Chunk'
    <3>1. \/ relay'.chunk = relay.chunk /\ relay'.from = relay.from
          \/ relay'.chunk = <<>>
      BY <1>8, AfterWrite DEF Writing, Polling
    <3> QED
      BY <1>1, <3>1, NothingSent
  <2> QED
    BY <1>1, <1>8, <2>1, AfterWrite
<1>9. ASSUME UNCHANGED <<got, inbound, outbound, relay>> PROVE Goal'
  BY <1>1, <1>9
<1> HIDE DEF Goal
<1>10. Goal'
  BY <1>3, <1>4, <1>5, <1>6, <1>7, <1>8, <1>9
  DEF Next, SessionStep, PeerFinishes, ReadFails, KeepaliveCloses, vars
<1> QED
  BY <1>1, <1>10

-----------------------------------------------------------------------------
(* Nothing is lost.                                                        *)

\* What is held and written is made of units.
LEMMA BuffersTyped ==
  ASSUME TypeOK, WithinBounds, NEW d \in Peers, NEW c \in Sources(d)
  PROVE  /\ c \in Peers /\ got[d] \in Seq(Unit) /\ outbound[d] \in Seq(Unit)
         /\ got[d] \o outbound[d] \in Seq(Unit)
         /\ Written(c, d) \in Seq(Unit) /\ Held(c, d) \in Seq(Unit)
         /\ inbound[c] \in Seq(Unit) /\ sent[c] \in Seq(Unit)
<1>1. /\ c \in Peers /\ got[d] \in Seq(Unit) /\ outbound[d] \in Seq(Unit)
      /\ inbound[c] \in Seq(Unit) /\ sent[c] \in Seq(Unit)
  BY Directions DEF TypeOK
<1>2. got[d] \o outbound[d] \in Seq(Unit)
  BY <1>1, ConcatProperties
<1>3. Written(c, d) \in Seq(Unit)
  BY <1>2, OfSequence DEF Written
<1>4. Held(c, d) \in Seq(Unit)
  <2>1. /\ relay.chunk \in Seq(Unit) /\ Len(relay.chunk) \in Nat /\ relay.done \in Nat
    BY RelayAssumption DEF TypeOK
  <2>2. SubSeq(relay.chunk, relay.done + 1, Len(relay.chunk)) \in Seq(Unit)
    <3>1. /\ relay.done + 1 \in Int /\ Len(relay.chunk) \in Int
          /\ \A i \in relay.done + 1 .. Len(relay.chunk) : relay.chunk[i] \in Unit
      BY <2>1, ElementOfSeq
    <3> QED
      BY <3>1, SubSeqProperties
  <2> QED
    BY <2>1, <2>2, EmptySeq DEF Held
<1> QED
  BY <1>1, <1>2, <1>3, <1>4

\* The rest of a chunk is its next unit and what follows.
LEMMA HeldStarts ==
  ASSUME NEW S, NEW chunk \in Seq(S), NEW done \in Nat, done < Len(chunk)
  PROVE  /\ done + 1 \in 1 .. Len(chunk) /\ chunk[done + 1] \in S
         /\ SubSeq(chunk, done + 1, Len(chunk)) =
              <<chunk[done + 1]>> \o SubSeq(chunk, (done + 1) + 1, Len(chunk))
<1>1. done + 1 \in 1 .. Len(chunk) /\ Len(chunk) \in done + 1 .. Len(chunk)
  OBVIOUS
<1> QED
  BY <1>1, SubSeqRecursiveFirst, ElementOfSeq

\* The end of a write takes nothing from what is held for a destination that has
\* been given the whole chunk, or for the others.
LEMMA HeldAfterWrite ==
  ASSUME TypeOK, WithinBounds, WritesToDestination, WriteDone \/ WriteFails,
         NEW d \in Peers, NEW c \in Sources(d), d # relay.to \/ relay.done = Len(relay.chunk)
  PROVE  Held(c, d)' = Held(c, d)
<1>1. /\ relay.at = "write" /\ relay.chunk \in Seq(Unit) /\ Len(relay.chunk) \in Nat
      /\ relay.done \in Nat /\ relay.to \in Nat /\ d \in 0 .. TargetCount
  <2>1. /\ relay.chunk \in Seq(Unit) /\ relay.done \in 0 .. BufferSize
        /\ relay.to \in 0 .. TargetCount /\ d \in 0 .. TargetCount
    BY PeersAreNumbers DEF TypeOK
  <2>2. relay.at = "write"
    BY AfterWrite
  <2> QED
    BY <2>1, <2>2, RelayAssumption
<1>2. SubSeq(relay.chunk, 0 + 1, Len(relay.chunk)) = relay.chunk
  BY <1>1, SubSeqFull
<1>3. d = relay.to => SubSeq(relay.chunk, relay.done + 1, Len(relay.chunk)) = <<>>
  <2> SUFFICES ASSUME d = relay.to
               PROVE  SubSeq(relay.chunk, relay.done + 1, Len(relay.chunk)) = <<>>
    OBVIOUS
  <2>1. /\ relay.done + 1 \in Int /\ Len(relay.chunk) \in Int
        /\ Len(relay.chunk) < relay.done + 1
    BY <1>1
  <2> QED
    BY <2>1, SubSeqEmpty
<1>4. CASE relay' = Polling
  <2>1. Held(c, d)' = <<>>
    BY <1>4 DEF Held, Polling
  <2>2. c # relay.from \/ relay.to > d \/ d = relay.to
    <3>1. CASE relay.from # Client
      BY <1>1, <1>4, <3>1, AfterWrite, Directions, PeersAreNumbers DEF Client
    <3>2. CASE relay.from = Client
      <4>1. relay.to = TargetCount
        <5>1. relay.from # Client \/ relay.to = TargetCount
          BY <1>4, AfterWrite, PeersAreNumbers, RelayAssumption DEF Writing, Polling
        <5> QED
          BY <3>2, <5>1
      <4> QED
        BY <1>1, <4>1, RelayAssumption
    <3> QED
      BY <3>1, <3>2
  <2>3. Held(c, d) = <<>>
    BY <1>1, <1>3, <2>2, RelayAssumption DEF Held
  <2> QED
    BY <2>1, <2>3
<1>5. CASE relay' = Writing(Client, relay.to + 1, relay.chunk) /\ relay.from = Client
  <2>1. /\ relay'.at = "write" /\ relay'.from = Client /\ relay'.to = relay.to + 1
        /\ relay'.chunk = relay.chunk /\ relay'.done = 0
    BY <1>5 DEF Writing
  <2>2. CASE c # Client
    BY <1>5, <2>1, <2>2 DEF Held
  <2>3. CASE c = Client
    <3>1. CASE relay.to > d
      BY <1>1, <2>1, <3>1 DEF Held
    <3>2. CASE relay.to = d
      <4>1. relay.to + 1 > d
        BY <1>1, <3>2
      <4> QED
        BY <1>1, <1>3, <1>5, <2>1, <2>3, <3>2, <4>1 DEF Held
    <3>3. CASE relay.to < d
      <4>1. Held(c, d) = relay.chunk
        BY <1>1, <1>5, <2>3, <3>3 DEF Held
      <4>2. relay.to + 1 < d \/ relay.to + 1 = d
        BY <1>1, <3>3
      <4>3. Held(c, d)' = relay.chunk
        <5>1. CASE relay.to + 1 < d
          <6>1. ~(relay.to + 1 > d)
            BY <1>1, <5>1
          <6> QED
            BY <2>1, <2>3, <5>1, <6>1 DEF Held
        <5>2. CASE relay.to + 1 = d
          <6>1. ~(relay.to + 1 > d) /\ ~(relay.to + 1 < d)
            BY <1>1, <5>2
          <6>2. Held(c, d)' = SubSeq(relay.chunk, 0 + 1, Len(relay.chunk))
            BY <2>1, <2>3, <6>1 DEF Held
          <6> QED
            BY <1>2, <6>2
        <5> QED
          BY <4>2, <5>1, <5>2
      <4> QED
        BY <4>1, <4>3
    <3> QED
      BY <1>1, <3>1, <3>2, <3>3
  <2> QED
    BY <2>2, <2>3
<1> QED
  BY <1>4, <1>5, AfterWrite

\* What is held for a destination once a chunk has been read.
LEMMA HeldAfterRead ==
  ASSUME TypeOK, NEW p \in Peers, NEW chunk \in Seq(Unit), relay.at = "poll",
         \/ p \in Targets /\ relay' = Writing(p, Client, chunk)
         \/ p = Client /\ 1 \in Targets /\ relay' = Writing(Client, 1, chunk)
         \/ p = Client /\ Targets = {} /\ relay' = Polling,
         NEW d \in Peers, NEW c \in Sources(d)
  PROVE  /\ Held(c, d) = <<>>
         /\ Held(c, d)' = IF c = p THEN chunk ELSE <<>>
<1>1. SubSeq(chunk, 0 + 1, Len(chunk)) = chunk
  BY SubSeqFull
<1>2. Held(c, d) = <<>>
  BY DEF Held
<1>3. CASE c # p
  BY <1>3 DEF Held, Writing, Polling
<1>4. CASE c = p /\ c \in Targets
  <2>1. relay' = Writing(p, Client, chunk) /\ d = Client
    BY <1>4, Directions, PeersAreNumbers
  <2>2. Held(c, d)' = SubSeq(chunk, 0 + 1, Len(chunk))
    BY <1>4, <2>1, PeersAreNumbers DEF Held, Writing, Client
  <2> QED
    BY <1>1, <1>2, <1>4, <2>2
<1>5. CASE c = p /\ c = Client
  <2>1. relay' = Writing(Client, 1, chunk) /\ d \in Targets
    BY <1>5, Directions, PeersAreNumbers
  <2>2. d \in Nat /\ (d = 1 \/ 1 < d) /\ ~(1 > d)
    BY <2>1 DEF Targets
  <2>3. Held(c, d)' = IF 1 < d THEN chunk ELSE SubSeq(chunk, 0 + 1, Len(chunk))
    BY <1>5, <2>1, <2>2 DEF Held, Writing
  <2> QED
    BY <1>1, <1>2, <1>5, <2>3
<1> QED
  BY <1>2, <1>3, <1>4, <1>5, Directions

\* A unit written extends what its destination has been sent of the sender.
LEMMA AfterUnit ==
  ASSUME TypeOK, WithinBounds, WritesToDestination, StreamsApart, WriteSome,
         NEW d \in Peers, NEW c \in Sources(d)
  PROVE  Written(c, d)' \o Held(c, d)' = Written(c, d) \o Held(c, d)
<1>1. relay.done \in Nat /\ relay.chunk \in Seq(Unit) /\ relay.done < Len(relay.chunk)
  BY RelayAssumption DEF TypeOK, WriteSome
<1>2. /\ relay.done + 1 \in 1 .. Len(relay.chunk)
      /\ SubSeq(relay.chunk, relay.done + 1, Len(relay.chunk)) =
           <<relay.chunk[relay.done + 1]>>
             \o SubSeq(relay.chunk, (relay.done + 1) + 1, Len(relay.chunk))
  BY <1>1, HeldStarts
<1>3. PICK unit \in Unit : unit = relay.chunk[relay.done + 1] /\ unit[1] = relay.from
  BY <1>1, <1>2, HeldStarts DEF StreamsApart, SentBy
<1>4. /\ outbound' = [outbound EXCEPT ![relay.to] = Append(@, unit)] /\ UNCHANGED got
      /\ relay'.at = "write" /\ relay'.from = relay.from /\ relay'.to = relay.to
      /\ relay'.chunk = relay.chunk /\ relay'.done = relay.done + 1 /\ relay.at = "write"
  BY <1>3 DEF WriteSome, TypeOK, peerVars
<1>5. /\ got[d] \in Seq(Unit) /\ outbound[d] \in Seq(Unit) /\ got[d] \o outbound[d] \in Seq(Unit)
      /\ Written(c, d) \in Seq(Unit) /\ Held(c, d) \in Seq(Unit)
  BY BuffersTyped
<1>6. CASE d # relay.to
  <2>1. outbound'[d] = outbound[d]
    BY <1>4, <1>6 DEF TypeOK
  <2>2. Written(c, d)' = Written(c, d)
    BY <1>4, <2>1 DEF Written
  <2>3. Held(c, d)' = Held(c, d)
    <3>1. relay.to > d \/ relay.to < d
      BY <1>6, PeersAreNumbers, RelayAssumption DEF TypeOK
    <3> QED
      BY <1>4, <3>1 DEF Held
  <2> QED
    BY <2>2, <2>3
<1>7. CASE d = relay.to
  <2>1. outbound'[d] = Append(outbound[d], unit)
    BY <1>4, <1>7 DEF TypeOK
  <2>2. Written(c, d)' = IF unit[1] = c THEN Append(Written(c, d), unit) ELSE Written(c, d)
    <3>1. got[d] \o Append(outbound[d], unit) = Append(got[d] \o outbound[d], unit)
      <4>1. \A have, coming \in Seq(Unit) :
              have \o Append(coming, unit) = Append(have \o coming, unit)
        BY AddUnit
      <4> QED
        BY <1>5, <4>1
    <3>2. Written(c, d)' = Of(Append(got[d] \o outbound[d], unit), c)
      BY <1>4, <2>1, <3>1 DEF Written
    <3>3. \A stream \in Seq(Unit) :
            Of(Append(stream, unit), c) =
              IF unit[1] = c THEN Append(Of(stream, c), unit) ELSE Of(stream, c)
      BY OfAppend
    <3> QED
      BY <1>5, <3>2, <3>3 DEF Written
  <2>3. CASE c # relay.from
    <3>1. Held(c, d) = <<>> /\ Held(c, d)' = <<>>
      BY <1>4, <2>3 DEF Held
    <3> QED
      BY <1>3, <2>2, <2>3, <3>1
  <2>4. CASE c = relay.from
    <3> DEFINE rest == SubSeq(relay.chunk, (relay.done + 1) + 1, Len(relay.chunk))
    <3>1. ~(relay.to > d) /\ ~(relay.to < d)
      <4>1. relay.to \in Int
        BY PeersAreNumbers, RelayAssumption DEF TypeOK
      <4> QED
        BY <1>7, <4>1
    <3>2. Held(c, d)' = rest
      BY <1>4, <2>4, <3>1 DEF Held
    <3>3. Held(c, d) = <<unit>> \o rest
      BY <1>2, <1>3, <1>4, <2>4, <3>1 DEF Held
    <3>4. rest \in Seq(Unit) /\ <<unit>> \in Seq(Unit)
      <4>1. /\ (relay.done + 1) + 1 \in Int /\ Len(relay.chunk) \in Int
            /\ \A i \in (relay.done + 1) + 1 .. Len(relay.chunk) : relay.chunk[i] \in Unit
        BY <1>1, ElementOfSeq
      <4> QED
        BY <4>1, SubSeqProperties
    <3> HIDE DEF rest
    <3>5. Written(c, d)' = Written(c, d) \o <<unit>>
      BY <1>3, <1>5, <2>2, <2>4, AppendIsConcat
    <3>6. (Written(c, d) \o <<unit>>) \o rest = Written(c, d) \o (<<unit>> \o rest)
      BY <1>5, <3>4, ConcatAssociative
    <3> QED
      BY <3>2, <3>3, <3>5, <3>6
  <2> QED
    BY <2>3, <2>4
<1> QED
  BY <1>6, <1>7

\* A unit received was already written.
LEMMA AfterReceive ==
  ASSUME TypeOK, NEW p \in Peers, PeerReceives(p), NEW d \in Peers, NEW c \in Sources(d)
  PROVE  Written(c, d)' = Written(c, d)
<1>1. CASE d # p
  BY <1>1 DEF PeerReceives, TypeOK, Written
<1>2. CASE d = p
  <2>1. /\ got'[d] = Append(got[d], Head(outbound[d])) /\ outbound'[d] = Tail(outbound[d])
        /\ got[d] \in Seq(Unit) /\ outbound[d] \in Seq(Unit) /\ outbound[d] # <<>>
    BY <1>2 DEF PeerReceives, TypeOK
  <2>2. got'[d] \o outbound'[d] = got[d] \o outbound[d]
    BY <2>1, MoveUnit
  <2> QED
    BY <2>2 DEF Written
<1> QED
  BY <1>1, <1>2

LEMMA Regroup ==
  ASSUME NEW first \in Seq(Unit), NEW second \in Seq(Unit), NEW third \in Seq(Unit)
  PROVE  (first \o second) \o third = first \o (second \o third)
BY ConcatAssociative

LEMMA NothingLostStep ==
  ASSUME TypeOK, WithinBounds, WritesToDestination, StreamsApart, NothingLost, [Next]_vars
  PROVE  NothingLost'
<1> USE DEF peerVars
<1>1. SUFFICES ASSUME closedBy' = Nobody, NEW d \in Peers, NEW c \in Sources(d), peer'[d] # "gone"
               PROVE  Written(c, d)' \o Held(c, d)' \o inbound'[c] = sent'[c]
  BY DEF NothingLost, Sources
<1>2. closedBy = Nobody /\ peer[d] # "gone"
  <2>1. Nobody \notin Peers /\ Nobody # Keepalive
    BY PeersAreNumbers, RelayAssumption DEF Nobody, Keepalive
  <2> QED
    BY <1>1, <2>1
    DEF Next, SessionStep, WriteSome, WriteDone, WriteFails, KeepaliveCloses, PeerSends,
        PeerReceives, PeerFinishes, PeerResets, ResetOnClose, ReadSome, ReadFails, vars, TypeOK
<1>3. /\ Written(c, d) \o Held(c, d) \o inbound[c] = sent[c] /\ c \in Peers
      /\ Written(c, d) \in Seq(Unit) /\ Held(c, d) \in Seq(Unit)
      /\ inbound[c] \in Seq(Unit) /\ sent[c] \in Seq(Unit)
  BY <1>2, BuffersTyped DEF NothingLost
<1> DEFINE Goal == Written(c, d)' \o Held(c, d)' \o inbound'[c] = sent'[c]
<1>4. ASSUME NEW p \in Peers, PeerSends(p) PROVE Goal
  <2>1. Written(c, d)' = Written(c, d) /\ Held(c, d)' = Held(c, d)
    BY <1>4 DEF PeerSends, Written, Held
  <2>2. CASE c # p
    <3>1. inbound'[c] = inbound[c] /\ sent'[c] = sent[c]
      BY <1>3, <1>4, <2>2 DEF PeerSends, TypeOK
    <3> QED
      BY <1>3, <2>1, <3>1
  <2>3. CASE c = p
    <3> DEFINE unit == <<p, Len(sent[p]) + 1>>
               All == Unit \cup {unit}
    <3>1. sent'[c] = Append(sent[c], unit) /\ inbound'[c] = Append(inbound[c], unit)
      BY <1>3, <1>4, <2>3 DEF PeerSends, TypeOK
    <3>2. /\ Written(c, d) \o Held(c, d) \in Seq(Unit) /\ unit \in All /\ Unit \subseteq All
      BY <1>3, ConcatProperties
    <3> HIDE DEF unit, All
    <3>3. Written(c, d) \o Held(c, d) \in Seq(All) /\ inbound[c] \in Seq(All)
      BY <1>3, <3>2, SeqMonotonic
    <3>4. \A have, coming \in Seq(All) :
            have \o Append(coming, unit) = Append(have \o coming, unit)
      BY <3>2, AddUnit
    <3>5. (Written(c, d) \o Held(c, d)) \o Append(inbound[c], unit)
            = Append((Written(c, d) \o Held(c, d)) \o inbound[c], unit)
      BY <3>3, <3>4
    <3> QED
      BY <1>3, <2>1, <3>1, <3>5
  <2> QED
    BY <2>2, <2>3
<1>5. ASSUME NEW p \in Peers, PeerReceives(p) PROVE Goal
  <2>1. Held(c, d)' = Held(c, d) /\ inbound' = inbound /\ sent' = sent
    BY <1>5 DEF PeerReceives, Held
  <2> QED
    BY <1>3, <1>5, <2>1, AfterReceive
<1>6. ASSUME NEW p \in Peers, PeerFinishes(p) PROVE Goal
  BY <1>3, <1>6 DEF PeerFinishes, Held, Written
<1>7. ASSUME NEW p \in Peers, PeerResets(p) PROVE Goal
  <2>1. p # d
    BY <1>1, <1>7 DEF PeerResets, TypeOK
  <2>2. outbound'[d] = outbound[d] /\ UNCHANGED <<got, inbound, sent, relay>>
    BY <1>7, <2>1 DEF PeerResets, TypeOK
  <2> QED
    BY <1>3, <2>2 DEF Held, Written
<1>8. ASSUME NEW p \in Peers, ResetOnClose(p) PROVE Goal
  BY <1>2, <1>8 DEF ResetOnClose
<1>9. ASSUME NEW p \in Peers, ReadSome(p) PROVE Goal
  <2>1. PICK chunk, rest \in Seq(Unit) :
           /\ chunk \o rest = inbound[p]
           /\ inbound' = [inbound EXCEPT ![p] = rest]
           /\ \/ p \in Targets /\ relay' = Writing(p, Client, chunk)
              \/ p = Client /\ 1 \in Targets /\ relay' = Writing(Client, 1, chunk)
              \/ p = Client /\ Targets = {} /\ relay' = Polling
    BY <1>9, AfterRead
  <2>2. relay.at = "poll" /\ UNCHANGED <<sent, got, outbound>>
    BY <1>9 DEF ReadSome
  <2>3. Held(c, d) = <<>> /\ Held(c, d)' = IF c = p THEN chunk ELSE <<>>
    BY <2>1, <2>2, HeldAfterRead
  <2>4. Written(c, d)' = Written(c, d)
    BY <2>2 DEF Written
  <2>5. CASE c # p
    <3>1. inbound'[c] = inbound[c]
      BY <1>3, <2>1, <2>5 DEF TypeOK
    <3> QED
      BY <1>3, <2>2, <2>3, <2>4, <2>5, <3>1
  <2>6. CASE c = p
    <3>1. inbound'[c] = rest
      BY <1>3, <2>1, <2>6 DEF TypeOK
    <3>2. Written(c, d) \o <<>> = Written(c, d)
      BY <1>3, ConcatEmptySeq
    <3>3. (Written(c, d) \o chunk) \o rest = Written(c, d) \o (chunk \o rest)
      <4>1. PICK first \in Seq(Unit) : first = Written(c, d)
        BY <1>3
      <4>2. (first \o chunk) \o rest = first \o (chunk \o rest)
        BY Regroup, Zenon
      <4> QED
        BY <4>1, <4>2, Zenon
    <3> QED
      BY <1>3, <2>1, <2>2, <2>3, <2>4, <2>6, <3>1, <3>2, <3>3
  <2> QED
    BY <2>5, <2>6
<1>10. ASSUME NEW p \in Peers, ReadFails(p) PROVE Goal
  <2>1. Nobody \notin Peers
    BY PeersAreNumbers, RelayAssumption DEF Nobody
  <2> QED
    BY <1>1, <1>10, <2>1 DEF ReadFails
<1>11. ASSUME WriteSome PROVE Goal
  <2>1. UNCHANGED <<inbound, sent>>
    BY <1>11 DEF WriteSome
  <2> QED
    BY <1>3, <1>11, <2>1, AfterUnit
<1>12. ASSUME WriteDone \/ WriteFails PROVE Goal
  <2>1. UNCHANGED <<got, outbound, inbound, sent>>
    BY <1>12, AfterWrite
  <2>2. d # relay.to \/ relay.done = Len(relay.chunk)
    BY <1>2, <1>12 DEF WriteDone, WriteFails
  <2>3. Held(c, d)' = Held(c, d)
    BY <1>12, <2>2, HeldAfterWrite
  <2> QED
    BY <1>3, <2>1, <2>3 DEF Written
<1>13. ASSUME KeepaliveCloses PROVE Goal
  BY <1>1, <1>13 DEF KeepaliveCloses, Keepalive, Nobody
<1>14. ASSUME UNCHANGED vars PROVE Goal
  BY <1>3, <1>14 DEF vars, Written, Held
<1> HIDE DEF Goal
<1>15. Goal
  BY <1>4, <1>5, <1>6, <1>7, <1>8, <1>9, <1>10, <1>11, <1>12, <1>13, <1>14 DEF Next, SessionStep
<1> QED
  BY <1>15 DEF Goal

-----------------------------------------------------------------------------
(* The packets counted.                                                    *)

\* The packet being written to target i, if there is one.
BeingWritten(i) == IF relay.at = "write" /\ relay.from = Client /\ relay.to <= i THEN 1 ELSE 0

LEMMA BalanceStep ==
  ASSUME TypeOK, WritesToDestination, PacketsBalance, [Next]_vars
  PROVE  PacketsBalance'
<1> USE DEF peerVars
<1>1. SUFFICES ASSUME NEW i \in Targets, peer'[i] # "gone"
               PROVE  packets'.read[Client] - packets'.written[i] = BeingWritten(i)'
  BY DEF PacketsBalance, BeingWritten
<1>2. i \in Peers /\ i # Client /\ Client \in Peers /\ i \in 1 .. TargetCount /\ i \in Nat
  BY PeersAreNumbers, RelayAssumption DEF Targets
<1>3. peer[i] # "gone"
  BY <1>1, <1>2
  DEF Next, SessionStep, WriteSome, WriteDone, WriteFails, KeepaliveCloses, PeerSends,
      PeerReceives, PeerFinishes, PeerResets, ResetOnClose, ReadSome, ReadFails, vars, TypeOK
<1>4. /\ packets.read[Client] - packets.written[i] = BeingWritten(i)
      /\ packets.read[Client] \in Nat /\ packets.written[i] \in Nat
  BY <1>2, <1>3 DEF PacketsBalance, BeingWritten, TypeOK
<1> DEFINE Goal == packets'.read[Client] - packets'.written[i] = BeingWritten(i)'
<1>5. ASSUME NEW p \in Peers, ReadSome(p) PROVE Goal
  <2>1. PICK chunk \in Seq(Unit) :
           \/ p \in Targets /\ relay' = Writing(p, Client, chunk)
           \/ p = Client /\ 1 \in Targets /\ relay' = Writing(Client, 1, chunk)
           \/ p = Client /\ Targets = {} /\ relay' = Polling
    BY <1>5, AfterRead
  <2>2. /\ packets' = [packets EXCEPT !.read[p] = @ + 1]
        /\ BeingWritten(i) = 0
    BY <1>5 DEF ReadSome, BeingWritten
  <2>3. packets'.written[i] = packets.written[i]
        /\ packets'.read[Client] =
             IF p = Client THEN packets.read[Client] + 1 ELSE packets.read[Client]
    BY <1>2, <2>2 DEF TypeOK
  <2>4. CASE p = Client
    <3>1. BeingWritten(i)' = 1
      BY <1>2, <2>1, <2>4, PeersAreNumbers DEF BeingWritten, Writing
    <3> QED
      BY <1>4, <2>2, <2>3, <2>4, <3>1
  <2>5. CASE p # Client
    <3>1. BeingWritten(i)' = 0
      BY <2>1, <2>5 DEF BeingWritten, Writing
    <3> QED
      BY <1>4, <2>2, <2>3, <2>5, <3>1
  <2> QED
    BY <2>4, <2>5
<1>6. ASSUME WriteSome PROVE Goal
  <2>1. /\ UNCHANGED packets /\ relay'.at = relay.at
        /\ relay'.from = relay.from /\ relay'.to = relay.to
    BY <1>6 DEF WriteSome, TypeOK
  <2> QED
    BY <1>4, <2>1 DEF BeingWritten
<1>7. ASSUME WriteDone \/ WriteFails PROVE Goal
  <2>1. /\ relay.at = "write" /\ relay.to \in Nat /\ relay.to <= TargetCount
        /\ relay.from # Client => relay.to # i
    <3>1. relay.to \in 0 .. TargetCount
      BY PeersAreNumbers DEF TypeOK
    <3>2. relay.at = "write"
      BY <1>7, AfterWrite
    <3>3. relay.from # Client => relay.to = Client
      BY <3>1, <3>2 DEF WritesToDestination, Sources
    <3> QED
      BY <1>2, <3>1, <3>2, <3>3, RelayAssumption
  <2>2. BeingWritten(i)' = IF relay.to = i THEN 0 ELSE BeingWritten(i)
    <3>1. CASE relay' = Polling
      <4>1. BeingWritten(i)' = 0
        BY <3>1 DEF BeingWritten, Polling
      <4>2. relay.from # Client \/ relay.to = TargetCount
        BY <1>7, <3>1, AfterWrite DEF Writing, Polling
      <4>3. relay.to = i \/ BeingWritten(i) = 0
        BY <1>2, <2>1, <4>2, RelayAssumption DEF BeingWritten
      <4> QED
        BY <4>1, <4>3
    <3>2. CASE relay' = Writing(Client, relay.to + 1, relay.chunk) /\ relay.from = Client
      <4>1. BeingWritten(i)' = IF relay.to + 1 <= i THEN 1 ELSE 0
        BY <3>2 DEF BeingWritten, Writing
      <4>2. BeingWritten(i) = IF relay.to <= i THEN 1 ELSE 0
        BY <2>1, <3>2 DEF BeingWritten
      <4> QED
        BY <1>2, <2>1, <4>1, <4>2
    <3> QED
      BY <1>7, <3>1, <3>2, AfterWrite
  <2>3. CASE relay.to # i
    <3>1. packets'.read[Client] = packets.read[Client] /\ packets'.written[i] = packets.written[i]
      BY <1>2, <1>7, <2>3 DEF WriteDone, WriteFails, TypeOK
    <3> QED
      BY <1>4, <2>2, <2>3, <3>1
  <2>4. CASE relay.to = i
    <3>1. WriteDone /\ relay.from = Client
      BY <1>3, <1>7, <2>1, <2>4 DEF WriteFails
    <3>2. /\ packets'.read[Client] = packets.read[Client]
          /\ packets'.written[i] = packets.written[i] + 1
      BY <1>2, <2>4, <3>1 DEF WriteDone, TypeOK
    <3>3. BeingWritten(i) = 1
      BY <1>2, <2>1, <2>4, <3>1 DEF BeingWritten
    <3> QED
      BY <1>4, <2>2, <2>4, <3>2, <3>3
  <2> QED
    BY <2>3, <2>4
<1>8. ASSUME UNCHANGED <<relay, packets>> PROVE Goal
  BY <1>4, <1>8 DEF BeingWritten
<1> HIDE DEF Goal
<1>9. Goal
  BY <1>5, <1>6, <1>7, <1>8
  DEF Next, SessionStep, KeepaliveCloses, PeerSends, PeerReceives, PeerFinishes, PeerResets,
      ResetOnClose, ReadFails, vars
<1> QED
  BY <1>9 DEF Goal

-----------------------------------------------------------------------------
(* What is written is what the stream began with.                          *)

LEMMA BeginsWithPart ==
  ASSUME NEW S, NEW part \in Seq(S), NEW rest \in Seq(S)
  PROVE  BeginsWith(part \o rest, part)
BY ConcatProperties DEF BeginsWith

LEMMA BeginsWithAppend ==
  ASSUME NEW S, NEW stream \in Seq(S), NEW part \in Seq(S), NEW unit \in S,
         BeginsWith(stream, part)
  PROVE  BeginsWith(Append(stream, unit), part)
<1>1. /\ Len(Append(stream, unit)) = Len(stream) + 1
      /\ \A i \in 1 .. Len(stream) : Append(stream, unit)[i] = stream[i]
      /\ Len(stream) \in Nat /\ Len(part) \in Nat /\ Len(part) <= Len(stream)
  BY AppendProperties DEF BeginsWith
<1>2. \A i \in 1 .. Len(part) : i \in 1 .. Len(stream)
  BY <1>1
<1> QED
  BY <1>1, <1>2 DEF BeginsWith

LEMMA BeginsWithBegins ==
  ASSUME NEW S, NEW stream \in Seq(S), NEW part \in Seq(S), NEW start \in Seq(S),
         BeginsWith(stream, part), BeginsWith(part, start)
  PROVE  BeginsWith(stream, start)
<1>1. Len(stream) \in Nat /\ Len(part) \in Nat /\ Len(start) \in Nat
  OBVIOUS
<1>2. \A i \in 1 .. Len(start) : i \in 1 .. Len(part)
  BY <1>1 DEF BeginsWith
<1> QED
  BY <1>1, <1>2 DEF BeginsWith

LEMMA InOrderStep ==
  ASSUME TypeOK, TypeOK', WithinBounds, WritesToDestination, StreamsApart,
         NothingLost', WrittenInOrder, [Next]_vars
  PROVE  WrittenInOrder'
<1> USE DEF peerVars
<1>1. SUFFICES ASSUME NEW d \in Peers, NEW c \in Sources(d)
               PROVE  BeginsWith(sent'[c], Written(c, d)')
  BY DEF WrittenInOrder, Sources
<1>2. /\ BeginsWith(sent[c], Written(c, d)) /\ c \in Peers
      /\ Written(c, d) \in Seq(Unit) /\ sent[c] \in Seq(Unit)
      /\ got[d] \in Seq(Unit) /\ outbound[d] \in Seq(Unit)
  BY BuffersTyped DEF WrittenInOrder
<1> DEFINE Goal == BeginsWith(sent'[c], Written(c, d)')
<1>3. ASSUME NEW p \in Peers, PeerSends(p) PROVE Goal
  <2>1. Written(c, d)' = Written(c, d)
    BY <1>3 DEF PeerSends, Written
  <2>2. CASE c # p
    <3>1. sent'[c] = sent[c]
      BY <1>2, <1>3, <2>2 DEF PeerSends, TypeOK
    <3> QED
      BY <1>2, <2>1, <3>1
  <2>3. CASE c = p
    <3> DEFINE unit == <<p, Len(sent[p]) + 1>>
               All == Unit \cup {unit}
    <3>1. sent'[c] = Append(sent[c], unit)
      BY <1>2, <1>3, <2>3 DEF PeerSends, TypeOK
    <3>2. unit \in All /\ Unit \subseteq All
      OBVIOUS
    <3> HIDE DEF unit, All
    <3>3. sent[c] \in Seq(All) /\ Written(c, d) \in Seq(All)
      BY <1>2, <3>2, SeqMonotonic
    <3>4. BeginsWith(Append(sent[c], unit), Written(c, d))
      BY <1>2, <3>2, <3>3, BeginsWithAppend
    <3> QED
      BY <2>1, <3>1, <3>4
  <2> QED
    BY <2>2, <2>3
<1>4. ASSUME NEW p \in Peers, PeerReceives(p) PROVE Goal
  <2>1. sent' = sent
    BY <1>4 DEF PeerReceives
  <2> QED
    BY <1>2, <1>4, <2>1, AfterReceive
<1>5. ASSUME NEW p \in Peers, PeerResets(p) \/ ResetOnClose(p) PROVE Goal
  <2>1. outbound' = [outbound EXCEPT ![p] = <<>>] /\ UNCHANGED <<sent, got>>
    BY <1>5 DEF PeerResets, ResetOnClose
  <2>2. CASE d # p
    BY <1>2, <2>1, <2>2 DEF Written, TypeOK
  <2>3. CASE d = p
    <3>1. outbound'[d] = <<>> /\ got[d] \o <<>> = got[d]
      BY <1>2, <2>1, <2>3, ConcatEmptySeq DEF TypeOK
    <3>2. Written(c, d)' = Of(got[d], c)
      BY <2>1, <3>1 DEF Written
    <3>3. BeginsWith(Written(c, d), Of(got[d], c)) /\ Of(got[d], c) \in Seq(Unit)
      BY <1>2, OfPart, OfSequence DEF Written
    <3> QED
      BY <1>2, <2>1, <3>2, <3>3, BeginsWithBegins
  <2> QED
    BY <2>2, <2>3
<1>6. ASSUME WriteSome PROVE Goal
  <2>1. /\ UNCHANGED <<sent, got, peer, closedBy>> /\ closedBy = Nobody
        /\ peer[relay.to] # "gone"
        /\ outbound' = [outbound EXCEPT ![relay.to] =
                          Append(@, relay.chunk[relay.done + 1])]
    BY <1>6 DEF WriteSome, WritesToDestination
  <2>2. CASE d = relay.to
    <3>1. Written(c, d)' \o Held(c, d)' \o inbound'[c] = sent'[c]
      BY <2>1, <2>2 DEF NothingLost, Sources
    <3>2. /\ Written(c, d)' \in Seq(Unit) /\ Held(c, d)' \in Seq(Unit)
          /\ inbound'[c] \in Seq(Unit) /\ Held(c, d)' \o inbound'[c] \in Seq(Unit)
      <4>1. /\ got'[d] \in Seq(Unit) /\ outbound'[d] \in Seq(Unit)
            /\ inbound'[c] \in Seq(Unit)
            /\ relay'.chunk \in Seq(Unit) /\ relay'.done \in 0 .. BufferSize
        BY <1>2 DEF TypeOK
      <4>2. Written(c, d)' \in Seq(Unit)
        BY <4>1, ConcatProperties, OfSequence DEF Written
      <4>3. SubSeq(relay'.chunk, relay'.done + 1, Len(relay'.chunk)) \in Seq(Unit)
        <5>1. /\ relay'.done + 1 \in Int /\ Len(relay'.chunk) \in Int
              /\ \A i \in relay'.done + 1 .. Len(relay'.chunk) : relay'.chunk[i] \in Unit
          BY <4>1, RelayAssumption, ElementOfSeq
        <5> QED
          BY <5>1, SubSeqProperties
      <4>4. Held(c, d)' \in Seq(Unit)
        BY <4>1, <4>3, EmptySeq DEF Held
      <4> QED
        BY <4>1, <4>2, <4>4, ConcatProperties
    <3>3. (Written(c, d)' \o Held(c, d)') \o inbound'[c]
            = Written(c, d)' \o (Held(c, d)' \o inbound'[c])
      <4>1. \A s, t, u \in Seq(Unit) : (s \o t) \o u = s \o (t \o u)
        BY ConcatAssociative
      <4> QED
        BY <3>2, <4>1
    <3> QED
      BY <3>1, <3>2, <3>3, BeginsWithPart
  <2>3. CASE d # relay.to
    <3>1. outbound'[d] = outbound[d]
      BY <2>1, <2>3 DEF TypeOK
    <3> QED
      BY <1>2, <2>1, <3>1 DEF Written
  <2> QED
    BY <2>2, <2>3
<1>7. ASSUME WriteDone \/ WriteFails PROVE Goal
  BY <1>2, <1>7, AfterWrite DEF Written
<1>8. ASSUME UNCHANGED <<sent, got, outbound>> PROVE Goal
  BY <1>2, <1>8 DEF Written
<1> HIDE DEF Goal
<1>9. Goal
  BY <1>3, <1>4, <1>5, <1>6, <1>7, <1>8
  DEF Next, SessionStep, KeepaliveCloses, PeerFinishes, ReadSome, ReadFails, vars
<1> QED
  BY <1>9 DEF Goal

-----------------------------------------------------------------------------
(* The theorems.                                                           *)

LEMMA InitRelay == Init => RelayInv
<1> SUFFICES ASSUME Init PROVE RelayInv
  OBVIOUS
<1>1. /\ <<>> \in Seq(Unit) /\ <<>> \o <<>> = <<>> /\ Len(<<>>) = 0
      /\ BufferSize \in Nat /\ \A c : MaxSend(c) \in Nat
  BY RelayAssumption, EmptySeq DEF MaxSend
<1>2. TypeOK
  <2>1. relay \in Relay
    BY PollingTyped DEF Init
  <2>2. packets \in Counters
    BY DEF Init, Counters
  <2> QED
    BY <1>1, <2>1, <2>2 DEF Init, TypeOK, Relay, Counters, Nobody
<1>3. WithinBounds
  BY <1>1 DEF Init, WithinBounds, Polling
<1>4. WritesToDestination
  BY DEF Init, WritesToDestination, Polling
<1>5. StreamsApart
  BY <1>1, NothingSent DEF Init, StreamsApart, Polling
<1>6. \A d \in Peers : \A c \in Sources(d) : Written(c, d) = <<>> /\ sent[c] = <<>>
  <2> SUFFICES ASSUME NEW d \in Peers, NEW c \in Sources(d)
               PROVE  Written(c, d) = <<>> /\ sent[c] = <<>>
    OBVIOUS
  <2>1. got[d] = <<>> /\ outbound[d] = <<>> /\ sent[c] = <<>>
    BY Directions DEF Init
  <2>2. Of(<<>>, c) \in Seq(Unit) /\ Len(Of(<<>>, c)) = 0
    <3>1. PICK nothing \in Seq(Unit) : nothing = <<>> /\ Len(nothing) = 0
      BY <1>1
    <3>2. Of(nothing, c) \in Seq(Unit) /\ Len(Of(nothing, c)) = Count(nothing, c, 0)
      BY <3>1, OfSequence
    <3> QED
      BY <3>1, <3>2, CountNone
  <2> QED
    BY <1>1, <2>1, <2>2, EmptySeq DEF Written
<1>7. NothingLost
  <2> SUFFICES ASSUME NEW d \in Peers, NEW c \in Sources(d)
               PROVE  Written(c, d) \o Held(c, d) \o inbound[c] = sent[c]
    BY DEF NothingLost
  <2>1. Held(c, d) = <<>> /\ inbound[c] = <<>>
    BY Directions DEF Init, Held, Polling
  <2> QED
    BY <1>1, <1>6, <2>1
<1>8. PacketsBalance
  BY PeersAreNumbers DEF Init, PacketsBalance, Polling
<1>9. WrittenInOrder
  BY <1>1, <1>6 DEF WrittenInOrder, BeginsWith
<1> QED
  BY <1>2, <1>3, <1>4, <1>5, <1>7, <1>8, <1>9 DEF RelayInv

LEMMA RelayInvariant == Spec => []RelayInv
<1>1. RelayInv /\ [Next]_vars => RelayInv'
  BY TypeStep, LengthsStep, DestinationStep, ApartStep, NothingLostStep, BalanceStep, InOrderStep
  DEF RelayInv
<1> QED
  BY <1>1, InitRelay, PTL DEF Spec

\* The types, and with them that a read never brings more than the buffer holds and
\* the session only names peers it has.
THEOREM RelayTypeCorrect == Spec => []TypeOK
<1>1. RelayInv => TypeOK
  BY DEF RelayInv
<1> QED
  BY <1>1, RelayInvariant, PTL

\* While the session is open, what was written, held and unread of a stream is the
\* stream, for every destination whose connection holds.
THEOREM NothingIsLost == Spec => []NothingLost
<1>1. RelayInv => NothingLost
  BY DEF RelayInv
<1> QED
  BY <1>1, RelayInvariant, PTL

\* Every target whose connection holds is sent every packet read from the client.
THEOREM PacketsAreBalanced == Spec => []PacketsBalance
<1>1. RelayInv => PacketsBalance
  BY DEF RelayInv
<1> QED
  BY <1>1, RelayInvariant, PTL

\* A session is not closed for a peer whose data has not all been passed on.
THEOREM ClosesDrained == Spec => CloseDrains
<1> DEFINE Drained ==
      \A c \in Peers : closedBy' = c /\ closedBy = Nobody =>
        \A d \in Peers : c \in Sources(d) /\ peer[d] # "gone" => Written(c, d) = sent[c]
<1>1. RelayInv /\ [Next]_vars => [Drained]_vars
  <2> SUFFICES ASSUME RelayInv, Next, NEW c \in Peers, closedBy' = c, closedBy = Nobody,
                      NEW d \in Peers, c \in Sources(d), peer[d] # "gone"
               PROVE  Written(c, d) = sent[c]
    OBVIOUS
  <2>1. Nobody \notin Peers /\ Keepalive \notin Peers
    BY PeersAreNumbers, RelayAssumption DEF Nobody, Keepalive
  <2>2. ReadFails(c)
    BY <2>1
    DEF Next, SessionStep, WriteSome, WriteDone, WriteFails, KeepaliveCloses, PeerSends,
        PeerReceives, PeerFinishes, PeerResets, ResetOnClose, ReadSome, ReadFails
  <2>3. Held(c, d) = <<>> /\ inbound[c] = <<>>
    BY <2>2 DEF ReadFails, Held
  <2>4. Written(c, d) \o Held(c, d) \o inbound[c] = sent[c] /\ Written(c, d) \in Seq(Unit)
    BY BuffersTyped DEF RelayInv, NothingLost
  <2>5. Written(c, d) \o <<>> = Written(c, d)
    BY <2>4, ConcatEmptySeq
  <2> QED
    BY <2>3, <2>4, <2>5
<1> QED
  BY <1>1, RelayInvariant, PTL DEF Spec, CloseDrains

\* Both modules count alike.
LEMMA DeliveredCounts ==
  ASSUME NEW c, NEW d
  PROVE  Streams!Delivered(c, d) = Count(got[d], c, Len(got[d]))
<1>1. ASSUME NEW S PROVE Streams!Cardinality(S) = Cardinality(S)
  BY DEF Streams!Cardinality, Cardinality
<1> QED
  BY <1>1 DEF Streams!Delivered, Count

\* What a peer receives is the next unit of the stream it comes from.
LEMMA ReceivedNext ==
  ASSUME RelayInv, NEW d \in Peers, PeerReceives(d)
  PROVE  Streams!Deliver(d)
<1>1. /\ got[d] \in Seq(Unit) /\ outbound[d] \in Seq(Unit) /\ outbound[d] # <<>>
      /\ got' = [got EXCEPT ![d] = Append(@, Head(outbound[d]))] /\ UNCHANGED sent
  BY DEF RelayInv, TypeOK, PeerReceives
<1> DEFINE stream == got[d] \o outbound[d]
           n == Len(got[d])
<1>2. PICK unit : unit = Head(outbound[d])
  OBVIOUS
<1>3. /\ stream \in Seq(Unit) /\ n \in Nat /\ n + 1 \in 1 .. Len(stream) /\ stream[n + 1] = unit
      /\ \A i \in 1 .. n : stream[i] = got[d][i]
  <2>1. /\ stream \in Seq(Unit) /\ Len(stream) = n + Len(outbound[d]) /\ n \in Nat
        /\ Len(outbound[d]) \in Nat \ {0}
        /\ \A i \in 1 .. n + Len(outbound[d]) :
             stream[i] = IF i <= n THEN got[d][i] ELSE outbound[d][i - n]
    <3>1. n \in Nat /\ Len(outbound[d]) \in Nat \ {0}
      BY <1>1, EmptySeq
    <3> QED
      BY <1>1, <3>1, ConcatProperties
  <2>2. unit = outbound[d][1] /\ (n + 1) - n = 1
    BY <1>1, <1>2, <2>1
  <2> HIDE DEF stream, n
  <2> QED
    BY <2>1, <2>2
<1>4. PICK s : s = unit[1] /\ s \in Sources(d)
  <2>1. SentBy(stream, Sources(d))
    BY DEF RelayInv, StreamsApart
  <2> QED
    BY <1>3, <2>1 DEF SentBy
<1> DEFINE have == Streams!Delivered(s, d)
<1>5. have = Count(got[d], s, n) /\ have \in Nat
  <2>1. have = Count(got[d], s, n)
    BY DeliveredCounts
  <2> QED
    BY <1>3, <2>1, CountStep
<1> HIDE DEF stream, n, have
<1>6. Count(stream, s, n + 1) = have + 1
  <2>1. Count(stream, s, n) = have
    BY <1>3, <1>5, CountSame
  <2>2. Count(stream, s, n + 1) =
          IF stream[n + 1][1] = s THEN Count(stream, s, n) + 1 ELSE Count(stream, s, n)
    <3>1. n \in Nat
      BY <1>3
    <3> QED
      BY <3>1, CountStep
  <2> QED
    BY <1>3, <1>4, <2>1, <2>2
<1>7. have + 1 \in 1 .. Len(Of(stream, s)) /\ Of(stream, s)[have + 1] = unit
  BY <1>3, <1>4, <1>6, OfPlace
<1>8. BeginsWith(sent[s], Of(stream, s)) /\ sent[s] \in Seq(Unit) /\ Of(stream, s) \in Seq(Unit)
  BY <1>3, <1>4, Directions, OfSequence DEF RelayInv, WrittenInOrder, Written, TypeOK, stream
<1>9. have < Len(sent[s]) /\ unit = sent[s][have + 1]
  BY <1>5, <1>7, <1>8 DEF BeginsWith
<1> QED
  BY <1>1, <1>2, <1>4, <1>9 DEF Streams!Deliver, have

\* Seen from the peers the relay is a broadcast: it starts as one, and every step is
\* a send, a delivery of the next unit of a stream, or a stutter.
THEOREM BroadcastImplemented == Spec => ImplementsBroadcast
<1>1. Init => Streams!BroadcastInit
  BY DEF Init, Streams!BroadcastInit
<1>2. RelayInv /\ [Next]_vars => [Streams!BroadcastNext]_<<sent, got>>
  <2> SUFFICES ASSUME RelayInv, [Next]_vars
               PROVE  Streams!BroadcastNext \/ UNCHANGED <<sent, got>>
    OBVIOUS
  <2>1. ASSUME NEW c \in Peers, PeerSends(c) PROVE Streams!Send(c)
    BY <2>1 DEF PeerSends, Streams!Send, RelayInv, TypeOK
  <2>2. ASSUME NEW c \in Peers, PeerReceives(c) PROVE Streams!Deliver(c)
    BY <2>2, ReceivedNext
  <2> QED
    BY <2>1, <2>2
    DEF Next, SessionStep, WriteSome, WriteDone, WriteFails, KeepaliveCloses, PeerFinishes,
        PeerResets, ResetOnClose, ReadSome, ReadFails, vars, peerVars, Streams!BroadcastNext
<1> QED
  BY <1>1, <1>2, RelayInvariant, PTL DEF Spec, ImplementsBroadcast, Streams!BroadcastSpec
=============================================================================
