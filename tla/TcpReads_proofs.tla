--------------------------- MODULE TcpReads_proofs ---------------------------
(***************************************************************************)
(* For any pool, sessions and targets, with connects of any length and     *)
(* freed memory of any contents: a socket never has two reads, and every   *)
(* socket of a session that is open and started has one.                   *)
(***************************************************************************)
EXTENDS TcpSwitchSessionManager_proofs, FiniteSetTheorems

-----------------------------------------------------------------------------
(* Reads in a queue.                                                       *)

LEMMA ReadsAppend ==
  ASSUME NEW S, NEW queue \in Seq(S), NEW e \in S, NEW s, NEW c
  PROVE  /\ NoneIn(Append(queue, e), s, c) <=> NoneIn(queue, s, c) /\ ~IsRead(e, s, c)
         /\ OneIn(queue, s, c) /\ ~IsRead(e, s, c) => OneIn(Append(queue, e), s, c)
         /\ NoneIn(queue, s, c) => OneIn(Append(queue, e), s, c)
<1> DEFINE longer == Append(queue, e)
<1>1. /\ DOMAIN longer = 1 .. Len(queue) + 1
      /\ DOMAIN queue = 1 .. Len(queue)
      /\ Len(queue) \in Nat
  OBVIOUS
<1>2. /\ longer[Len(queue) + 1] = e
      /\ \A j \in 1 .. Len(queue) : longer[j] = queue[j]
  OBVIOUS
<1>3. /\ \A j \in 1 .. Len(queue) + 1 : j = Len(queue) + 1 \/ j \in 1 .. Len(queue)
      /\ \A j \in 1 .. Len(queue) : j \in 1 .. Len(queue) + 1
      /\ Len(queue) + 1 \in 1 .. Len(queue) + 1
  BY <1>1
<1> HIDE DEF longer
<1>4. NoneIn(longer, s, c) <=> NoneIn(queue, s, c) /\ ~IsRead(e, s, c)
  BY <1>1, <1>2, <1>3 DEF NoneIn
<1>5. OneIn(queue, s, c) /\ ~IsRead(e, s, c) => OneIn(longer, s, c)
  BY <1>1, <1>2, <1>3 DEF OneIn
<1>6. NoneIn(queue, s, c) => OneIn(longer, s, c)
  BY <1>1, <1>2, <1>3 DEF NoneIn, OneIn
<1> QED
  BY <1>4, <1>5, <1>6 DEF longer

LEMMA ReadsTail ==
  ASSUME NEW S, NEW queue \in Seq(S), queue # <<>>, NEW s, NEW c
  PROVE  /\ NoneIn(queue, s, c) <=> NoneIn(Tail(queue), s, c) /\ ~IsRead(Head(queue), s, c)
         /\ OneIn(queue, s, c) => OneIn(Tail(queue), s, c)
         /\ OneIn(queue, s, c) /\ IsRead(Head(queue), s, c) => NoneIn(Tail(queue), s, c)
<1> DEFINE rest == Tail(queue)
<1>1. /\ DOMAIN queue = 1 .. Len(queue)
      /\ DOMAIN rest = 1 .. Len(queue) - 1
      /\ Len(queue) \in Nat \ {0}
  OBVIOUS
<1>2. /\ Head(queue) = queue[1]
      /\ \A j \in 1 .. Len(queue) - 1 : rest[j] = queue[j + 1]
  OBVIOUS
<1>3. /\ \A j \in 1 .. Len(queue) : j = 1 \/ \E i \in 1 .. Len(queue) - 1 : j = i + 1
      /\ \A j \in 1 .. Len(queue) - 1 : j + 1 \in 1 .. Len(queue) /\ j + 1 # 1
      /\ 1 \in 1 .. Len(queue)
      /\ \A i, j \in 1 .. Len(queue) - 1 : i + 1 = j + 1 => i = j
  <2>1. \A j \in 1 .. Len(queue) : j = 1 \/ (j - 1 \in 1 .. Len(queue) - 1 /\ j = (j - 1) + 1)
    BY <1>1
  <2> QED
    BY <1>1, <2>1
<1> HIDE DEF rest
<1>4. NoneIn(queue, s, c) <=> NoneIn(rest, s, c) /\ ~IsRead(Head(queue), s, c)
  <2>1. NoneIn(queue, s, c) => NoneIn(rest, s, c) /\ ~IsRead(Head(queue), s, c)
    BY <1>1, <1>2, <1>3 DEF NoneIn
  <2>2. NoneIn(rest, s, c) /\ ~IsRead(Head(queue), s, c) => NoneIn(queue, s, c)
    <3> SUFFICES ASSUME NoneIn(rest, s, c), ~IsRead(queue[1], s, c), NEW j \in 1 .. Len(queue)
                 PROVE  ~IsRead(queue[j], s, c)
      BY <1>1, <1>2 DEF NoneIn
    <3>1. CASE j = 1
      BY <3>1
    <3>2. ASSUME NEW i \in 1 .. Len(queue) - 1, j = i + 1 PROVE ~IsRead(queue[j], s, c)
      BY <1>1, <1>2, <3>2 DEF NoneIn
    <3> QED
      BY <1>3, <3>1, <3>2
  <2> QED
    BY <2>1, <2>2
<1>5. OneIn(queue, s, c) => OneIn(rest, s, c)
  <2> SUFFICES ASSUME OneIn(queue, s, c), NEW i \in 1 .. Len(queue) - 1, NEW j \in 1 .. Len(queue) - 1,
                      IsRead(rest[i], s, c), IsRead(rest[j], s, c)
               PROVE  i = j
    BY <1>1 DEF OneIn
  <2>1. i + 1 \in DOMAIN queue /\ j + 1 \in DOMAIN queue
    BY <1>1, <1>3
  <2>2. IsRead(queue[i + 1], s, c) /\ IsRead(queue[j + 1], s, c)
    BY <1>2
  <2>3. i + 1 = j + 1
    BY <2>1, <2>2 DEF OneIn
  <2> QED
    BY <1>3, <2>3
<1>6. OneIn(queue, s, c) /\ IsRead(Head(queue), s, c) => NoneIn(rest, s, c)
  BY <1>1, <1>2, <1>3 DEF NoneIn, OneIn
<1> QED
  BY <1>4, <1>5, <1>6 DEF rest

\* A cancelled wait is not a read.
LEMMA ReadsCancel ==
  ASSUME NEW s \in Sessions, NEW queue \in Seq(Completion), NEW r, NEW c
  PROVE  /\ NoneIn(Cancel(s, queue), r, c) <=> NoneIn(queue, r, c)
         /\ OneIn(queue, r, c) => OneIn(Cancel(s, queue), r, c)
<1>1. TimerDone(s, "aborted") \in Completion /\ ~IsRead(TimerDone(s, "aborted"), r, c)
  BY SessionAssumption DEF TimerDone, Completion, Client, Channels, IsRead
<1> QED
  BY <1>1, ReadsAppend DEF Cancel

\* What is not in a queue is no position of it.
LEMMA NoneQueued ==
  ASSUME NEW queue, NEW s, NEW c
  PROVE  NoneIn(queue, s, c) <=> \A done \in Contents(queue) : ~IsRead(done, s, c)
BY DEF NoneIn, Contents

-----------------------------------------------------------------------------
(* What a step does to the reads of one channel.                           *)

\* It starts and completes none.
Kept(r, c) ==
  /\ OneRead(r, c) => OneRead(r, c)'
  /\ Unread(r, c)' <=> Unread(r, c)

LEMMA KeptByRequeue ==
  ASSUME TypeOK, NEW k \in Ios, NEW queue, posted' = [posted EXCEPT ![k] = queue],
         NEW r \in Sessions, NEW c, ios'[r] = ios[r], c \in reading'[r] <=> c \in reading[r],
         NoneIn(queue, r, c) <=> NoneIn(posted[k], r, c),
         OneIn(posted[k], r, c) => OneIn(queue, r, c)
  PROVE  Kept(r, c)
<1>1. ios[r] \in Ios /\ (ios[r] = k => posted'[ios[r]] = queue)
      /\ (ios[r] # k => posted'[ios[r]] = posted[ios[r]])
  BY DEF TypeOK
<1>2. /\ NoneIn(posted'[ios[r]], r, c) <=> NoneIn(posted[ios[r]], r, c)
      /\ OneIn(posted[ios[r]], r, c) => OneIn(posted'[ios[r]], r, c)
  BY <1>1
<1>3. /\ Unread(r, c)' <=> c \notin reading'[r] /\ NoneIn(posted'[ios'[r]], r, c)
      /\ OneRead(r, c)' <=> /\ OneIn(posted'[ios'[r]], r, c)
                            /\ c \in reading'[r] => NoneIn(posted'[ios'[r]], r, c)
  BY DEF Unread, OneRead, NoneIn, OneIn, IsRead
<1> QED
  BY <1>2, <1>3 DEF Kept, Unread, OneRead

LEMMA KeptByAppend ==
  ASSUME TypeOK, NEW k \in Ios, NEW e \in Completion, posted' = [posted EXCEPT ![k] = Append(@, e)],
         NEW r \in Sessions, NEW c, ios'[r] = ios[r], c \in reading'[r] <=> c \in reading[r],
         ~IsRead(e, r, c)
  PROVE  Kept(r, c)
<1>1. posted[k] \in Seq(Completion)
  BY DEF TypeOK
<1>2. /\ NoneIn(Append(posted[k], e), r, c) <=> NoneIn(posted[k], r, c)
      /\ OneIn(posted[k], r, c) => OneIn(Append(posted[k], e), r, c)
  BY <1>1, ReadsAppend
<1> QED
  BY <1>2, KeptByRequeue

LEMMA KeptIfSame ==
  ASSUME NEW r, NEW c, posted' = posted, ios'[r] = ios[r], reading'[r] = reading[r]
  PROVE  Kept(r, c)
<1>1. /\ Unread(r, c)' <=> c \notin reading'[r] /\ NoneIn(posted'[ios'[r]], r, c)
      /\ OneRead(r, c)' <=> /\ OneIn(posted'[ios'[r]], r, c)
                            /\ c \in reading'[r] => NoneIn(posted'[ios'[r]], r, c)
  BY DEF Unread, OneRead, NoneIn, OneIn, IsRead
<1> QED
  BY <1>1 DEF Kept, Unread, OneRead

\* It leaves r alone, but for its reads and its pending timers.
LeavesAlone(r) ==
  /\ phase'[r] = phase[r] /\ ios'[r] = ios[r] /\ closed'[r] = closed[r]
  /\ listed'[r] = listed[r]
  /\ \A k \in Ios : thread'[k] = thread[k] \/ (thread[k].s # r /\ thread'[k].s # r)
  /\ accepting' = r => accepting = r

\* It posts no aborted read of r.
AbortsNone(r) ==
  \A done \in Queued(ios[r])' :
    done.s = r /\ done.op = "read" /\ done.ec = "aborted" => done \in Queued(ios[r])

LEMMA KeptReads ==
  ASSUME TypeOK, NEW r \in Sessions, LeavesAlone(r), AbortsNone(r),
         \A c \in Channels : Kept(r, c), ReadInv(r)
  PROVE  ReadInv(r)'
<1>1. Open(r)' = Open(r)
  BY DEF LeavesAlone, Open
<1>2. Connecting(r)' <=> Connecting(r)
  BY PoolIndices DEF LeavesAlone, Connecting
<1>3. ClosedByRead(r)' <=> ClosedByRead(r)
  BY DEF LeavesAlone, ClosedByRead
<1>4. thread'[0] = thread[0] \/ (thread[0].s # r /\ thread'[0].s # r)
  BY PoolIndices DEF LeavesAlone
<1>5. \A c \in Channels : OneRead(r, c)'
  BY DEF ReadInv, Kept
<1>6. \A done \in Queued(ios[r])' :
        done.s = r /\ done.op = "read" /\ done.ec = "aborted" => closed'[r]
  BY DEF ReadInv, ReadsInOrder, LeavesAlone, AbortsNone
<1>7. ReadsInOrder(r)'
  BY <1>1, <1>2, <1>4, <1>6 DEF ReadInv, ReadsInOrder, LeavesAlone, Kept
<1>8. NoneIsDeaf(r)'
  BY <1>1, <1>2, <1>3, <1>4 DEF ReadInv, NoneIsDeaf, Kept
<1> QED
  BY <1>5, <1>7, <1>8 DEF ReadInv

LEMMA OthersKeepReads ==
  ASSUME TypeOK, TypeOK', NEW S, OnlyConcerns(S), NEW r \in Sessions \ S,
         \A c \in Channels : Kept(r, c), ReadInv(r)
  PROVE  ReadInv(r)'
<1>1. LeavesAlone(r)
  BY DEF OnlyConcerns, LeavesAlone
<1>2. PICK k \in Ios : k = ios[r]
  BY DEF TypeOK
<1>3. Queued(k)' \subseteq Completion
  BY TypeOK' DEF TypeOK, Queued, Contents
<1>4. ios'[r] = k
  BY <1>1, <1>2 DEF LeavesAlone
<1>5. Queued(ios[r])' = Queued(k)'
  BY <1>2, <1>4 DEF Queued, Contents
<1>6. AbortsNone(r)
  BY <1>2, <1>3, <1>5 DEF OnlyConcerns, AbortsNone
<1> QED
  BY <1>1, <1>6, KeptReads

-----------------------------------------------------------------------------
(* One action after the other.                                             *)

LEMMA AcceptedKeepsReads ==
  ASSUME TypeOK, TypeOK', \A r \in Sessions : ReadInv(r), Accepted
  PROVE  \A r \in Sessions : ReadInv(r)'
<1>1. PICK s \in Sessions : s = accepting
  BY AcceptedConcerns
<1>2. /\ accepting' = NoSession /\ accepting' # s
      /\ OnlyConcerns({s})
  BY <1>1, AcceptedConcerns, SessionAssumption
<1>3. posted' = posted /\ reading' = reading /\ ios' = ios /\ closed' = closed
  BY DEF Accepted, Start, AcceptError, sessionVars
<1>4. \A r, c : Kept(r, c)
  BY <1>3, KeptIfSame
<1>5. \A r \in Sessions \ {s} : ReadInv(r)'
  BY <1>2, <1>4, OthersKeepReads
<1>6. phase[s] = "accepting" /\ \A c \in Channels : Unread(s, c)' /\ OneRead(s, c)'
  BY <1>1, <1>4 DEF ReadInv, ReadsInOrder, Kept
<1>7. \A done \in Queued(ios[s])' :
        done.s = s /\ done.op = "read" /\ done.ec = "aborted" => closed'[s]
  <2>1. Queued(ios[s])' = Queued(ios[s])
    BY <1>3 DEF Queued, Contents
  <2> QED
    BY <1>3, <2>1 DEF ReadInv, ReadsInOrder
<1>8. ASSUME Start(s) PROVE ReadInv(s)'
  <2>1. /\ phase'[s] = "started"
        /\ listed'[s] <=> Targets # {}
        /\ thread'[0].s = s /\ thread'[0].at = "connect"
    BY <1>8, PoolIndices DEF Start, TypeOK, At
  <2>2. Connecting(s)'
    BY <2>1 DEF Connecting
  <2> QED
    BY <1>2, <1>6, <1>7, <2>1, <2>2 DEF ReadInv, ReadsInOrder, NoneIsDeaf
<1>9. ASSUME AcceptError(s) PROVE ReadInv(s)'
  <2>1. phase' = phase /\ listed' = listed /\ thread'[0].at = "reaccept"
    BY <1>9, PoolIndices DEF AcceptError, sessionVars, TypeOK, At
  <2>2. ~Open(s)'
    BY <1>6, <2>1 DEF Open
  <2> QED
    BY <1>2, <1>6, <1>7, <2>1, <2>2 DEF ReadInv, ReadsInOrder, NoneIsDeaf
<1> QED
  BY <1>1, <1>5, <1>8, <1>9 DEF Accepted

LEMMA ConnectTargetKeepsReads ==
  ASSUME TypeOK, TypeOK', \A r \in Sessions : ReadInv(r), ConnectTarget
  PROVE  \A r \in Sessions : ReadInv(r)'
<1>1. PICK s \in Sessions : s = thread[0].s
  BY ConnectTargetConcerns
<1>2. /\ UNCHANGED <<posted, reading, ios, phase, closed, listed, accepting>>
      /\ thread[0].at = "connect"
  BY DEF ConnectTarget
<1>3. \A r, c : Kept(r, c)
  BY <1>2, KeptIfSame
<1>4. \A r \in Sessions \ {s} : ReadInv(r)'
  BY <1>1, <1>3, ConnectTargetConcerns, OthersKeepReads
<1>5. Connecting(s) /\ phase'[s] = "started"
      /\ \A c \in Channels : Unread(s, c)' /\ OneRead(s, c)'
  BY <1>1, <1>2, <1>3 DEF ReadInv, ReadsInOrder, Kept, Connecting
<1>6. Queued(ios[s])' = Queued(ios[s]) /\ Open(s)' = Open(s)
  BY <1>2 DEF Queued, Contents, Open
<1>7. ReadsInOrder(s)'
  BY <1>2, <1>5, <1>6 DEF ReadInv, ReadsInOrder
<1>8. \/ thread'[0].at = "connect" /\ thread'[0].s = s
      \/ thread'[0].at = "arm" /\ thread'[0].s = s /\ thread'[0].i = 0
      \/ thread'[0].at = "close" /\ thread'[0].s = s /\ thread'[0].by = "accept"
      \/ closed[s]
  BY <1>1, PoolIndices DEF ConnectTarget, TestClosed, TypeOK, At, Client
<1>9. NoneIsDeaf(s)'
  <2>1. CASE thread'[0].at = "arm" /\ thread'[0].s = s /\ thread'[0].i = 0
    <3>1. \A c \in Channels : ~(c < 0)
      BY SessionAssumption DEF Channels, Client, Targets
    <3> QED
      BY <2>1, <3>1 DEF NoneIsDeaf
  <2>2. CASE closed[s]
    BY <1>2, <2>2 DEF NoneIsDeaf, Open
  <2>3. CASE /\ thread'[0].s = s
             /\ thread'[0].at = "connect" \/ (thread'[0].at = "close" /\ thread'[0].by = "accept")
    BY <2>3 DEF NoneIsDeaf, Connecting
  <2> QED
    BY <1>8, <2>1, <2>2, <2>3
<1> QED
  BY <1>4, <1>5, <1>7, <1>9 DEF ReadInv

\* Some read of r on channel d other than that of s on c.
Other(r, d, s, c) == r # s \/ d # c

\* A read is started on a channel that had none; queue differs from the queue of
\* s in no other read.
LEMMA AsyncReadStarts ==
  ASSUME TypeOK, NEW s \in Sessions, NEW c \in Channels, NEW k \in Ios, k = ios[s],
         NEW queue \in Seq(Completion), AsyncRead(s, c, queue, reading[s]), ios' = ios,
         c \notin reading[s], NoneIn(queue, s, c),
         \A r, d : Other(r, d, s, c) =>
           /\ NoneIn(queue, r, d) <=> NoneIn(posted[k], r, d)
           /\ OneIn(posted[k], r, d) => OneIn(queue, r, d)
  PROVE  /\ \A r \in Sessions, d \in Channels : Other(r, d, s, c) => Kept(r, d)
         /\ OneRead(s, c)' /\ ~Unread(s, c)'
         /\ \A e \in Queued(k)' : e \in Contents(queue) \/ e.ec # "aborted"
<1>1. /\ Unread(s, c)' <=> c \notin reading'[s] /\ NoneIn(posted'[k], s, c)
      /\ OneRead(s, c)' <=> /\ OneIn(posted'[k], s, c)
                            /\ c \in reading'[s] => NoneIn(posted'[k], s, c)
      /\ Queued(k)' = Contents(posted'[k])
  BY DEF Unread, OneRead, NoneIn, OneIn, IsRead, Queued, Contents
<1>2. NoneIn(queue, s, c) => OneIn(queue, s, c)
  BY DEF NoneIn, OneIn
<1>3. ASSUME reading' = [reading EXCEPT ![s] = reading[s] \union {c}],
             posted' = [posted EXCEPT ![k] = queue]
      PROVE  /\ \A r \in Sessions, d \in Channels : Other(r, d, s, c) => Kept(r, d)
             /\ OneRead(s, c)' /\ ~Unread(s, c)'
             /\ Queued(k)' = Contents(queue)
  <2>1. c \in reading'[s] /\ posted'[k] = queue
    BY <1>3 DEF TypeOK
  <2>2. \A r \in Sessions, d \in Channels : Other(r, d, s, c) =>
          ios'[r] = ios[r] /\ (d \in reading'[r] <=> d \in reading[r])
    BY <1>3 DEF TypeOK, Other
  <2>3. \A r \in Sessions, d \in Channels : Other(r, d, s, c) => Kept(r, d)
    BY <1>3, <2>2, KeptByRequeue
  <2> QED
    BY <1>1, <1>2, <2>1, <2>3
<1>4. ASSUME NEW ec \in {"ok", "error"},
             reading' = [reading EXCEPT ![s] = reading[s]],
             posted' = [posted EXCEPT ![k] = Append(queue, ReadDone(s, c, ec))]
      PROVE  /\ \A r \in Sessions, d \in Channels : Other(r, d, s, c) => Kept(r, d)
             /\ OneRead(s, c)' /\ ~Unread(s, c)'
             /\ \A e \in Queued(k)' : e \in Contents(queue) \/ e.ec # "aborted"
  <2> DEFINE e == ReadDone(s, c, ec)
             longer == Append(queue, e)
  <2>1. e \in Completion /\ IsRead(e, s, c) /\ e.ec # "aborted"
    BY DEF ReadDone, Completion, IsRead
  <2>2. \A r, d : Other(r, d, s, c) => ~IsRead(e, r, d)
    BY DEF ReadDone, IsRead, Other
  <2>3. reading' = reading /\ posted'[k] = longer
    BY <1>4 DEF TypeOK
  <2>4. /\ \A r, d : /\ NoneIn(longer, r, d) <=> NoneIn(queue, r, d) /\ ~IsRead(e, r, d)
                     /\ OneIn(queue, r, d) /\ ~IsRead(e, r, d) => OneIn(longer, r, d)
                     /\ NoneIn(queue, r, d) => OneIn(longer, r, d)
        /\ Contents(longer) = Contents(queue) \union {e}
    BY <2>1, ReadsAppend, ContentsAppend
  <2>5. posted' = [posted EXCEPT ![k] = longer]
    BY <1>4
  <2> HIDE DEF longer, e
  <2>6. \A r \in Sessions, d \in Channels : Other(r, d, s, c) => Kept(r, d)
    <3> SUFFICES ASSUME NEW r \in Sessions, NEW d \in Channels, Other(r, d, s, c)
                 PROVE  Kept(r, d)
      OBVIOUS
    <3>1. /\ NoneIn(longer, r, d) <=> NoneIn(posted[k], r, d)
          /\ OneIn(posted[k], r, d) => OneIn(longer, r, d)
      BY <2>2, <2>4
    <3> QED
      BY <2>3, <2>5, <3>1, KeptByRequeue
  <2> QED
    BY <1>1, <2>1, <2>3, <2>4, <2>6
<1> QED
  BY <1>3, <1>4 DEF AsyncRead

LEMMA ArmReadKeepsReads ==
  ASSUME TypeOK, TypeOK', \A r \in Sessions : ReadInv(r), ArmRead
  PROVE  \A r \in Sessions : ReadInv(r)'
<1>1. PICK s \in Sessions, k \in Ios, c \in 0 .. TargetCount + 1 :
        s = thread[0].s /\ k = ios[s] /\ c = thread[0].i
  BY PoolIndices, BusyThread DEF ArmRead, TypeOK
<1>2. /\ UNCHANGED <<ios, phase, closed, listed, accepting>>
      /\ thread[0].at = "arm"
      /\ OnlyConcerns({s})
  BY <1>1, ArmReadConcerns DEF ArmRead
<1>3. /\ phase[s] = "started" /\ ~Connecting(s)
      /\ \A d \in Channels : d >= c => Unread(s, d)
      /\ \A d \in Channels : OneRead(s, d)
  BY <1>1, <1>2 DEF ReadInv, ReadsInOrder, Connecting
<1>4. Open(s)' = Open(s)
  BY <1>2 DEF Open
<1>5. CASE ArmReadEnds(s, c)
  <2>1. posted' = posted /\ reading' = reading
        /\ thread' = [thread EXCEPT ![0] = At("reaccept", s, 0, "accept")]
    BY <1>1, <1>5 DEF ArmRead
  <2>2. \A r, d : Kept(r, d)
    BY <1>2, <2>1, KeptIfSame
  <2>3. \A r \in Sessions \ {s} : ReadInv(r)'
    BY <1>2, <2>2, OthersKeepReads
  <2>4. thread'[0].at = "reaccept"
    BY <2>1, PoolIndices DEF TypeOK, At
  <2>5. Queued(ios[s])' = Queued(ios[s])
    BY <1>2, <2>1 DEF Queued, Contents
  <2>6. ReadsInOrder(s)'
    BY <1>2, <1>3, <1>4, <2>4, <2>5 DEF ReadInv, ReadsInOrder, Connecting
  <2>7. Open(s) => \A d \in Channels : d < c
    BY <1>2, <1>5, SessionAssumption
       DEF ArmReadEnds, Channels, Client, Targets, ReadInv, ReadsInOrder
  <2>8. ClosedByRead(s)' <=> ClosedByRead(s)
    BY <1>2, <2>1, PoolIndices DEF ClosedByRead, TypeOK, At
  <2>9. NoneIsDeaf(s)'
    BY <1>1, <1>2, <1>3, <1>4, <2>2, <2>7, <2>8 DEF ReadInv, NoneIsDeaf, Kept
  <2> QED
    BY <1>3, <2>2, <2>3, <2>6, <2>9 DEF ReadInv, Kept
<1>6. CASE ~ArmReadEnds(s, c)
  <2>1. /\ AsyncRead(s, c, posted[k], reading[s])
        /\ thread' = [thread EXCEPT ![0] = At("arm", s, c + 1, "accept")]
    BY <1>1, <1>6 DEF ArmRead
  <2>2. c \in Channels
    BY <1>2, <1>6, SessionAssumption DEF ArmReadEnds, Channels, Client, Targets
  <2>3. Unread(s, c)
    BY <1>3, <2>2, SessionAssumption DEF Channels, Client, Targets
  <2>4. posted[k] \in Seq(Completion) /\ c \notin reading[s] /\ NoneIn(posted[k], s, c)
    BY <1>1, <2>3 DEF Unread, TypeOK
  <2>5. /\ \A r \in Sessions, d \in Channels : Other(r, d, s, c) => Kept(r, d)
        /\ OneRead(s, c)' /\ ~Unread(s, c)'
        /\ \A e \in Queued(k)' : e \in Contents(posted[k]) \/ e.ec # "aborted"
    BY <1>1, <1>2, <2>1, <2>2, <2>4, AsyncReadStarts
  <2>6. \A r \in Sessions \ {s} : ReadInv(r)'
    BY <1>2, <2>5, OthersKeepReads DEF Other
  <2>7. \A d \in Channels : OneRead(s, d)'
    BY <1>3, <2>5 DEF Other, Kept
  <2>8. thread'[0].at = "arm" /\ thread'[0].s = s /\ thread'[0].i = c + 1
    BY <2>1, PoolIndices DEF TypeOK, At
  <2>9. \A done \in Queued(ios[s])' :
          done.s = s /\ done.op = "read" /\ done.ec = "aborted" => closed'[s]
    <3>1. Queued(ios[s])' = Queued(k)'
      BY <1>1, <1>2 DEF Queued, Contents
    <3> QED
      BY <1>1, <1>2, <2>5, <3>1 DEF ReadInv, ReadsInOrder, Queued
  <2>10. \A d \in Channels : d \in Nat /\ (d >= c + 1 => d >= c /\ d # c)
                             /\ (d < c + 1 => d < c \/ d = c)
    BY <1>2, SessionAssumption DEF Channels, Client, Targets
  <2>11. ReadsInOrder(s)'
    BY <1>2, <1>3, <1>4, <2>5, <2>8, <2>9, <2>10
       DEF ReadInv, ReadsInOrder, Connecting, Other, Kept
  <2>12. ClosedByRead(s)' <=> ClosedByRead(s)
    BY <1>2, <2>1, PoolIndices DEF ClosedByRead, TypeOK, At
  <2>13. NoneIsDeaf(s)'
    BY <1>1, <1>2, <1>3, <1>4, <2>5, <2>8, <2>10, <2>12 DEF ReadInv, NoneIsDeaf, Kept, Other
  <2> QED
    BY <2>6, <2>7, <2>11, <2>13 DEF ReadInv
<1> QED
  BY <1>5, <1>6

LEMMA CloseKeepsReads ==
  ASSUME TypeOK, TypeOK', \A r \in Sessions : ReadInv(r), NEW k \in Ios, Close(k)
  PROVE  \A r \in Sessions : ReadInv(r)'
<1>1. PICK s \in Sessions, h \in Ios : s = thread[k].s /\ h = ios[s]
  BY BusyThread DEF Close, TypeOK
<1>2. /\ UNCHANGED <<ios, phase, reading, accepting>> /\ closed'[s]
      /\ OnlyConcerns({s})
  BY <1>1, CloseConcerns DEF Close, TypeOK
<1>3. \A r \in Sessions : \A c : Kept(r, c)
  <2>1. posted[h] \in Seq(Completion) /\ posted' = [posted EXCEPT ![h] = Cancel(s, posted[h])]
    BY <1>1 DEF Close, TypeOK
  <2>2. \A r, c : /\ NoneIn(Cancel(s, posted[h]), r, c) <=> NoneIn(posted[h], r, c)
                  /\ OneIn(posted[h], r, c) => OneIn(Cancel(s, posted[h]), r, c)
    BY <2>1, ReadsCancel
  <2> QED
    BY <1>2, <2>1, <2>2, KeptByRequeue
<1>4. \A r \in Sessions \ {s} : ReadInv(r)'
  BY <1>2, <1>3, OthersKeepReads
<1>5. \/ thread'[0] = thread[0]
      \/ thread'[0].at \in {"reaccept", "poll"}
  BY PoolIndices DEF Close, TypeOK, At, Polling
<1>6. ~Open(s)' /\ (Connecting(s)' => Connecting(s))
  BY <1>2, <1>5 DEF Open, Connecting
<1>7. ReadsInOrder(s)'
  BY <1>2, <1>3, <1>5, <1>6 DEF ReadInv, ReadsInOrder, Kept
<1> QED
  BY <1>3, <1>4, <1>6, <1>7 DEF ReadInv, NoneIsDeaf, Kept

LEMMA KeepaliveExpiresKeepsReads ==
  ASSUME TypeOK, TypeOK', \A r \in Sessions : ReadInv(r), NEW s \in Sessions, KeepaliveExpires(s)
  PROVE  \A r \in Sessions : ReadInv(r)'
<1>1. PICK k \in Ios : k = ios[s]
  BY DEF TypeOK
<1> DEFINE e == TimerDone(s, "ok")
<1>2. /\ UNCHANGED <<ios, phase, closed, listed, reading, thread, accepting>>
      /\ posted' = [posted EXCEPT ![k] = Append(@, e)]
  BY <1>1 DEF KeepaliveExpires
<1>3. e \in Completion /\ e.op = "timer"
  BY SessionAssumption DEF TimerDone, Completion, Client, Channels
<1>4. \A r \in Sessions : \A c : Kept(r, c)
  <2>1. \A r, c : ~IsRead(e, r, c)
    BY <1>3 DEF IsRead
  <2> QED
    BY <1>2, <1>3, <2>1, KeptByAppend
<1>5. ASSUME NEW r \in Sessions PROVE AbortsNone(r)
  <2>1. posted[k] \in Seq(Completion)
    BY DEF TypeOK
  <2>2. Contents(Append(posted[k], e)) = Contents(posted[k]) \union {e}
    BY <1>3, <2>1, ContentsAppend
  <2>3. ios[r] \in Ios /\ posted'[ios[r]] = IF ios[r] = k THEN Append(posted[k], e) ELSE posted[ios[r]]
    BY <1>2 DEF TypeOK
  <2>4. Queued(ios[r])' = Contents(posted'[ios[r]])
    BY <1>2 DEF Queued, Contents
  <2> QED
    BY <1>3, <2>2, <2>3, <2>4 DEF AbortsNone, Queued
<1>6. \A r \in Sessions : LeavesAlone(r)
  BY <1>2 DEF LeavesAlone
<1> QED
  BY <1>4, <1>5, <1>6, KeptReads

LEMMA ReadableKeepsReads ==
  ASSUME TypeOK, TypeOK', \A r \in Sessions : ReadInv(r),
         NEW s \in Sessions, NEW c \in Channels, Readable(s, c)
  PROVE  \A r \in Sessions : ReadInv(r)'
<1>1. PICK k \in Ios : k = ios[s]
  BY DEF TypeOK
<1> DEFINE e == ReadDone(s, c, IF closed[s] THEN "aborted" ELSE "ready")
<1>2. /\ UNCHANGED <<ios, phase, closed, listed, thread, accepting>>
      /\ reading' = [reading EXCEPT ![s] = @ \ {c}] /\ c \in reading[s]
      /\ posted' = [posted EXCEPT ![k] = Append(@, e)]
      /\ OnlyConcerns({s})
  BY <1>1, ReactorConcerns DEF Readable
<1>3. e \in Completion /\ IsRead(e, s, c) /\ (e.ec = "aborted" => closed[s])
  BY DEF ReadDone, Completion, IsRead
<1>4. posted[k] \in Seq(Completion)
  BY DEF TypeOK
<1>5. \A r \in Sessions, d \in Channels : Other(r, d, s, c) => Kept(r, d)
  <2> SUFFICES ASSUME NEW r \in Sessions, NEW d \in Channels, Other(r, d, s, c)
               PROVE  Kept(r, d)
    OBVIOUS
  <2>1. ~IsRead(e, r, d) /\ ios'[r] = ios[r] /\ (d \in reading'[r] <=> d \in reading[r])
    BY <1>2 DEF Other, ReadDone, IsRead, TypeOK
  <2> QED
    BY <1>2, <1>3, <2>1, KeptByAppend
<1>6. Kept(s, c)
  <2>1. /\ Unread(s, c)' <=> c \notin reading'[s] /\ NoneIn(posted'[k], s, c)
        /\ OneRead(s, c)' <=> /\ OneIn(posted'[k], s, c)
                              /\ c \in reading'[s] => NoneIn(posted'[k], s, c)
    BY <1>1, <1>2 DEF Unread, OneRead, NoneIn, OneIn, IsRead
  <2>2. NoneIn(posted[k], s, c)
    BY <1>1, <1>2 DEF ReadInv, OneRead
  <2>3. OneIn(Append(posted[k], e), s, c) /\ ~NoneIn(Append(posted[k], e), s, c)
    BY <1>3, <1>4, <2>2, ReadsAppend
  <2>4. posted'[k] = Append(posted[k], e) /\ c \notin reading'[s]
    BY <1>2 DEF TypeOK
  <2> QED
    BY <1>2, <2>1, <2>3, <2>4 DEF Kept, Unread
<1>7. \A r \in Sessions \ {s} : ReadInv(r)'
  BY <1>2, <1>5, OthersKeepReads DEF Other
<1>8. \A d \in Channels : Kept(s, d)
  BY <1>5, <1>6 DEF Other
<1>9. \A done \in Queued(ios[s])' :
        done.s = s /\ done.op = "read" /\ done.ec = "aborted" => closed'[s]
  <2>1. Contents(Append(posted[k], e)) = Contents(posted[k]) \union {e}
    BY <1>3, <1>4, ContentsAppend
  <2>2. Queued(ios[s])' = Contents(posted'[k])
    BY <1>1, <1>2 DEF Queued, Contents
  <2>3. posted'[k] = Append(posted[k], e)
    BY <1>2 DEF TypeOK
  <2> QED
    BY <1>1, <1>2, <1>3, <2>1, <2>2, <2>3 DEF ReadInv, ReadsInOrder, Queued
<1>10. /\ Open(s)' = Open(s)
       /\ Connecting(s)' <=> Connecting(s)
       /\ ClosedByRead(s)' <=> ClosedByRead(s)
  BY <1>2 DEF Open, Connecting, ClosedByRead
<1>11. ReadsInOrder(s)'
  BY <1>2, <1>8, <1>9, <1>10 DEF ReadInv, ReadsInOrder, Kept
<1>12. NoneIsDeaf(s)'
  BY <1>2, <1>8, <1>10 DEF ReadInv, NoneIsDeaf, Kept
<1> QED
  BY <1>7, <1>8, <1>11, <1>12 DEF ReadInv, Kept

LEMMA StartAcceptKeepsReads ==
  ASSUME TypeOK, TypeOK', \A r \in Sessions : ReadInv(r), NEW s \in Sessions, StartAccept(s)
  PROVE  \A r \in Sessions : ReadInv(r)'
<1>1. PICK p \in Sessions : p = thread[0].s
  BY StartAcceptConcerns
<1>2. /\ UNCHANGED <<posted, reading>> /\ accepting' = s /\ s # p
      /\ OnlyConcerns({s, p})
      /\ thread'[0].at = "poll" /\ thread[0].at = "reaccept"
      /\ \A j \in Ios \ {0} : thread'[j] = thread[j]
      /\ \A j \in Ios : Queued(j)' = Queued(j)
  <2>1. /\ OnlyConcerns({s, p})
        /\ \A j \in Ios : Queued(j)' = Queued(j)
    BY <1>1, StartAcceptConcerns
  <2>2. /\ UNCHANGED <<posted, reading>> /\ accepting' = s /\ thread[0].at = "reaccept"
        /\ thread' = [thread EXCEPT ![0] = Polling] /\ Forgotten(s)
    BY DEF StartAccept
  <2>3. s # p
    BY <1>1, <2>2, PoolIndices DEF Forgotten
  <2>4. thread'[0].at = "poll" /\ \A j \in Ios \ {0} : thread'[j] = thread[j]
    BY <2>2, PoolIndices DEF TypeOK, Polling, At
  <2> QED
    BY <2>1, <2>2, <2>3, <2>4
<1>3. \A r \in Sessions \ {s} : ios'[r] = ios[r]
  BY DEF StartAccept, TypeOK
<1>4. \A r \in Sessions \ {s} : \A c : Kept(r, c)
  BY <1>2, <1>3, KeptIfSame
<1>5. \A r \in Sessions \ {s, p} : ReadInv(r)'
  BY <1>2, <1>4, OthersKeepReads
<1>6. ReadInv(p)'
  <2>1. /\ phase'[p] = phase[p] \/ (phase[p] = "accepting" /\ phase'[p] = "absent")
        /\ closed'[p] = closed[p] /\ listed'[p] = listed[p] /\ ios'[p] = ios[p]
    BY <1>1, <1>2, <1>3 DEF StartAccept, TypeOK
  <2>2. Queued(ios[p])' = Queued(ios[p])
    BY <1>2, <2>1 DEF Queued, Contents
  <2>3. /\ Open(p)' = Open(p) /\ ~Connecting(p) /\ ~Connecting(p)'
        /\ ClosedByRead(p) <=> ClosedByRead(p)'
    BY <1>2, <2>1 DEF Open, Connecting, ClosedByRead
  <2>4. \A c \in Channels : Kept(p, c)
    BY <1>2, <1>4
  <2>5. ReadsInOrder(p)'
    BY <1>2, <2>1, <2>2, <2>3, <2>4 DEF ReadInv, ReadsInOrder, Kept
  <2>6. NoneIsDeaf(p)'
    BY <1>2, <2>3, <2>4 DEF ReadInv, NoneIsDeaf, Kept
  <2> QED
    BY <2>4, <2>5, <2>6 DEF ReadInv, Kept
<1>7. ReadInv(s)'
  <2>1. /\ phase'[s] = "accepting"
        /\ reading'[s] = {}
        /\ \A j \in Ios : \A done \in Contents(posted[j]) : done.s # s
    BY <1>2 DEF StartAccept, Forgotten, TypeOK, Queued
  <2>2. PICK k \in Ios : k = ios'[s]
    BY TypeOK' DEF TypeOK
  <2>3. \A c : NoneIn(posted'[k], s, c)
    <3>1. \A done \in Contents(posted'[k]) : done.s # s
      BY <1>2, <2>1
    <3> QED
      BY <3>1 DEF NoneIn, Contents, IsRead
  <2>4. \A c \in Channels : Unread(s, c)' /\ OneRead(s, c)'
    <3>1. \A c : /\ Unread(s, c)' <=> c \notin reading'[s] /\ NoneIn(posted'[k], s, c)
                 /\ OneRead(s, c)' <=> /\ OneIn(posted'[k], s, c)
                                       /\ c \in reading'[s] => NoneIn(posted'[k], s, c)
      BY <2>2 DEF Unread, OneRead, NoneIn, OneIn, IsRead
    <3>2. \A c : OneIn(posted'[k], s, c)
      BY <2>3 DEF NoneIn, OneIn
    <3> QED
      BY <2>1, <2>3, <3>1, <3>2
  <2>5. \A done \in Queued(ios[s])' : done.s # s
    <3>1. Queued(ios[s])' = Contents(posted'[k])
      BY <2>2 DEF Queued, Contents
    <3> QED
      BY <1>2, <2>1, <3>1
  <2>6. ~Open(s)'
    BY <2>1 DEF Open
  <2> QED
    BY <1>2, <2>1, <2>4, <2>5, <2>6 DEF ReadInv, ReadsInOrder, NoneIsDeaf
<1> QED
  BY <1>5, <1>6, <1>7

-----------------------------------------------------------------------------
(* The handlers of a session.                                              *)

\* Thread k ran "done", a completion of s: it may have completed a read of s that
\* it did not start again, but then s is destroyed or closed, or is being closed.
ReadsAfter(k, s, done) ==
  /\ \A r \in Sessions, d \in Channels :
       /\ OneRead(r, d) => OneRead(r, d)'
       /\ Unread(r, d) => Unread(r, d)'
       /\ Unread(r, d)' =>
            \/ Unread(r, d)
            \/ r = s /\ (closed[s] \/ ~Alive(s) \/ (done.op = "read" /\ done.ec = "aborted")
                           \/ thread' = [thread EXCEPT ![k] = At("close", s, 0, "read")])
  /\ \A e \in Queued(k)' : e \in Queued(k) \/ e.ec # "aborted" \/ e.op # "read"

LEMMA KeptReadsAfter ==
  ASSUME NEW k, NEW s, NEW done, \A r \in Sessions, d \in Channels : Kept(r, d),
         \A e \in Queued(k)' : e \in Queued(k) \/ e.ec # "aborted" \/ e.op # "read"
  PROVE  ReadsAfter(k, s, done)
BY DEF ReadsAfter, Kept

\* The read at the head of the queue is taken from it.
ReadTaken(k, s, c, rest) ==
  /\ c \notin reading[s] /\ ~Unread(s, c) /\ NoneIn(rest, s, c)
  /\ \A r, d : Other(r, d, s, c) => /\ NoneIn(rest, r, d) <=> NoneIn(posted[k], r, d)
                                    /\ OneIn(posted[k], r, d) => OneIn(rest, r, d)

LEMMA TakeRead ==
  ASSUME TypeOK, NEW k \in Ios, posted[k] # <<>>, NEW s \in Sessions, NEW c, k = ios[s],
         IsRead(Head(posted[k]), s, c), OneRead(s, c)
  PROVE  ReadTaken(k, s, c, Tail(posted[k]))
<1>1. posted[k] \in Seq(Completion)
  BY DEF TypeOK
<1>2. \A r, d :
        /\ NoneIn(posted[k], r, d) <=>
             NoneIn(Tail(posted[k]), r, d) /\ ~IsRead(Head(posted[k]), r, d)
        /\ OneIn(posted[k], r, d) => OneIn(Tail(posted[k]), r, d)
        /\ OneIn(posted[k], r, d) /\ IsRead(Head(posted[k]), r, d) => NoneIn(Tail(posted[k]), r, d)
  BY <1>1, ReadsTail
<1>3. \A r, d : Other(r, d, s, c) => ~IsRead(Head(posted[k]), r, d)
  BY DEF IsRead, Other
<1> QED
  BY <1>2, <1>3 DEF ReadTaken, OneRead, Unread

LEMMA ReadHandlerReads ==
  ASSUME TypeOK, NEW k \in Ios, NEW s \in Sessions, NEW c \in Channels, k = ios[s],
         NEW ec, NEW done, NEW rest \in Seq(Completion), ec = "aborted" => done.op = "read" /\ done.ec = "aborted",
         Contents(rest) \subseteq Queued(k), ReadTaken(k, s, c, rest),
         ReadHandler(k, s, c, ec, rest)
  PROVE  ReadsAfter(k, s, done)
<1>1. ios' = ios
  BY DEF ReadHandler
<1>2. ASSUME posted' = [posted EXCEPT ![k] = rest], reading' = reading,
             \/ closed[s] \/ ~Alive(s) \/ (done.op = "read" /\ done.ec = "aborted")
             \/ thread' = [thread EXCEPT ![k] = At("close", s, 0, "read")]
      PROVE  ReadsAfter(k, s, done)
  <2>1. \A r \in Sessions : \A d : Other(r, d, s, c) => Kept(r, d)
    <3> SUFFICES ASSUME NEW r \in Sessions, NEW d, Other(r, d, s, c)
                 PROVE  Kept(r, d)
      OBVIOUS
    <3>1. /\ ios'[r] = ios[r] /\ (d \in reading'[r] <=> d \in reading[r])
          /\ NoneIn(rest, r, d) <=> NoneIn(posted[k], r, d)
          /\ OneIn(posted[k], r, d) => OneIn(rest, r, d)
      BY <1>1, <1>2 DEF ReadTaken
    <3>2. posted' = [posted EXCEPT ![k] = rest]
      BY <1>2
    <3> QED
      BY <3>1, <3>2, KeptByRequeue
  <2>2. OneRead(s, c)' /\ Unread(s, c)'
    <3>1. posted'[k] = rest
      BY <1>2 DEF TypeOK
    <3>2. /\ Unread(s, c)' <=> c \notin reading'[s] /\ NoneIn(posted'[k], s, c)
          /\ OneRead(s, c)' <=> /\ OneIn(posted'[k], s, c)
                                /\ c \in reading'[s] => NoneIn(posted'[k], s, c)
      BY <1>1 DEF Unread, OneRead, NoneIn, OneIn, IsRead
    <3>3. NoneIn(rest, s, c) => OneIn(rest, s, c)
      BY DEF NoneIn, OneIn
    <3> QED
      BY <1>2, <3>1, <3>2, <3>3 DEF ReadTaken
  <2>3. Queued(k)' = Contents(rest)
    BY <1>2, Requeue
  <2> QED
    BY <1>2, <2>1, <2>2, <2>3 DEF ReadsAfter, Kept, Other
<1>3. ASSUME NEW queue \in Seq(Completion), AsyncRead(s, c, queue, reading[s]),
             \A r, d : /\ NoneIn(queue, r, d) <=> NoneIn(rest, r, d)
                       /\ OneIn(rest, r, d) => OneIn(queue, r, d),
             \A e \in Contents(queue) : e \in Contents(rest) \/ e.op # "read"
      PROVE  ReadsAfter(k, s, done)
  <2>1. /\ \A r \in Sessions, d \in Channels : Other(r, d, s, c) => Kept(r, d)
        /\ OneRead(s, c)' /\ ~Unread(s, c)'
        /\ \A e \in Queued(k)' : e \in Contents(queue) \/ e.ec # "aborted"
    <3>1. c \notin reading[s] /\ NoneIn(queue, s, c)
      BY <1>3 DEF ReadTaken
    <3>2. \A r, d : Other(r, d, s, c) =>
            /\ NoneIn(queue, r, d) <=> NoneIn(posted[k], r, d)
            /\ OneIn(posted[k], r, d) => OneIn(queue, r, d)
      BY <1>3 DEF ReadTaken
    <3> QED
      BY <1>1, <1>3, <3>1, <3>2, AsyncReadStarts
  <2>2. Kept(s, c)
    BY <2>1 DEF Kept, ReadTaken
  <2>3. \A r \in Sessions, d \in Channels : Kept(r, d)
    BY <2>1, <2>2 DEF Other
  <2>4. \A e \in Queued(k)' : e \in Queued(k) \/ e.ec # "aborted" \/ e.op # "read"
    BY <1>3, <2>1
  <2> QED
    BY <2>3, <2>4, KeptReadsAfter
<1>4. PICK closedRead \in IF Alive(s) THEN {closed[s]} ELSE FreedClosed :
        \/ /\ closedRead \/ ec = "aborted"
           /\ posted' = [posted EXCEPT ![k] = rest]
           /\ UNCHANGED <<reading, armed, thread>>
        \/ /\ ~closedRead /\ ec = "error"
           /\ posted' = [posted EXCEPT ![k] = rest]
           /\ UNCHANGED reading
           /\ thread' = [thread EXCEPT ![k] = At("close", s, 0, "read")]
           /\ UNCHANGED armed
        \/ /\ ~closedRead /\ ec = "ok"
           /\ IF c = Client /\ Alive(s)
              THEN /\ ResetKeepaliveTimer(s)
                   /\ AsyncRead(s, c, Cancel(s, rest), reading[s])
              ELSE /\ AsyncRead(s, c, rest, reading[s])
                   /\ UNCHANGED armed
           /\ UNCHANGED thread
  BY DEF ReadHandler
<1>5. CASE AsyncRead(s, c, rest, reading[s])
  BY <1>3, <1>5
<1>6. CASE AsyncRead(s, c, Cancel(s, rest), reading[s])
  <2>1. Cancel(s, rest) \in Seq(Completion)
    BY CancelType
  <2>2. \A r, d : /\ NoneIn(Cancel(s, rest), r, d) <=> NoneIn(rest, r, d)
                  /\ OneIn(rest, r, d) => OneIn(Cancel(s, rest), r, d)
    BY ReadsCancel
  <2>3. \A e \in Contents(Cancel(s, rest)) : e \in Contents(rest) \/ e.op # "read"
    <3>1. TimerDone(s, "aborted") \in Completion /\ TimerDone(s, "aborted").op = "timer"
      BY SessionAssumption DEF TimerDone, Completion, Client, Channels
    <3>2. Contents(Append(rest, TimerDone(s, "aborted")))
            = Contents(rest) \union {TimerDone(s, "aborted")}
      BY <3>1, ContentsAppend
    <3> QED
      BY <3>1, <3>2 DEF Cancel
  <2> QED
    BY <1>3, <1>6, <2>1, <2>2, <2>3
<1>7. CASE /\ posted' = [posted EXCEPT ![k] = rest] /\ reading' = reading
           /\ \/ closedRead \/ ec = "aborted"
              \/ thread' = [thread EXCEPT ![k] = At("close", s, 0, "read")]
  <2>1. closedRead => closed[s] \/ ~Alive(s)
    OBVIOUS
  <2> QED
    BY <1>2, <1>7, <2>1
<1> QED
  BY <1>4, <1>5, <1>6, <1>7

LEMMA RunPostedReads ==
  ASSUME TypeOK, \A s \in Sessions : AtHome(s), \A s \in Sessions : ReadInv(s),
         NEW k \in Ios, RunPosted(k)
  PROVE  ReadsAfter(k, Head(posted[k]).s, Head(posted[k]))
<1> DEFINE done == Head(posted[k])
           s == done.s
           c == done.c
           rest == Tail(posted[k])
<1>1. posted[k] \in Seq(Completion) /\ posted[k] # <<>>
  BY DEF RunPosted, TypeOK
<1>2. done \in Completion /\ rest \in Seq(Completion)
  BY <1>1, QueueHead
<1>3. s \in Sessions /\ c \in Channels
  BY <1>2 DEF Completion
<1>4. Queued(k) = {done} \union Contents(rest)
  BY <1>1, ContentsTail DEF Queued
<1>5. ios[s] = k
  BY <1>3, <1>4 DEF AtHome
<1>6. \A r, d : /\ NoneIn(posted[k], r, d) <=> NoneIn(rest, r, d) /\ ~IsRead(done, r, d)
                /\ OneIn(posted[k], r, d) => OneIn(rest, r, d)
  BY <1>1, ReadsTail
<1>7. CASE done.op = "timer" /\ TimerHandler(k, s, done.ec, rest)
  <2>1. posted' = [posted EXCEPT ![k] = rest] /\ reading' = reading /\ ios' = ios
    BY <1>7 DEF TimerHandler, sessionVars
  <2>2. \A r, d : ~IsRead(done, r, d)
    BY <1>7 DEF IsRead
  <2>3. \A r \in Sessions, d \in Channels : Kept(r, d)
    BY <1>6, <2>1, <2>2, KeptByRequeue
  <2>4. Queued(k)' = Contents(rest)
    BY <2>1, Requeue
  <2> QED
    BY <1>4, <2>3, <2>4, KeptReadsAfter
<1>8. CASE done.op = "read"
  <2>1. ReadTaken(k, s, c, rest)
    <3>1. IsRead(done, s, c)
      BY <1>8 DEF IsRead
    <3>2. OneRead(s, c)
      BY <1>3 DEF ReadInv
    <3> QED
      BY <1>1, <1>3, <1>5, <3>1, <3>2, TakeRead
  <2>2. Contents(rest) \subseteq Queued(k)
    BY <1>4
  <2>3. CASE ReadHandler(k, s, c, done.ec, rest)
    BY <1>2, <1>3, <1>5, <1>8, <2>1, <2>2, <2>3, ReadHandlerReads
  <2>4. CASE ReadyRead(k, s, c, rest) /\ ~closed[s]
    <3>1. PICK ec \in {"ok", "error"} : ReadHandler(k, s, c, ec, rest)
      BY <2>4 DEF ReadyRead
    <3> QED
      BY <1>2, <1>3, <1>5, <2>1, <2>2, <3>1, ReadHandlerReads
  <2>5. CASE ReadyRead(k, s, c, rest) /\ closed[s]
    <3>1. /\ posted' = [posted EXCEPT ![k] = rest] /\ ios' = ios
          /\ reading' = [reading EXCEPT ![s] = @ \union {c}]
      BY <2>5 DEF ReadyRead
    <3>2. PICK t \in Sessions, d \in Channels : t = s /\ d = c
      BY <1>3
    <3>3. \A r \in Sessions, b \in Channels : Other(r, b, t, d) =>
            ios'[r] = ios[r] /\ (b \in reading'[r] <=> b \in reading[r])
      BY <3>1, <3>2 DEF TypeOK, Other
    <3>4. \A r \in Sessions, b \in Channels : Other(r, b, t, d) => Kept(r, b)
      <4> SUFFICES ASSUME NEW r \in Sessions, NEW b \in Channels, Other(r, b, t, d)
                   PROVE  Kept(r, b)
        OBVIOUS
      <4>1. /\ ios'[r] = ios[r] /\ (b \in reading'[r] <=> b \in reading[r])
            /\ NoneIn(rest, r, b) <=> NoneIn(posted[k], r, b)
            /\ OneIn(posted[k], r, b) => OneIn(rest, r, b)
        BY <2>1, <3>2, <3>3 DEF ReadTaken
      <4>2. posted' = [posted EXCEPT ![k] = rest]
        BY <3>1
      <4> HIDE DEF rest
      <4> QED
        BY <4>1, <4>2, KeptByRequeue
    <3>5. Kept(t, d)
      <4>1. posted'[k] = rest /\ d \in reading'[t] /\ ios'[t] = k
        BY <1>5, <3>1, <3>2 DEF TypeOK
      <4>2. /\ Unread(t, d)' <=> d \notin reading'[t] /\ NoneIn(posted'[ios'[t]], t, d)
            /\ OneRead(t, d)' <=> /\ OneIn(posted'[ios'[t]], t, d)
                                  /\ d \in reading'[t] => NoneIn(posted'[ios'[t]], t, d)
        BY DEF Unread, OneRead, NoneIn, OneIn, IsRead
      <4>3. NoneIn(rest, t, d) /\ OneIn(rest, t, d) /\ ~Unread(t, d)
        BY <2>1, <3>2 DEF ReadTaken, NoneIn, OneIn
      <4> QED
        BY <4>1, <4>2, <4>3 DEF Kept
    <3>6. Queued(k)' = Contents(rest)
      BY <3>1, Requeue
    <3>7. \A r \in Sessions, b \in Channels : Kept(r, b)
      BY <3>4, <3>5 DEF Other
    <3> QED
      BY <2>2, <3>6, <3>7, KeptReadsAfter
  <2> QED
    BY <1>8, <2>3, <2>4, <2>5 DEF RunPosted
<1> QED
  BY <1>7, <1>8 DEF RunPosted

LEMMA RunPostedKeepsReads ==
  ASSUME TypeOK, TypeOK', \A r \in Sessions : SessionInv(r), \A r \in Sessions : ReadInv(r),
         NEW k \in Ios, RunPosted(k)
  PROVE  \A r \in Sessions : ReadInv(r)'
<1>1. \A r \in Sessions : AtHome(r)
  BY DEF SessionInv
<1>2. PICK done \in Queued(k), s \in Sessions :
        /\ s = done.s /\ ios[s] = k
        /\ HandlerEffect(k, s, done)
        /\ ReadsAfter(k, s, done)
  BY <1>1, RunPostedEffect, RunPostedReads
<1>3. thread[k] = Polling
  BY PollingThread DEF RunPosted, TypeOK
<1>4. OnlyConcerns({s})
  BY <1>2, <1>3, HandlerConcerns
<1>5. UNCHANGED <<ios, phase, closed, listed, accepting>>
  BY <1>2 DEF HandlerEffect
<1>6. \A r \in Sessions \ {s} : \A d \in Channels : Kept(r, d)
  BY <1>2 DEF ReadsAfter, Kept
<1>7. \A r \in Sessions \ {s} : ReadInv(r)'
  BY <1>4, <1>6, OthersKeepReads
<1>8. Open(s) => Alive(s)
  BY ChainOwns DEF SessionInv
<1>9. \/ thread' = thread
      \/ \E by \in {"timer", "read"} : thread' = [thread EXCEPT ![k] = At("close", s, 0, by)]
  BY <1>2 DEF HandlerEffect
<1>10. /\ \A j \in Ios :
            thread'[j] = thread[j]
              \/ (thread'[j].s = s /\ thread'[j].at = "close" /\ thread'[j].by # "accept")
       /\ thread'[0] = thread[0] \/ (thread'[0].at = "close" /\ thread'[0].by # "accept")
       /\ thread[k].at = "poll" /\ \A j \in Ios \ {k} : thread'[j] = thread[j]
  <2>1. \A by \in {"timer", "read"} :
          /\ At("close", s, 0, by).s = s /\ At("close", s, 0, by).at = "close"
          /\ At("close", s, 0, by).by # "accept"
    BY DEF At
  <2>2. \A j \in Ios :
          thread'[j] = thread[j] \/ \E by \in {"timer", "read"} : thread'[j] = At("close", s, 0, by)
    BY <1>9 DEF TypeOK
  <2>3. \A j \in Ios \ {k} : thread'[j] = thread[j]
    BY <1>9 DEF TypeOK
  <2> QED
    BY <1>3, <2>1, <2>2, <2>3, PoolIndices DEF Polling, At
<1>11. /\ Open(s)' = Open(s) /\ (Connecting(s)' => Connecting(s))
       /\ ClosedByRead(s) => ClosedByRead(s)'
  <2>1. ClosedByRead(s) => ClosedByRead(s)'
    BY <1>10 DEF ClosedByRead
  <2> QED
    BY <1>5, <1>10, <2>1 DEF Open, Connecting
<1>12. \A e \in Queued(ios[s])' :
         e.s = s /\ e.op = "read" /\ e.ec = "aborted" => closed'[s]
  <2>1. Queued(ios[s])' = Queued(k)'
    BY <1>2, <1>5 DEF Queued, Contents
  <2> QED
    BY <1>2, <1>5, <2>1 DEF ReadInv, ReadsInOrder, ReadsAfter
<1>13. \A c \in Channels : OneRead(s, c)' /\ (Unread(s, c) => Unread(s, c)')
  BY <1>2 DEF ReadInv, ReadsAfter
<1>14. ReadsInOrder(s)'
  BY <1>5, <1>10, <1>11, <1>12, <1>13 DEF ReadInv, ReadsInOrder
<1>15. NoneIsDeaf(s)'
  <2> SUFFICES ASSUME Open(s)', ~Connecting(s)', ~ClosedByRead(s)', NEW c \in Channels,
                      thread'[0].s = s /\ thread'[0].at = "arm" => c < thread'[0].i
               PROVE  ~Unread(s, c)'
    BY DEF NoneIsDeaf
  <2>1. thread' # [thread EXCEPT ![k] = At("close", s, 0, "read")]
    <3> SUFFICES ASSUME thread' = [thread EXCEPT ![k] = At("close", s, 0, "read")]
                 PROVE  FALSE
      OBVIOUS
    <3>1. thread'[k].s = s /\ thread'[k].at = "close" /\ thread'[k].by = "read"
      BY DEF TypeOK, At
    <3> QED
      BY <3>1 DEF ClosedByRead
  <2>2. ~Connecting(s) /\ (thread[0].s = s /\ thread[0].at = "arm" => c < thread[0].i)
    BY <1>10, PoolIndices DEF Connecting
  <2>3. ~Unread(s, c)
    BY <1>11, <2>2 DEF ReadInv, NoneIsDeaf
  <2>4. done \in Queued(ios[s]) /\ ~closed[s] /\ Alive(s)
    BY <1>2, <1>8, <1>11 DEF Open
  <2>5. done.op = "read" => done.ec # "aborted"
    BY <1>2, <2>4 DEF ReadInv, ReadsInOrder
  <2> QED
    BY <1>2, <2>1, <2>3, <2>4, <2>5 DEF ReadsAfter
<1> QED
  BY <1>7, <1>13, <1>14, <1>15 DEF ReadInv

-----------------------------------------------------------------------------
(* The theorem.                                                            *)

LEMMA InitReads == Init => \A s \in Sessions : ReadInv(s)
<1> SUFFICES ASSUME Init, NEW s \in Sessions PROVE ReadInv(s)
  OBVIOUS
<1>1. posted[ios[s]] = <<>> /\ reading[s] = {}
  BY PoolIndices DEF Init, PoolInit
<1>2. \A c \in Channels : Unread(s, c) /\ OneRead(s, c)
  BY <1>1 DEF Unread, OneRead, NoneIn, OneIn
<1>3. phase[s] # "started" /\ (accepting = s => phase[s] = "accepting")
  BY DEF Init
<1>4. thread[0].at = "poll"
  BY PoolIndices DEF Init, Polling, At
<1>5. Queued(ios[s]) = {}
  BY <1>1 DEF Queued, Contents
<1> QED
  BY <1>2, <1>3, <1>4, <1>5 DEF ReadInv, ReadsInOrder, NoneIsDeaf, Open

LEMMA NextReads ==
  TypeOK /\ TypeOK' /\ (\A s \in Sessions : SessionInv(s) /\ ReadInv(s)) /\ [Next]_vars
    => (\A s \in Sessions : ReadInv(s))'
<1> SUFFICES ASSUME TypeOK, TypeOK', \A s \in Sessions : SessionInv(s),
                    \A s \in Sessions : ReadInv(s), [Next]_vars
             PROVE  \A s \in Sessions : ReadInv(s)'
  OBVIOUS
<1>1. CASE Accepted \/ ConnectTarget \/ ArmRead
  BY <1>1, AcceptedKeepsReads, ConnectTargetKeepsReads, ArmReadKeepsReads
<1>2. CASE \E k \in Ios : Close(k) \/ RunPosted(k)
  BY <1>2, CloseKeepsReads, RunPostedKeepsReads
<1>3. CASE \E s \in Sessions, c \in Channels : Readable(s, c)
  BY <1>3, ReadableKeepsReads
<1>4. CASE \E s \in Sessions : StartAccept(s) \/ KeepaliveExpires(s)
  BY <1>4, StartAcceptKeepsReads, KeepaliveExpiresKeepsReads
<1>5. CASE UNCHANGED vars
  <2> SUFFICES ASSUME NEW s \in Sessions PROVE ReadInv(s)'
    OBVIOUS
  <2>1. \A c \in Channels : Kept(s, c)
    BY <1>5, KeptIfSame DEF vars, sessionVars
  <2>2. LeavesAlone(s) /\ AbortsNone(s)
    BY <1>5 DEF vars, sessionVars, LeavesAlone, AbortsNone, Queued, Contents
  <2> QED
    BY <2>1, <2>2, KeptReads
<1> QED
  BY <1>1, <1>2, <1>3, <1>4, <1>5 DEF Next

\* The reads in progress on a channel, counted.
LEMMA CountReads ==
  ASSUME TypeOK, NEW s \in Sessions, NEW c \in Channels, OneRead(s, c)
  PROVE  /\ PendingReads(s, c) \in {0, 1}
         /\ PendingReads(s, c) = 0 <=> Unread(s, c)
<1> DEFINE queue == posted[ios[s]]
           Reads == {j \in DOMAIN queue : queue[j].op = "read" /\ queue[j].s = s /\ queue[j].c = c}
<1>1. Reads = {j \in DOMAIN queue : IsRead(queue[j], s, c)}
  BY DEF IsRead
<1>2. \A i, j \in Reads : i = j
  BY <1>1 DEF OneRead, OneIn
<1>3. Reads = {} <=> NoneIn(queue, s, c)
  BY <1>1 DEF NoneIn
<1>4. Reads = {} \/ \E j : Reads = {j}
  <2>1. ASSUME NEW j \in Reads PROVE Reads = {j}
    BY <1>2
  <2> QED
    BY <2>1
<1>5. /\ Reads = {} => Cardinality(Reads) = 0
      /\ (\E j : Reads = {j}) => Cardinality(Reads) = 1
  BY FS_EmptySet, FS_Singleton
<1>6. PendingReads(s, c) = Cardinality(Reads) + (IF c \in reading[s] THEN 1 ELSE 0)
  BY DEF PendingReads
<1>7. c \in reading[s] => Reads = {}
  BY <1>3 DEF OneRead
<1>8. Unread(s, c) <=> c \notin reading[s] /\ Reads = {}
  BY <1>3 DEF Unread
<1> HIDE DEF Reads
<1>9. CASE Reads = {}
  BY <1>5, <1>6, <1>8, <1>9
<1>10. CASE Reads # {}
  BY <1>4, <1>5, <1>6, <1>7, <1>8, <1>10
<1> QED
  BY <1>9, <1>10

\* No interleaving of start(), of the handlers and of close() ever has two reads
\* in progress on the buffer of a socket, or leaves a socket of an open session
\* without one.
THEOREM SocketsAreRead == Spec => []OneReadPerChannel
<1> DEFINE Inv == /\ TypeOK /\ \A s \in Sessions : SessionInv(s)
                  /\ \A s \in Sessions : ReadInv(s)
<1>1. Init => Inv
  BY InitTypes, InitChain, InitReads
<1>2. Inv /\ [Next]_vars => Inv'
  BY NextTypes, NextChain, NextReads
<1>3. Inv => OneReadPerChannel
  <2> SUFFICES ASSUME Inv, NEW s \in Sessions, NEW c \in Channels
               PROVE  /\ PendingReads(s, c) <= 1
                      /\ Open(s) /\ ~InStart(s)
                           /\ (\A k \in Ios : thread[k].s = s => thread[k].at # "close")
                           => PendingReads(s, c) = 1
    BY DEF OneReadPerChannel
  <2>1. PendingReads(s, c) \in {0, 1} /\ (PendingReads(s, c) = 0 <=> Unread(s, c))
    BY CountReads DEF ReadInv
  <2>2. PendingReads(s, c) <= 1
    BY <2>1
  <2>3. ASSUME Open(s), ~InStart(s), \A k \in Ios : thread[k].s = s => thread[k].at # "close"
        PROVE  ~Unread(s, c)
    <3>1. ~Connecting(s) /\ ~ClosedByRead(s) /\ ~(thread[0].s = s /\ thread[0].at = "arm")
      BY <2>3 DEF Connecting, ClosedByRead, InStart
    <3> QED
      BY <2>3, <3>1 DEF ReadInv, NoneIsDeaf
  <2> QED
    BY <2>1, <2>2, <2>3
<1> QED
  BY <1>1, <1>2, <1>3, PTL DEF Spec
=============================================================================
