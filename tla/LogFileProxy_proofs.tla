------------------------- MODULE LogFileProxy_proofs -------------------------
(***************************************************************************)
(* Theorems about LogFileProxy, for any number of threads, lines, file     *)
(* names and descriptors and any size limit, with open() and symlink()     *)
(* failing or not.                                                         *)
(***************************************************************************)
EXTENDS LogFileProxy, FiniteSetTheorems, TLAPS

USE DEF history

\* fd_ is -1 or a descriptor, which is what is_opened() tells apart.
LEMMA OpenedIsNotClosed ==
  ASSUME NEW d \in Fds \union {Closed}
  PROVE  /\ d > 0 <=> d # Closed
         /\ d \in Fds <=> d # Closed
BY LogAssumption DEF Closed

LEMMA IdleType == Idle \in ThreadState
BY DEF ThreadState

\* A thread inside write_log() has a line.
LEMMA BusyThread ==
  ASSUME NEW t \in ThreadState, t.at # "idle"
  PROVE  t.line \in Lines
BY DEF ThreadState, Idle

LEMMA InitTypes == Init => TypeOK
BY IdleType DEF Init, TypeOK

LEMMA NextTypes == TypeOK /\ [Next]_vars => TypeOK'
<1> SUFFICES ASSUME TypeOK, [Next]_vars PROVE TypeOK'
  OBVIOUS
<1>1. CASE UNCHANGED vars
  BY <1>1 DEF vars, TypeOK
<1>2. ASSUME NEW t \in Threads, NEW l \in Lines, Call(t, l) PROVE TypeOK'
  BY <1>2 DEF TypeOK, Call, ThreadState
<1>3. ASSUME NEW t \in Threads,
             TestOpened(t) \/ LockToOpen(t) \/ TestSize(t) \/ TryLock(t) \/ LoadFd(t)
      PROVE  TypeOK'
  BY <1>3 DEF TypeOK, TestOpened, LockToOpen, TestSize, TryLock, LoadFd, Goto, ThreadState, Idle
<1>4. ASSUME NEW t \in Threads, CreateFile(t) PROVE TypeOK'
  BY <1>4 DEF TypeOK, CreateFile, Created, CreateLink, NotCreated, ThreadState, Idle
<1>5. ASSUME NEW t \in Threads, Install(t) PROVE TypeOK'
  BY <1>5 DEF TypeOK, Install, Goto, ThreadState, Idle
<1>6. ASSUME NEW t \in Threads, Reinstall(t) PROVE TypeOK'
  <2>1. thread[t].fd \in Fds /\ [thread[t] EXCEPT !.at = "load"] \in ThreadState
    BY <1>6 DEF TypeOK, Reinstall, ThreadState, Idle
  <2>2. open' \in [Fds -> Files \union {NoFile}]
    BY <1>6, <2>1 DEF TypeOK, Reinstall
  <2> QED
    BY <1>6, <2>1, <2>2 DEF TypeOK, Reinstall, Goto
<1>7. ASSUME NEW t \in Threads, Write(t) PROVE TypeOK'
  <2>1. thread[t].line \in Lines
    BY <1>7, BusyThread DEF TypeOK, Write
  <2>2. CASE Usable(thread[t].fd)
    <3>1. [thread[t] EXCEPT !.at = "add"] \in ThreadState
      BY <1>7 DEF TypeOK, Write, ThreadState, Idle
    <3>2. content' \in [Files -> SUBSET Lines]
      BY <1>7, <2>1, <2>2 DEF TypeOK, Write
    <3> QED
      BY <1>7, <2>2, <3>1, <3>2 DEF TypeOK, Write, Goto
  <2>3. CASE ~Usable(thread[t].fd)
    BY <1>7, <2>1, <2>3, IdleType DEF TypeOK, Write
  <2> QED
    BY <2>2, <2>3
<1>8. ASSUME NEW t \in Threads, Add(t) PROVE TypeOK'
  BY <1>8, IdleType DEF TypeOK, Add
<1> QED
  BY <1>1, <1>2, <1>3, <1>4, <1>5, <1>6, <1>7, <1>8 DEF Next

\* Every reachable state is well typed; a thread that installs a file has one.
THEOREM LogTypeCorrect == Spec => []TypeOK
<1>1. TypeOK /\ [Next]_vars => TypeOK'
  BY NextTypes
<1> QED
  BY InitTypes, <1>1, PTL DEF Spec

-----------------------------------------------------------------------------
(* The descriptors.                                                        *)

LEMMA InitLog == Init => LogInv
BY DEF Init, LogInv, DescriptorsKnown, WrittenIsNewest, LinkIsNewest, CreatorHoldsLock, NewFile, FileIsKnown,
       Idle, Usable, Installing

\* Steps that change neither descriptors, link nor lock, and do not leave or
\* enter the creation of a file.
LEMMA ReadersKeepLog ==
  ASSUME TypeOK, TypeOK', LogInv, NEW t \in Threads,
         UNCHANGED <<fd, mutex, open, link, newest, linked>>,
         \A s \in Threads \ {t} : thread'[s] = thread[s],
         ~Installing(t), ~Installing(t)',
         CreatorHoldsLock(t)', FileIsKnown(t)'
  PROVE  LogInv'
<1>1. \A s \in Threads : Installing(s)' <=> Installing(s)
  BY DEF Installing
<1>2. DescriptorsKnown'
  BY <1>1 DEF LogInv, DescriptorsKnown, Usable, Installing
<1>3. WrittenIsNewest' /\ LinkIsNewest'
  BY <1>1 DEF LogInv, WrittenIsNewest, LinkIsNewest
<1>4. \A s \in Threads : CreatorHoldsLock(s)' /\ NewFile(s)' /\ FileIsKnown(s)'
  BY <1>1 DEF LogInv, CreatorHoldsLock, NewFile, FileIsKnown, Usable, Installing
<1> QED
  BY <1>2, <1>3, <1>4 DEF LogInv

\* With the lock held by t no other thread creates a file.
LEMMA SoleCreator ==
  ASSUME TypeOK, LogInv, NEW t \in Threads, mutex = t \/ mutex = NoThread, NEW s \in Threads \ {t}
  PROVE  thread[s].at \notin {"create", "install", "recreate", "reinstall"}
BY LogAssumption DEF LogInv, CreatorHoldsLock

LEMMA ReadStepsKeepLog ==
  ASSUME TypeOK, TypeOK', LogInv, NEW t \in Threads,
         \/ (\E l \in Lines : Call(t, l)) \/ TestOpened(t) \/ TestSize(t)
         \/ LoadFd(t) \/ Write(t) \/ Add(t)
  PROVE  LogInv'
<1>1. FileIsKnown(t) /\ fd \in Fds \union {Closed} /\ thread[t] \in ThreadState
  BY DEF LogInv, TypeOK
<1>2. /\ UNCHANGED <<fd, mutex, open, link, newest, linked>>
      /\ \A s \in Threads \ {t} : thread'[s] = thread[s]
  BY DEF TypeOK, Call, TestOpened, TestSize, LoadFd, Write, Add, Goto
<1>3. /\ ~Installing(t) /\ ~Installing(t)'
      /\ thread'[t].at \notin {"create", "install", "recreate", "reinstall"}
  BY DEF TypeOK, Call, TestOpened, TestSize, LoadFd, Write, Add, Goto, Idle, ThreadState, Installing
<1>4. CreatorHoldsLock(t)'
  BY <1>3 DEF CreatorHoldsLock
<1>5. FileIsKnown(t)'
  <2>1. ASSUME NEW l \in Lines, Call(t, l) PROVE FileIsKnown(t)'
    BY <2>1 DEF TypeOK, Call, FileIsKnown
  <2>2. CASE TestOpened(t)
    <3>1. thread'[t].at = (IF fd # Closed THEN "size" ELSE "lock")
      BY <1>1, <2>2, OpenedIsNotClosed DEF TypeOK, TestOpened, Goto, ThreadState, Idle
    <3> QED
      BY <1>2, <3>1 DEF FileIsKnown
  <2>3. CASE TestSize(t)
    BY <1>1, <1>2, <2>3 DEF TypeOK, TestSize, Goto, FileIsKnown, ThreadState, Idle
  <2>4. CASE LoadFd(t)
    BY <1>1, <1>2, <2>4 DEF TypeOK, LoadFd, FileIsKnown, ThreadState, Idle
  <2>5. CASE Write(t) \/ Add(t)
    BY <1>1, <1>2, <2>5 DEF TypeOK, Write, Add, Goto, FileIsKnown, ThreadState, Idle
  <2> QED
    BY <2>1, <2>2, <2>3, <2>4, <2>5
<1> QED
  BY <1>2, <1>3, <1>4, <1>5, ReadersKeepLog

\* A thread takes the lock to create a file, or finds that it need not.
LEMMA LockKeepsLog ==
  ASSUME TypeOK, TypeOK', LogInv, NEW t \in Threads, LockToOpen(t) \/ TryLock(t)
  PROVE  LogInv'
<1>1. FileIsKnown(t) /\ fd \in Fds \union {Closed} /\ thread[t] \in ThreadState
  BY DEF LogInv, TypeOK
<1>2. /\ UNCHANGED <<fd, open, link, newest, linked>>
      /\ \A s \in Threads \ {t} : thread'[s] = thread[s]
  BY DEF TypeOK, LockToOpen, TryLock, Goto
<1>3. /\ ~Installing(t) /\ ~Installing(t)'
      /\ mutex = NoThread \/ UNCHANGED mutex
      /\ \A s \in Threads \ {t} : mutex = NoThread =>
           thread[s].at \notin {"create", "install", "recreate", "reinstall"}
  <2>1. ~Installing(t) /\ ~Installing(t)' /\ (mutex = NoThread \/ UNCHANGED mutex)
    BY DEF TypeOK, LockToOpen, TryLock, Goto, Idle, ThreadState, Installing
  <2> QED
    BY <2>1, SoleCreator
<1>4. CreatorHoldsLock(t)' /\ FileIsKnown(t)'
  <2>1. CASE LockToOpen(t)
    <3>1. \/ thread'[t].at = "size" /\ fd # Closed
          \/ thread'[t].at = "create" /\ fd = Closed /\ mutex' = t
      BY <1>1, <2>1, OpenedIsNotClosed DEF TypeOK, LockToOpen, Goto, ThreadState, Idle
    <3> QED
      BY <1>2, <3>1 DEF CreatorHoldsLock, FileIsKnown
  <2>2. CASE TryLock(t)
    BY <1>1, <1>2, <2>2 DEF TypeOK, TryLock, Goto, CreatorHoldsLock, FileIsKnown, ThreadState, Idle
  <2> QED
    BY <2>1, <2>2
<1>5. \A s \in Threads : Installing(s)' <=> Installing(s)
  BY <1>2, <1>3 DEF Installing
<1>6. DescriptorsKnown' /\ WrittenIsNewest' /\ LinkIsNewest'
  BY <1>2, <1>3, <1>5 DEF LogInv, DescriptorsKnown, WrittenIsNewest, LinkIsNewest, Usable, Installing
<1>7. \A s \in Threads \ {t} : CreatorHoldsLock(s)' /\ FileIsKnown(s)'
  BY <1>2, <1>3 DEF LogInv, CreatorHoldsLock, FileIsKnown
<1>8. \A s \in Threads : NewFile(s)'
  BY <1>2, <1>3, <1>5 DEF LogInv, NewFile, Usable, Installing
<1> QED
  BY <1>4, <1>6, <1>7, <1>8 DEF LogInv

LEMMA CreateKeepsLog ==
  ASSUME TypeOK, TypeOK', LogInv, NEW t \in Threads, CreateFile(t)
  PROVE  LogInv'
<1>1. /\ FileIsKnown(t) /\ CreatorHoldsLock(t) /\ DescriptorsKnown /\ WrittenIsNewest /\ LinkIsNewest
      /\ fd \in Fds \union {Closed} /\ thread[t] \in ThreadState
  BY DEF LogInv, TypeOK
<1>2. mutex = t /\ ~Installing(t) /\ (thread[t].at = "create" => fd = Closed)
  BY <1>1 DEF CreateFile, CreatorHoldsLock, Installing
<1>3. \A s \in Threads \ {t} :
        thread[s].at \notin {"create", "install", "recreate", "reinstall"}
  BY <1>2, SoleCreator
<1>4. \A s \in Threads : ~Installing(s)
  BY <1>2, <1>3 DEF Installing
<1>5. UNCHANGED fd /\ \A s \in Threads \ {t} : thread'[s] = thread[s]
  BY DEF CreateFile, Created, NotCreated, TypeOK
<1>6. \A s \in Threads \ {t} : CreatorHoldsLock(s)' /\ NewFile(s)' /\ FileIsKnown(s)'
  BY <1>3, <1>5 DEF LogInv, CreatorHoldsLock, NewFile, FileIsKnown, Installing
<1>7. ASSUME NEW next \in {"install", "reinstall"}, Created(t, next),
             next = "install" => thread[t].at = "create",
             next = "reinstall" => thread[t].at = "recreate"
      PROVE  LogInv'
  <2>1. PICK d \in Fds, f \in Files :
          /\ open[d] = NoFile /\ open' = [open EXCEPT ![d] = f]
          /\ newest' = f /\ (linked' # NoFile => link' = f) /\ mutex' = mutex
          /\ thread' = [thread EXCEPT ![t].at = next, ![t].fd = d]
    BY <1>7 DEF Created, CreateLink
  <2>2. thread'[t].at = next /\ thread'[t].fd = d /\ thread'[t].refused = thread[t].refused
    BY <1>1, <2>1 DEF TypeOK, ThreadState, Idle
  <2>3. open'[d] = f /\ f # NoFile /\ \A e \in Fds \ {d} : open'[e] = open[e]
    BY <2>1, LogAssumption DEF TypeOK
  <2>4. Installing(t)' /\ d # fd
    <3>1. d # Closed
      BY OpenedIsNotClosed
    <3>2. d = fd => Usable(d)
      BY <1>1, <3>1 DEF DescriptorsKnown
    <3> QED
      BY <2>1, <2>2, <3>2 DEF Installing, Usable
  <2>5. DescriptorsKnown'
    BY <1>1, <1>4, <1>5, <2>2, <2>3, <2>4 DEF DescriptorsKnown, Usable
  <2>6. WrittenIsNewest' /\ LinkIsNewest'
    BY <2>1, <2>4 DEF WrittenIsNewest, LinkIsNewest
  <2>7. CreatorHoldsLock(t)' /\ NewFile(t)'
    BY <1>2, <1>5, <1>7, <2>1, <2>2, <2>3, <2>4 DEF CreatorHoldsLock, NewFile, Usable
  <2>8. FileIsKnown(t)'
    BY <1>1, <1>2, <1>5, <1>7, <2>2 DEF FileIsKnown
  <2> QED
    BY <1>6, <2>5, <2>6, <2>7, <2>8 DEF LogInv
<1>8. ASSUME NEW next \in {"size", "load"}, NotCreated(t, next) PROVE LogInv'
  <2>1. /\ UNCHANGED <<open, link, newest, linked>>
        /\ thread'[t].at = next /\ thread'[t].refused
    BY <1>1, <1>8 DEF NotCreated, TypeOK, ThreadState, Idle
  <2>2. \A s \in Threads : ~Installing(s)'
    BY <1>4, <1>5, <2>1 DEF Installing
  <2>3. DescriptorsKnown' /\ WrittenIsNewest' /\ LinkIsNewest'
    BY <1>1, <1>4, <1>5, <2>1, <2>2 DEF DescriptorsKnown, WrittenIsNewest, LinkIsNewest, Usable
  <2>4. CreatorHoldsLock(t)' /\ NewFile(t)' /\ FileIsKnown(t)'
    BY <2>1, <2>2 DEF CreatorHoldsLock, NewFile, FileIsKnown
  <2> QED
    BY <1>6, <2>3, <2>4 DEF LogInv
<1> QED
  BY <1>7, <1>8 DEF CreateFile

LEMMA InstallKeepsLog ==
  ASSUME TypeOK, TypeOK', LogInv, NEW t \in Threads, Install(t) \/ Reinstall(t)
  PROVE  LogInv'
<1> DEFINE d == thread[t].fd
<1>1. /\ FileIsKnown(t) /\ CreatorHoldsLock(t) /\ NewFile(t) /\ DescriptorsKnown /\ LinkIsNewest
      /\ fd \in Fds \union {Closed} /\ thread[t] \in ThreadState
  BY DEF LogInv, TypeOK
<1>2. /\ mutex = t /\ Installing(t) /\ Usable(d) /\ d # fd /\ newest = open[d]
      /\ thread[t].at = "install" => fd = Closed
  BY <1>1 DEF Install, Reinstall, CreatorHoldsLock, Installing, NewFile
<1>3. \A s \in Threads \ {t} :
        thread[s].at \notin {"create", "install", "recreate", "reinstall"}
  BY <1>2, SoleCreator
<1>4. UNCHANGED <<link, newest, linked>> /\ \A s \in Threads \ {t} : thread'[s] = thread[s]
  BY DEF Install, Reinstall, Goto, TypeOK
<1>5. /\ thread'[t].at \in {"size", "load"} /\ thread'[t].refused = thread[t].refused
      /\ Install(t) => fd' \in Fds
  BY <1>1, <1>2 DEF Install, Reinstall, Goto, TypeOK, ThreadState, Idle, Usable
<1>6. \A s \in Threads : ~Installing(s)'
  BY <1>3, <1>4, <1>5 DEF Installing
<1>7. \A e \in Fds : Usable(e) => e \in {fd, d}
  BY <1>1, <1>3 DEF DescriptorsKnown, Installing
<1>8. DescriptorsKnown' /\ WrittenIsNewest' /\ LinkIsNewest'
  <2>1. ASSUME Install(t) PROVE DescriptorsKnown' /\ WrittenIsNewest'
    <3>1. fd' = d /\ open' = open /\ fd = Closed
      BY <1>2, <2>1 DEF Install
    <3>2. Closed \notin Fds
      BY LogAssumption DEF Closed
    <3> QED
      BY <1>2, <1>4, <1>7, <3>1, <3>2 DEF DescriptorsKnown, WrittenIsNewest, Usable
  <2>2. ASSUME Reinstall(t) PROVE DescriptorsKnown' /\ WrittenIsNewest'
    <3>1. /\ fd' = fd /\ open'[d] = NoFile
          /\ fd \in Fds => open'[fd] = open[d]
          /\ \A e \in Fds \ {d, fd} : open'[e] = open[e]
      BY <1>2, <2>2 DEF Reinstall, Usable
    <3>2. fd # Closed => fd \in Fds
      BY <1>1
    <3> QED
      BY <1>2, <1>4, <1>7, <3>1, <3>2 DEF DescriptorsKnown, WrittenIsNewest, Usable
  <2>3. LinkIsNewest'
    BY <1>1, <1>4 DEF LinkIsNewest
  <2> QED
    BY <2>1, <2>2, <2>3
<1>9. \A s \in Threads : CreatorHoldsLock(s)' /\ NewFile(s)'
  BY <1>3, <1>4, <1>5, <1>6 DEF CreatorHoldsLock, NewFile
<1>10. FileIsKnown(t)'
  BY <1>1, <1>5, LogAssumption DEF FileIsKnown, Closed, Install, Reinstall
<1>11. \A s \in Threads \ {t} : FileIsKnown(s)'
  <2>1. fd # Closed => fd' = fd
    BY <1>2 DEF Install, Reinstall
  <2> QED
    BY <1>4, <2>1 DEF LogInv, FileIsKnown
<1> QED
  BY <1>8, <1>9, <1>10, <1>11 DEF LogInv

LEMMA NextLog ==
  TypeOK /\ TypeOK' /\ LogInv /\ [Next]_vars => LogInv'
<1> SUFFICES ASSUME TypeOK, TypeOK', LogInv, [Next]_vars PROVE LogInv'
  OBVIOUS
<1>1. CASE UNCHANGED vars
  BY <1>1 DEF vars, LogInv, DescriptorsKnown, WrittenIsNewest, LinkIsNewest, CreatorHoldsLock, NewFile,
              FileIsKnown, Usable, Installing
<1>2. CASE Next
  BY <1>2, ReadStepsKeepLog, LockKeepsLog, CreateKeepsLog, InstallKeepsLog DEF Next
<1> QED
  BY <1>1, <1>2

LEMMA LogAlways == Spec => [](TypeOK /\ LogInv)
<1>1. Init => TypeOK /\ LogInv
  BY InitTypes, InitLog
<1>2. TypeOK /\ LogInv /\ [Next]_vars => (TypeOK /\ LogInv)'
  BY NextTypes, NextLog
<1> QED
  BY <1>1, <1>2, PTL DEF Spec

\* No exchange of the file closes a descriptor that another thread is about to
\* write to: a line is lost only if open() failed for its own thread.
THEOREM LinesFindTheFile == Spec => []WritesToOpenFile
<1>1. TypeOK /\ LogInv => WritesToOpenFile
  BY DEF LogInv, FileIsKnown, DescriptorsKnown, WritesToOpenFile
<1> QED
  BY <1>1, LogAlways, PTL

\* Neither the race to open the file nor an exchange leaks a descriptor.
THEOREM OneDescriptor == Spec => []NoDescriptorLeaks
<1>1. LogInv => NoDescriptorLeaks
  BY DEF LogInv, DescriptorsKnown, NoDescriptorLeaks, Usable
<1> QED
  BY <1>1, LogAlways, PTL

\* The symbolic link names the file that is written, unless it could not be made.
THEOREM LinkIsCurrent == Spec => []LinkNamesFile
<1>1. LogInv => LinkNamesFile
  BY DEF LogInv, WrittenIsNewest, LinkIsNewest, LinkNamesFile
<1> QED
  BY <1>1, LogAlways, PTL

-----------------------------------------------------------------------------
(* The lines.                                                              *)

\* Threads that are inside write_log().
Busy == {t \in Threads : thread[t] # Idle}

LEMMA FiniteCounts ==
  ASSUME TypeOK, FinitelyMany, \A l \in Lines : LineInv(l)
  PROVE  /\ IsFiniteSet(Adding) /\ Cardinality(Adding) \in Nat
         /\ \A f \in Files : \A S : IsFiniteSet(content[f] \ S) /\ Cardinality(content[f] \ S) \in Nat
<1>1. Adding \subseteq Busy
  BY DEF Adding, Busy, Idle
<1>2. \A f \in Files : \A S : content[f] \ S \subseteq logged
  BY DEF TypeOK, LineInv
<1> QED
  BY <1>1, <1>2, FS_Subset, FS_CardinalityType DEF FinitelyMany, Busy

\* A step of a thread that writes no line and counts none.
LEMMA LinesStay ==
  ASSUME TypeOK, LineAndSizeInv, NEW t \in Threads,
         UNCHANGED <<content, logged, lost>>,
         \A s \in Threads \ {t} : thread'[s] = thread[s],
         thread'[t].line = thread[t].line,
         thread[t] # Idle, thread[t].at # "add", thread'[t].at # "add"
  PROVE  FinitelyMany' /\ (\A l \in Lines : LineInv(l)') /\ Adding' = Adding
<1>1. \A s \in Threads : thread'[s].line = thread[s].line
                         /\ (thread'[s].at = "add" <=> thread[s].at = "add")
  OBVIOUS
<1>2. Adding' = Adding
  BY <1>1 DEF Adding
<1>3. FinitelyMany'
  <2>1. {s \in Threads : thread'[s] # Idle} \subseteq {s \in Threads : thread[s] # Idle}
    OBVIOUS
  <2> QED
    BY <2>1, FS_Subset DEF LineAndSizeInv, FinitelyMany
<1>4. \A l \in Lines : LineInv(l)'
  BY <1>1 DEF LineAndSizeInv, LineInv
<1> QED
  BY <1>2, <1>3, <1>4

LEMMA MoveKeepsLines ==
  ASSUME TypeOK, LineAndSizeInv, NEW t \in Threads,
         \/ TestOpened(t) \/ LockToOpen(t) \/ TestSize(t) \/ TryLock(t) \/ LoadFd(t)
         \/ Install(t) \/ Reinstall(t)
  PROVE  LineAndSizeInv'
<1>1. thread[t] \in ThreadState
  BY DEF TypeOK
<1>2. /\ UNCHANGED <<content, logged, lost, found, newest, size>>
      /\ \A s \in Threads \ {t} : thread'[s] = thread[s]
  BY DEF TypeOK, TestOpened, LockToOpen, TestSize, TryLock, LoadFd, Install, Reinstall, Goto
<1>3. /\ thread'[t].line = thread[t].line
      /\ thread[t] # Idle /\ thread[t].at # "add" /\ thread'[t].at # "add"
  BY <1>1 DEF TypeOK, TestOpened, LockToOpen, TestSize, TryLock, LoadFd, Install, Reinstall, Goto,
              ThreadState, Idle
<1>4. FinitelyMany' /\ (\A l \in Lines : LineInv(l)') /\ Adding' = Adding
  BY <1>2, <1>3, LinesStay
<1>5. SizeOfNewest'
  BY <1>2, <1>4 DEF LineAndSizeInv, SizeOfNewest
<1> QED
  BY <1>4, <1>5 DEF LineAndSizeInv

LEMMA CreateKeepsLines ==
  ASSUME TypeOK, LineAndSizeInv, NEW t \in Threads, CreateFile(t)
  PROVE  LineAndSizeInv'
<1>1. thread[t] \in ThreadState /\ thread[t].at \in {"create", "recreate"}
  BY DEF TypeOK, CreateFile
<1>2. /\ UNCHANGED <<content, logged, lost>>
      /\ \A s \in Threads \ {t} : thread'[s] = thread[s]
  BY DEF TypeOK, CreateFile, Created, NotCreated
<1>3. /\ thread'[t].line = thread[t].line
      /\ thread[t] # Idle /\ thread[t].at # "add" /\ thread'[t].at # "add"
  BY <1>1 DEF TypeOK, CreateFile, Created, NotCreated, ThreadState, Idle
<1>4. FinitelyMany' /\ (\A l \in Lines : LineInv(l)') /\ Adding' = Adding
  BY <1>2, <1>3, LinesStay
<1>5. Cardinality(Adding) \in Nat
  BY FiniteCounts DEF LineAndSizeInv
<1>6. ASSUME NEW next, Created(t, next) PROVE SizeOfNewest'
  <2>1. PICK f \in Files : /\ size' = 0 /\ newest' = f /\ content' = content
                           /\ found' = [found EXCEPT ![f] = content[f]]
    BY <1>6 DEF Created
  <2>2. content'[f] \ found'[f] = {}
    BY <2>1 DEF TypeOK
  <2>3. Cardinality(content'[newest'] \ found'[newest']) = 0
    BY <2>1, <2>2, FS_EmptySet
  <2> QED
    BY <1>4, <1>5, <2>1, <2>3 DEF SizeOfNewest
<1>7. ASSUME NEW next, NotCreated(t, next) PROVE SizeOfNewest'
  BY <1>4, <1>7 DEF NotCreated, LineAndSizeInv, SizeOfNewest
<1> QED
  BY <1>4, <1>6, <1>7 DEF CreateFile, LineAndSizeInv

LEMMA CallKeepsLines ==
  ASSUME TypeOK, LineAndSizeInv, NEW t \in Threads, NEW m \in Lines, Call(t, m)
  PROVE  LineAndSizeInv'
<1>1. /\ UNCHANGED <<content, lost, found, newest, size>>
      /\ logged' = logged \union {m} /\ m \notin logged
      /\ \A s \in Threads \ {t} : thread'[s] = thread[s]
      /\ thread[t] = Idle /\ thread'[t].line = m /\ thread'[t].at = "test"
  BY DEF Call, TypeOK
<1>2. thread[t].line = NoLine /\ thread[t].at = "idle"
  BY <1>1 DEF Idle
<1>3. FinitelyMany'
  <2>1. {s \in Threads : thread'[s] # Idle} \subseteq {s \in Threads : thread[s] # Idle} \union {t}
    BY <1>1
  <2> QED
    BY <1>1, <2>1, FS_Subset, FS_AddElement DEF LineAndSizeInv, FinitelyMany
<1>4. LineInv(m)'
  <2>1. (\A f \in Files : m \notin content[f]) /\ (\A s \in Threads : thread[s].line # m)
    BY <1>1 DEF LineAndSizeInv, LineInv
  <2> QED
    BY <1>1, <2>1 DEF LineInv
<1>5. ASSUME NEW l \in Lines, l # m PROVE LineInv(l)'
  <2>1. \A s \in Threads : thread'[s].line = l <=> thread[s].line = l
    BY <1>1, <1>2, <1>5, LogAssumption
  <2>2. \A s \in Threads : thread'[s].line = l => thread'[s] = thread[s]
    BY <1>1, <1>5
  <2>3. LineInv(l)
    BY DEF LineAndSizeInv
  <2> QED
    BY <1>1, <1>5, <2>1, <2>2, <2>3 DEF LineInv
<1>6. Adding' = Adding
  BY <1>1, <1>2 DEF Adding
<1>7. SizeOfNewest'
  BY <1>1, <1>6 DEF LineAndSizeInv, SizeOfNewest
<1> QED
  BY <1>3, <1>4, <1>5, <1>7 DEF LineAndSizeInv

LEMMA WriteKeepsLines ==
  ASSUME TypeOK, LineAndSizeInv, NEW t \in Threads, Write(t)
  PROVE  LineAndSizeInv'
<1> DEFINE d == thread[t].fd
<1>1. PICK m \in Lines : m = thread[t].line
  BY BusyThread DEF TypeOK, Write
<1>2. /\ UNCHANGED <<logged, found, newest, size>>
      /\ thread[t].at = "write" /\ thread[t] # Idle
      /\ \A s \in Threads \ {t} : thread'[s] = thread[s]
  BY DEF Write, TypeOK, Goto, Idle
<1>3. FinitelyMany'
  <2>1. {s \in Threads : thread'[s] # Idle} \subseteq {s \in Threads : thread[s] # Idle}
    BY <1>2
  <2> QED
    BY <1>2, <2>1, FS_Subset DEF LineAndSizeInv, FinitelyMany
<1>4. /\ \A f \in Files : m \notin content[f]
      /\ m \in logged
      /\ \A s \in Threads \ {t} : thread[s].line # m
  BY <1>1, <1>2 DEF LineAndSizeInv, LineInv
<1>5. /\ IsFiniteSet(Adding) /\ Cardinality(Adding) \in Nat
      /\ \A f \in Files : \A S : IsFiniteSet(content[f] \ S) /\ Cardinality(content[f] \ S) \in Nat
  BY FiniteCounts DEF LineAndSizeInv
<1>6. CASE Usable(d)
  <2>1. PICK g \in Files : g = open[d]
    BY <1>6 DEF Usable, TypeOK
  <2>2. /\ content' = [content EXCEPT ![g] = @ \union {m}] /\ lost' = lost
        /\ thread'[t].at = "add" /\ thread'[t].line = m
    <3>1. thread[t] \in ThreadState
      BY DEF TypeOK
    <3> QED
      BY <1>1, <1>2, <1>6, <2>1, <3>1 DEF Write, Goto, TypeOK, ThreadState, Idle
  <2>3. \A f \in Files : content'[f] = IF f = g THEN content[f] \union {m} ELSE content[f]
    BY <2>2 DEF TypeOK
  <2>4. LineInv(m)'
    BY <1>2, <1>4, <2>2, <2>3 DEF LineInv
  <2>5. ASSUME NEW l \in Lines, l # m PROVE LineInv(l)'
    <3>1. \A f \in Files : l \in content'[f] <=> l \in content[f]
      BY <2>3, <2>5
    <3>2. \A s \in Threads : /\ thread'[s].line = l <=> thread[s].line = l
                             /\ thread'[s].line = l => thread'[s] = thread[s]
      BY <1>1, <1>2, <2>2, <2>5
    <3>3. LineInv(l)
      BY DEF LineAndSizeInv
    <3> QED
      BY <1>2, <2>2, <3>1, <3>2, <3>3 DEF LineInv
  <2>6. Adding' = Adding \union {t} /\ t \notin Adding
    BY <1>2, <2>2 DEF Adding
  <2>7. Cardinality(Adding') = Cardinality(Adding) + 1
    BY <1>5, <2>6, FS_AddElement
  <2>8. ASSUME NEW f \in Files, NEW S
        PROVE  Cardinality(content'[f] \ S) <= Cardinality(content[f] \ S) + 1
    <3>1. PICK old, new : old = content[f] \ S /\ new = content'[f] \ S
      OBVIOUS
    <3>2. IsFiniteSet(old) /\ Cardinality(old) \in Nat
      BY <1>5, <3>1
    <3>3. new = old \/ new = old \union {m}
      BY <2>3, <3>1
    <3>4. Cardinality(old \union {m}) \in {Cardinality(old), Cardinality(old) + 1}
      BY <3>2, FS_AddElement
    <3>5. Cardinality(new) \in {Cardinality(old), Cardinality(old) + 1}
      BY <3>3, <3>4, Zenon
    <3> QED
      BY <3>1, <3>2, <3>5
  <2>9. SizeOfNewest'
    <3> SUFFICES ASSUME newest' # NoFile
                 PROVE  Cardinality(content'[newest'] \ found'[newest']) <= size' + Cardinality(Adding')
      BY DEF SizeOfNewest
    <3>1. newest \in Files /\ size \in Nat
      BY <1>2 DEF TypeOK
    <3>2. PICK new, old \in Nat : /\ old = Cardinality(content[newest] \ found[newest])
                                  /\ new = Cardinality(content'[newest] \ found[newest])
      <4>1. IsFiniteSet(content[newest] \ found[newest]) /\ Cardinality(content[newest] \ found[newest]) \in Nat
        BY <1>5, <3>1
      <4>2. content'[newest] \ found[newest] \subseteq (content[newest] \ found[newest]) \union {m}
        BY <2>3, <3>1
      <4>3. IsFiniteSet(content'[newest] \ found[newest])
        <5>1. IsFiniteSet((content[newest] \ found[newest]) \union {m})
          BY <4>1, FS_AddElement
        <5> QED
          BY <4>2, <5>1, FS_Subset
      <4> QED
        BY <4>1, <4>3, FS_CardinalityType
    <3>3. new <= old + 1
      BY <2>8, <3>1, <3>2
    <3>4. old <= size + Cardinality(Adding)
      BY <1>2, <3>2 DEF LineAndSizeInv, SizeOfNewest
    <3> QED
      BY <1>2, <1>5, <2>7, <3>1, <3>2, <3>3, <3>4
  <2> QED
    BY <1>3, <2>4, <2>5, <2>9 DEF LineAndSizeInv
<1>7. CASE ~Usable(d)
  <2>1. /\ content' = content /\ lost' = lost \union {m} /\ thread'[t] = Idle
    BY <1>1, <1>7 DEF Write, TypeOK
  <2>2. thread'[t].line = NoLine /\ thread'[t].at = "idle"
    BY <2>1 DEF Idle
  <2>3. LineInv(m)'
    BY <1>2, <1>4, <2>1, <2>2, LogAssumption DEF LineInv
  <2>4. ASSUME NEW l \in Lines, l # m PROVE LineInv(l)'
    <3>1. \A s \in Threads : /\ thread'[s].line = l <=> thread[s].line = l
                             /\ thread'[s].line = l => thread'[s] = thread[s]
      BY <1>1, <1>2, <2>2, <2>4, LogAssumption
    <3>2. LineInv(l)
      BY DEF LineAndSizeInv
    <3> QED
      BY <1>2, <2>1, <3>1, <3>2 DEF LineInv
  <2>5. Adding' = Adding
    BY <1>2, <2>2 DEF Adding
  <2>6. SizeOfNewest'
    BY <1>2, <2>1, <2>5 DEF LineAndSizeInv, SizeOfNewest
  <2> QED
    BY <1>3, <2>3, <2>4, <2>6 DEF LineAndSizeInv
<1> QED
  BY <1>6, <1>7

LEMMA AddKeepsLines ==
  ASSUME TypeOK, LineAndSizeInv, NEW t \in Threads, Add(t)
  PROVE  LineAndSizeInv'
<1>1. /\ UNCHANGED <<content, logged, lost, found, newest>> /\ size' = size + 1
      /\ \A s \in Threads \ {t} : thread'[s] = thread[s]
      /\ thread[t].at = "add" /\ thread[t] # Idle
      /\ thread'[t].line = NoLine /\ thread'[t].at = "idle"
  BY DEF Add, TypeOK, Idle
<1>2. FinitelyMany'
  <2>1. {s \in Threads : thread'[s] # Idle} \subseteq {s \in Threads : thread[s] # Idle}
    BY <1>1
  <2> QED
    BY <1>1, <2>1, FS_Subset DEF LineAndSizeInv, FinitelyMany
<1>3. ASSUME NEW l \in Lines PROVE LineInv(l)'
  <2>1. LineInv(l) /\ l # NoLine
    BY LogAssumption DEF LineAndSizeInv
  <2>2. \A s \in Threads : thread'[s].line = l => s # t /\ thread'[s] = thread[s]
    BY <1>1, <2>1
  <2>3. l \in logged => l \in lost \/ (\E f \in Files : l \in content[f])
                        \/ \E s \in Threads \ {t} : thread[s].line = l
    <3>1. CASE thread[t].line # l
      BY <2>1, <3>1 DEF LineInv
    <3>2. CASE thread[t].line = l
      BY <1>1, <2>1, <3>2 DEF LineInv
    <3> QED
      BY <1>1, <2>1, <3>1, <3>2 DEF LineInv
  <2> QED
    BY <1>1, <2>1, <2>2, <2>3 DEF LineInv
<1>4. /\ IsFiniteSet(Adding) /\ Cardinality(Adding) \in Nat
      /\ \A f \in Files : \A S : Cardinality(content[f] \ S) \in Nat
  BY FiniteCounts DEF LineAndSizeInv
<1>5. Adding' = Adding \ {t} /\ t \in Adding
  BY <1>1 DEF Adding
<1>6. Cardinality(Adding') = Cardinality(Adding) - 1
  BY <1>4, <1>5, FS_RemoveElement
<1>7. SizeOfNewest'
  <2>1. size \in Nat /\ (newest # NoFile => newest \in Files)
    BY DEF TypeOK
  <2> QED
    BY <1>1, <1>4, <1>6, <2>1 DEF LineAndSizeInv, SizeOfNewest
<1> QED
  BY <1>2, <1>3, <1>7 DEF LineAndSizeInv

LEMMA LinesAlways == Spec => [](TypeOK /\ LogInv /\ LineAndSizeInv)
<1>1. Init => LineAndSizeInv
  <2> SUFFICES ASSUME Init PROVE LineAndSizeInv
    OBVIOUS
  <2>1. \A t \in Threads : thread[t] = Idle /\ thread[t].line = NoLine
    BY DEF Init, Idle
  <2>2. FinitelyMany
    <3>1. {t \in Threads : thread[t] # Idle} = {}
      BY <2>1
    <3> QED
      BY <3>1, FS_EmptySet DEF Init, FinitelyMany
  <2>3. \A l \in Lines : LineInv(l)
    BY <2>1, LogAssumption DEF Init, LineInv
  <2>4. SizeOfNewest
    BY DEF Init, SizeOfNewest
  <2> QED
    BY <2>2, <2>3, <2>4 DEF LineAndSizeInv
<1>2. TypeOK /\ LineAndSizeInv /\ [Next]_vars => LineAndSizeInv'
  <2> SUFFICES ASSUME TypeOK, LineAndSizeInv, [Next]_vars PROVE LineAndSizeInv'
    OBVIOUS
  <2>1. CASE UNCHANGED vars
    BY <2>1 DEF vars, LineAndSizeInv, FinitelyMany, SizeOfNewest, LineInv, Adding
  <2>2. CASE Next
    BY <2>2, CallKeepsLines, MoveKeepsLines, CreateKeepsLines, WriteKeepsLines, AddKeepsLines DEF Next
  <2> QED
    BY <2>1, <2>2
<1> QED
  BY <1>1, <1>2, LogAlways, PTL DEF Spec

\* No line disappears and none is written twice, whatever files are exchanged and
\* come up again meanwhile (log_file_proxy.h:87).
THEOREM LinesAreKept == Spec => []EveryLineIsInOneFile
<1>1. TypeOK /\ LineAndSizeInv => EveryLineIsInOneFile
  <2> SUFFICES ASSUME TypeOK, LineAndSizeInv, NEW l \in logged
               PROVE  LET copies == Cardinality({f \in Files : l \in content[f]}) IN
                      \/ copies = 1
                      \/ copies = 0 /\ (l \in lost \/ \E t \in Threads : thread[t].line = l)
    BY DEF EveryLineIsInOneFile
  <2> DEFINE holders == {f \in Files : l \in content[f]}
  <2>1. LineInv(l)
    BY DEF TypeOK, LineAndSizeInv
  <2>2. ASSUME NEW f \in Files, l \in content[f] PROVE Cardinality(holders) = 1
    <3>1. holders = {f}
      BY <2>1, <2>2 DEF LineInv
    <3> QED
      BY <3>1, FS_Singleton
  <2>3. CASE \A f \in Files : l \notin content[f]
    <3>1. holders = {}
      BY <2>3
    <3>2. Cardinality(holders) = 0
      BY <3>1, FS_EmptySet
    <3> QED
      BY <2>1, <2>3, <3>2 DEF LineInv
  <2> QED
    BY <2>2, <2>3
<1> QED
  BY <1>1, LinesAlways, PTL

\* The size that decides about the exchange never falls behind the newest file, and
\* that file is the one that is written, except between create_file() and dup2()
\* (log_file_proxy.h:65, 70-73, 90, 122).
THEOREM SizeIsEnough == Spec => []SizeCoversFile
<1>1. LogInv /\ LineAndSizeInv => SizeCoversFile
  BY DEF LogInv, LineAndSizeInv, SizeCoversFile
<1> QED
  BY <1>1, LinesAlways, PTL
=============================================================================
