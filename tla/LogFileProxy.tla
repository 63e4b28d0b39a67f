----------------------------- MODULE LogFileProxy -----------------------------
(***************************************************************************)
(* utils/easylog/log_file_proxy.h: a log file that is written by all       *)
(* threads of the process, and exchanged for a new one when it has grown   *)
(* to max_file_size_.  Lines are written without the lock; the lock only   *)
(* keeps two threads from creating files at once.                          *)
(*                                                                         *)
(* A file is named after the local time in milliseconds.  Two files made   *)
(* in one millisecond are the same file, and so are two made an hour apart *)
(* when the clock is set back, so any name may come up again.  Nobody sees *)
(* a file before its descriptor is installed: create_file() is one step.   *)
(***************************************************************************)
EXTENDS Integers, FiniteSets

CONSTANTS
  Threads, NoThread,
  Lines, NoLine,        \* lines to be logged, each of one unit of length
  Files, NoFile,        \* names of files
  Fds,                  \* descriptors the process may use for log files
  MaxFileSize,          \* max_file_size_, in units
  OpenMayFail,
  LinkMayFail           \* whether remove() and symlink() may fail

Closed == -1

ASSUME LogAssumption ==
  /\ NoThread \notin Threads /\ NoLine \notin Lines /\ NoFile \notin Files
  /\ Fds \subseteq Nat \ {0}
  /\ MaxFileSize \in Nat
  /\ OpenMayFail \in BOOLEAN
  /\ LinkMayFail \in BOOLEAN

VARIABLES
  fd,           \* fd_
  size,         \* curr_file_size_
  mutex,        \* the thread that holds mt_
  open,         \* the process's descriptor table
  content,      \* per file: the lines in it
  link,         \* the file the symbolic link names, if there is a link
  thread,       \* where each thread is in write_log()
  logged,       \* lines write_log() was called with
  lost,         \* lines whose write() failed
  found,        \* history: what was in a file when the size was last reset for it
  newest,       \* history: the file that was created last,
  linked        \* and the same if create_link() succeeded for it, or NoFile

history == <<found, newest, linked>>

vars == <<fd, size, mutex, open, content, link, thread, logged, lost, history>>

Idle == [at |-> "idle", line |-> NoLine, fd |-> Closed, refused |-> FALSE]

ThreadState ==
  {Idle}
    \union [at : {"test", "lock", "create", "size", "try", "recreate", "load", "write", "add"},
            line : Lines, fd : Fds \union {Closed}, refused : BOOLEAN]
    \union [at : {"install", "reinstall"}, line : Lines, fd : Fds, refused : BOOLEAN]

Usable(d) == d \in Fds /\ open[d] # NoFile

Goto(t, pc) == thread' = [thread EXCEPT ![t].at = pc]

Init ==
  /\ fd = Closed
  /\ size = 0
  /\ mutex = NoThread
  /\ open = [d \in Fds |-> NoFile]
  /\ content = [f \in Files |-> {}]
  /\ link = NoFile
  /\ thread = [t \in Threads |-> Idle]
  /\ logged = {}
  /\ lost = {}
  /\ found = [f \in Files |-> {}]
  /\ newest = NoFile
  /\ linked = NoFile

-----------------------------------------------------------------------------
(* write_log()                                                             *)

\* Thread t logs a line.
Call(t, l) ==
  /\ thread[t] = Idle
  /\ l \notin logged
  /\ logged' = logged \union {l}
  /\ thread' = [thread EXCEPT ![t] =
                  [at |-> "test", line |-> l, fd |-> Closed, refused |-> FALSE]]
  /\ UNCHANGED <<fd, size, mutex, open, content, link, lost, history>>

\* The first test of is_opened(), without the lock.
TestOpened(t) ==
  /\ thread[t].at = "test"
  /\ Goto(t, IF fd > 0 THEN "size" ELSE "lock")
  /\ UNCHANGED <<fd, size, mutex, open, content, link, logged, lost, history>>

\* Mutant: the file is opened without a second test.
LockUntested(t) ==
  /\ thread[t].at = "lock"
  /\ mutex = NoThread
  /\ mutex' = t /\ Goto(t, "create")
  /\ UNCHANGED <<fd, size, open, content, link, logged, lost, history>>

\* The second test of is_opened(), with the lock.
LockToOpen(t) ==
  /\ thread[t].at = "lock"
  /\ mutex = NoThread
  /\ IF fd > 0 THEN Goto(t, "size") /\ UNCHANGED mutex
               ELSE Goto(t, "create") /\ mutex' = t
  /\ UNCHANGED <<fd, size, open, content, link, logged, lost, history>>

\* The test of the size, without the lock.
TestSize(t) ==
  /\ thread[t].at = "size"
  /\ Goto(t, IF size >= MaxFileSize THEN "try" ELSE "load")
  /\ UNCHANGED <<fd, size, mutex, open, content, link, logged, lost, history>>

\* Mutant: the file is exchanged without the lock.
RotateUnlocked(t) ==
  /\ thread[t].at = "try"
  /\ Goto(t, "recreate")
  /\ UNCHANGED <<fd, size, mutex, open, content, link, logged, lost, history>>

\* try_lock(): a thread that does not get the lock writes to whatever is there.
TryLock(t) ==
  /\ thread[t].at = "try"
  /\ IF mutex = NoThread THEN Goto(t, "recreate") /\ mutex' = t
                         ELSE Goto(t, "load") /\ UNCHANGED mutex
  /\ UNCHANGED <<fd, size, open, content, link, logged, lost, history>>

\* create_link() for file f: remove() and symlink(), either of which may fail with
\* no more than a message.
CreateLink(f) ==
  \/ link' = f /\ linked' = f
  \/ LinkMayFail /\ link' \in {link, NoFile} /\ linked' = NoFile

\* Mutant: open() with O_TRUNC for O_APPEND.
CreateTruncates(t, next) ==
  \E d \in Fds, f \in Files :
    /\ open[d] = NoFile
    /\ open' = [open EXCEPT ![d] = f]
    /\ size' = 0
    /\ CreateLink(f)
    /\ newest' = f
    /\ content' = [content EXCEPT ![f] = {}]
    /\ found' = [found EXCEPT ![f] = {}]
    /\ thread' = [thread EXCEPT ![t].at = next, ![t].fd = d]
    /\ UNCHANGED mutex

\* create_file() and create_link(), when open() succeeds: O_APPEND keeps what is
\* in the file.  next is where thread t goes on.
Created(t, next) ==
  \E d \in Fds, f \in Files :
    /\ open[d] = NoFile
    /\ open' = [open EXCEPT ![d] = f]
    /\ size' = 0
    /\ CreateLink(f)
    /\ newest' = f
    /\ found' = [found EXCEPT ![f] = content[f]]
    /\ thread' = [thread EXCEPT ![t].at = next, ![t].fd = d]
    /\ UNCHANGED <<mutex, content>>

\* create_file() when open() fails: the lock is left at once, fd_ stays.
NotCreated(t, next) ==
  /\ OpenMayFail \/ \A d \in Fds : open[d] # NoFile
  /\ mutex' = NoThread
  /\ thread' = [thread EXCEPT ![t].at = next, ![t].refused = TRUE]
  /\ UNCHANGED <<size, open, content, link, history>>

\* create_file() for the first file, and for the next one.
CreateFile(t) ==
  /\ \/ thread[t].at = "create" /\ (Created(t, "install") \/ NotCreated(t, "size"))
     \/ thread[t].at = "recreate" /\ (Created(t, "reinstall") \/ NotCreated(t, "load"))
  /\ UNCHANGED <<fd, logged, lost>>

\* fd_ = create_file()
Install(t) ==
  /\ thread[t].at = "install"
  /\ fd' = thread[t].fd
  /\ mutex' = NoThread
  /\ Goto(t, "size")
  /\ UNCHANGED <<size, open, content, link, logged, lost, history>>

\* Mutant: fd_ is replaced and the old descriptor closed.
ReinstallByAssignment(t) ==
  LET d == thread[t].fd IN
  /\ thread[t].at = "reinstall"
  /\ fd' = d
  /\ open' = [e \in Fds |-> IF e = fd THEN NoFile ELSE open[e]]
  /\ mutex' = NoThread
  /\ Goto(t, "load")
  /\ UNCHANGED <<size, content, link, logged, lost, history>>

\* dup2(fd, fd_), which does nothing if fd_ is not a descriptor, and close(fd).
Reinstall(t) ==
  LET d == thread[t].fd IN
  /\ thread[t].at = "reinstall"
  /\ open' = [e \in Fds |-> IF e = d THEN NoFile ELSE IF e = fd THEN open[d] ELSE open[e]]
  /\ mutex' = NoThread
  /\ Goto(t, "load")
  /\ UNCHANGED <<fd, size, content, link, logged, lost, history>>

\* write_file() reads fd_ for its call of write().
LoadFd(t) ==
  /\ thread[t].at = "load"
  /\ thread' = [thread EXCEPT ![t].at = "write", ![t].fd = fd]
  /\ UNCHANGED <<fd, size, mutex, open, content, link, logged, lost, history>>

\* Mutant: the -1 of a failed write() is added to the size.
WriteCountsErrors(t) ==
  LET d == thread[t].fd IN
  /\ thread[t].at = "write"
  /\ IF Usable(d)
     THEN /\ content' = [content EXCEPT ![open[d]] = @ \union {thread[t].line}]
          /\ Goto(t, "add")
          /\ UNCHANGED <<lost, size>>
     ELSE /\ lost' = lost \union {thread[t].line}
          /\ size' = size - 1
          /\ thread' = [thread EXCEPT ![t] = Idle]
          /\ UNCHANGED content
  /\ UNCHANGED <<fd, mutex, open, link, logged, history>>

\* write(): the line is appended, or lost if the descriptor is not open.
Write(t) ==
  LET d == thread[t].fd IN
  /\ thread[t].at = "write"
  /\ IF Usable(d)
     THEN /\ content' = [content EXCEPT ![open[d]] = @ \union {thread[t].line}]
          /\ Goto(t, "add")
          /\ UNCHANGED lost
     ELSE /\ lost' = lost \union {thread[t].line}
          /\ thread' = [thread EXCEPT ![t] = Idle]
          /\ UNCHANGED content
  /\ UNCHANGED <<fd, size, mutex, open, link, logged, history>>

\* Mutant: the size is assigned instead of added to.
AddAssigns(t) ==
  /\ thread[t].at = "add"
  /\ size' = 1
  /\ thread' = [thread EXCEPT ![t] = Idle]
  /\ UNCHANGED <<fd, mutex, open, content, link, logged, lost, history>>

\* curr_file_size_ += size
Add(t) ==
  /\ thread[t].at = "add"
  /\ size' = size + 1
  /\ thread' = [thread EXCEPT ![t] = Idle]
  /\ UNCHANGED <<fd, mutex, open, content, link, logged, lost, history>>

Next ==
  \E t \in Threads :
    \/ \E l \in Lines : Call(t, l)
    \/ TestOpened(t) \/ LockToOpen(t) \/ TestSize(t) \/ TryLock(t)
    \/ CreateFile(t) \/ Install(t) \/ Reinstall(t)
    \/ LoadFd(t) \/ Write(t) \/ Add(t)

Spec == Init /\ [][Next]_vars

-----------------------------------------------------------------------------
TypeOK ==
  /\ fd \in Fds \union {Closed}
  /\ size \in Nat
  /\ mutex \in Threads \union {NoThread}
  /\ open \in [Fds -> Files \union {NoFile}]
  /\ content \in [Files -> SUBSET Lines]
  /\ link \in Files \union {NoFile}
  /\ thread \in [Threads -> ThreadState]
  /\ logged \subseteq Lines
  /\ lost \subseteq Lines
  /\ found \in [Files -> SUBSET Lines]
  /\ newest \in Files \union {NoFile}
  /\ linked \in Files \union {NoFile}

\* Thread t has created a file that is not installed yet.
Installing(t) == thread[t].at \in {"install", "reinstall"}

\* The threads that have written a line and not counted it yet.
Adding == {t \in Threads : thread[t].at = "add"}

\* No exchange of files makes a line disappear or appear twice: a line that was
\* logged is in exactly one file, unless its write() failed or is still to come
\* (log_file_proxy.h:87, where an existing file may be opened again).
EveryLineIsInOneFile ==
  \A l \in logged :
    LET copies == Cardinality({f \in Files : l \in content[f]}) IN
    \/ copies = 1
    \/ copies = 0 /\ (l \in lost \/ \E t \in Threads : thread[t].line = l)

\* Lines are written without the lock while other threads exchange the file: a
\* descriptor that was read is still open when it is used, so that a line is
\* only lost if open() has failed for its own thread (log_file_proxy.h:65-79,
\* 119).
WritesToOpenFile ==
  \A t \in Threads : thread[t].at = "write" => Usable(thread[t].fd) \/ thread[t].refused

\* The size never falls behind the file it is of.
SizeOfNewest ==
  newest # NoFile =>
    Cardinality(content[newest] \ found[newest]) <= size + Cardinality(Adding)

\* Unless a file is about to be installed, the one that is written is the newest.
WrittenIsNewest ==
  fd # Closed /\ (\A t \in Threads : ~Installing(t)) => open[fd] = newest

\* The size that decides about the exchange is, at any time, at least what has
\* been written to the file created last, apart from lines that are being
\* counted and from what the file held before (log_file_proxy.h:65, 90, 122); and
\* that file is the one that is written, except while an exchange is between
\* create_file() and dup2() (:70, :73).  In that window, however long the thread
\* is held up, lines still go to the old file and are counted for the new one, so
\* that the old one may outgrow its limit.
SizeCoversFile == SizeOfNewest /\ WrittenIsNewest

\* Apart from an exchange in progress, and unless the last create_link() failed,
\* the symbolic link names the file that is written: the link made last and the
\* descriptor installed last are of the same thread (log_file_proxy.h:92, 73,
\* 106-107).
LinkNamesFile ==
  fd # Closed /\ (\A t \in Threads : ~Installing(t)) /\ linked # NoFile => link = open[fd]

\* Apart from an exchange in progress the process has one descriptor of the log
\* at most: neither the race to open it nor an exchange leaks one, which would
\* end with no socket left for connections (log_file_proxy.h:56-63, 74).
NoDescriptorLeaks ==
  (\A t \in Threads : ~Installing(t)) => \A d \in Fds : open[d] # NoFile => d = fd

-----------------------------------------------------------------------------
(* The inductive invariant behind the properties of the descriptors.       *)

\* Files are created and installed with the lock held, the first one while
\* nothing is installed.
CreatorHoldsLock(t) ==
  /\ thread[t].at \in {"create", "install", "recreate", "reinstall"} => mutex = t
  /\ thread[t].at \in {"create", "install"} => fd = Closed

\* A file that is to be installed is open on a descriptor of its own, and is the
\* newest.
NewFile(t) ==
  Installing(t) =>
    /\ Usable(thread[t].fd) /\ thread[t].fd # fd
    /\ newest = open[thread[t].fd]

\* A thread that has passed the first half of write_log() has a file to write to
\* or has failed to open one.
FileIsKnown(t) ==
  thread[t].refused \/
    /\ thread[t].at \in {"size", "try", "recreate", "reinstall", "load", "write"} => fd # Closed
    /\ thread[t].at = "write" => thread[t].fd = fd

\* The descriptors in use are the installed one and those about to be installed.
DescriptorsKnown ==
  /\ fd # Closed => Usable(fd)
  /\ \A d \in Fds : Usable(d) =>
       d = fd \/ \E t \in Threads : Installing(t) /\ thread[t].fd = d

LinkIsNewest == linked # NoFile => link = newest

LogInv ==
  /\ DescriptorsKnown /\ WrittenIsNewest /\ LinkIsNewest
  /\ \A t \in Threads : CreatorHoldsLock(t) /\ NewFile(t) /\ FileIsKnown(t)

-----------------------------------------------------------------------------
(* The inductive invariant behind the properties of the lines.             *)

\* A line is one thread's until it has been written, to one file or to none.
LineInv(l) ==
  /\ \A f, g \in Files : l \in content[f] /\ l \in content[g] => f = g
  /\ \A f \in Files : l \in content[f] => l \in logged
  /\ \A t, u \in Threads : thread[t].line = l /\ thread[u].line = l => t = u
  /\ \A t \in Threads : thread[t].line = l =>
       /\ l \in logged
       /\ thread[t].at = "add" <=> \E f \in Files : l \in content[f]
  /\ l \in logged =>
       \/ l \in lost \/ \E f \in Files : l \in content[f]
       \/ \E t \in Threads : thread[t].line = l

FinitelyMany == IsFiniteSet(logged) /\ IsFiniteSet({t \in Threads : thread[t] # Idle})

LineAndSizeInv == FinitelyMany /\ SizeOfNewest /\ \A l \in Lines : LineInv(l)
=============================================================================
