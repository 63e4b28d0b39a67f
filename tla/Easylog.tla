------------------------------- MODULE Easylog -------------------------------
(***************************************************************************)
(* utils/easylog/easylog.h: the logger.  A line of a sufficient level is   *)
(* formatted and then written by the thread that logs it, to the console,  *)
(* to the file of its level if that has one, and to the file of all        *)
(* levels.  What a file does with a line is the matter of LogFileProxy;    *)
(* here writing a line is one step, which may fail for a file.             *)
(***************************************************************************)
EXTENDS Format, FiniteSets

CONSTANTS
  LogThreads,
  Calls,          \* the calls of log(): a level, a text and its arguments
  MaxLines        \* bound on the calls

Level == [all |-> 0, trace |-> 1, debug |-> 2, info |-> 3, warn |-> 4, error |-> 5, fatal |-> 6]

ASSUME CallsAssumption ==
  \A c \in Calls :
    /\ c.level \in DOMAIN Level /\ IsText(c.text) /\ IsText(c.args)
    /\ OutOfRange \notin {c.text[i] : i \in DOMAIN c.text} \union {c.args[i] : i \in DOMAIN c.args}

VARIABLES
  level,          \* level_
  output,         \* per destination: the numbers of the calls written to it
  writer,         \* per thread: the number of its call, and where it is still to go
  logged,         \* history: the calls so far, with the lines made of them
  lost,           \* history: the calls and files of the writes that have failed
  thrown          \* a call has thrown out of its handler, which ends the process

logVars == <<level, output, writer, logged, lost, thrown>>

Destinations == {"console", "ALL", "WARN", "ERROR", "FATAL"}

AtRest == [call |-> 0, todo |-> <<>>]

\* A logger before init_easylog().
LogInit ==
  /\ level = Level.all
  /\ output = [d \in Destinations |-> <<>>]
  /\ writer = [t \in LogThreads |-> AtRest]
  /\ logged = <<>>
  /\ lost = {}
  /\ thrown = FALSE

\* init_easylog()
InitEasylog(l) ==
  /\ level' = l
  /\ UNCHANGED <<output, writer, logged, lost, thrown>>

\* Mutant: a line that has a file of its own is written to no other.
WriteFileOnce(l) ==
  CASE l = "warn"  -> <<"console", "WARN">>
    [] l = "error" -> <<"console", "ERROR">>
    [] l = "fatal" -> <<"console", "FATAL">>
    [] OTHER       -> <<"console", "ALL">>

\* write_console() and write_file().
WriteFile(l) ==
  CASE l = "warn"  -> <<"console", "WARN", "ALL">>
    [] l = "error" -> <<"console", "ERROR", "ALL">>
    [] l = "fatal" -> <<"console", "FATAL", "ALL">>
    [] OTHER       -> <<"console", "ALL">>

IsLogged(l) == Level[l] >= level

\* Thread t calls log(): nothing, an exception of format(), or a line to write.
Log(t, c) ==
  /\ writer[t] = AtRest /\ ~thrown
  /\ Len(logged) < MaxLines
  /\ LET line  == IF IsLogged(c.level) THEN Format(c.text, c.args) ELSE <<>>
         fails == OutOfRange \in {line[i] : i \in DOMAIN line} IN
     /\ logged' = Append(logged, [call |-> c, line |-> line])
     /\ thrown' = fails
     /\ writer' = IF IsLogged(c.level) /\ ~fails
                  THEN [writer EXCEPT ![t] = [call |-> Len(logged) + 1, todo |-> WriteFile(c.level)]]
                  ELSE writer
  /\ UNCHANGED <<level, output, lost>>

\* Thread t writes its line to the next destination; a file that cannot be opened
\* or written costs the line, and nothing else.
Write(t) ==
  /\ writer[t] # AtRest /\ ~thrown
  /\ LET w == writer[t] d == Head(w.todo) IN
     /\ \/ output' = [output EXCEPT ![d] = Append(@, w.call)] /\ UNCHANGED lost
        \/ d # "console" /\ lost' = lost \union {<<w.call, d>>} /\ UNCHANGED output
     /\ writer' = [writer EXCEPT ![t] =
                     IF Len(w.todo) = 1 THEN AtRest ELSE [w EXCEPT !.todo = Tail(@)]]
  /\ UNCHANGED <<level, logged, thrown>>

LogStep == \E t \in LogThreads : Write(t) \/ \E c \in Calls : Log(t, c)

-----------------------------------------------------------------------------
Written(n, d) == \E i \in DOMAIN output[d] : output[d][i] = n

\* Every placeholder of a line that is logged holds its own argument and all other
\* text is where it was, also next to placeholders; a call throws if and only if
\* it is logged with too few arguments (format.h:37-74, easylog.h:69).
LinesAreFormatted ==
  \A n \in DOMAIN logged : IsLogged(logged[n].call.level) =>
    LET text      == logged[n].call.text
        args      == logged[n].call.args
        line      == logged[n].line
        holes     == IF args = <<>> THEN {} ELSE {i \in DOMAIN text : IsPlaceholder(text, i)}
        before(i) == Cardinality({h \in holes : h < i})
    IN IF Cardinality(holes) > Len(args)
       THEN thrown /\ n = Len(logged)
       ELSE /\ thrown => n # Len(logged)
            /\ Len(line) = Len(text) - Cardinality(holes)
            /\ \A i \in holes : line[i - before(i)] = args[before(i) + 1]
            /\ \A i \in DOMAIN text : i \notin holes /\ i - 1 \notin holes =>
                 line[i - before(i)] = text[i]

\* What threads log at once stays complete in the file of all levels: a line in the
\* file of its level is there as well, once, unless its thread is just about to
\* write it or the write to that file has failed (easylog.h:139-155,
\* log_file_proxy.h:58-62, 117-127).
NoneIsMissingInAll ==
  \A n \in DOMAIN logged :
    (\E d \in Destinations : Written(n, d)) =>
      \/ Cardinality({i \in DOMAIN output["ALL"] : output["ALL"][i] = n}) = 1
      \/ \E t \in LogThreads : writer[t].call = n
      \/ <<n, "ALL">> \in lost

-----------------------------------------------------------------------------
(* The inductive invariant behind NoneIsMissingInAll.                      *)

\* What a thread may still have to write: the file of all levels comes last.
Remaining ==
  {<<"ALL">>} \union {<<d, "ALL">> : d \in Destinations \ {"ALL"}}
    \union {<<"console", d, "ALL">> : d \in Destinations \ {"ALL"}}

WritersInv ==
  /\ writer \in [LogThreads -> {AtRest} \union [call : DOMAIN logged, todo : Remaining]]
  /\ \A t, u \in LogThreads :
       writer[t] # AtRest /\ writer[t].call = writer[u].call => t = u
  /\ \A t \in LogThreads : writer[t] # AtRest => ~Written(writer[t].call, "ALL")

\* A line is in the file of all levels once, and is there, or lost to it, before its
\* thread is at rest.
OutputInv ==
  /\ output \in [Destinations -> Seq(DOMAIN logged)]
  /\ \A i, j \in DOMAIN output["ALL"] : output["ALL"][i] = output["ALL"][j] => i = j
  /\ \A n \in DOMAIN logged :
       (\E d \in Destinations : Written(n, d)) =>
         \/ Written(n, "ALL") \/ <<n, "ALL">> \in lost
         \/ \E t \in LogThreads : writer[t].call = n

LoggerInv == WritersInv /\ OutputInv
=============================================================================
