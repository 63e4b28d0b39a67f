------------------------------- MODULE LogCalls -------------------------------
(***************************************************************************)
(* The calls of the logger in tcp/tcp_switch_session.cpp.  Of each text,   *)
(* the words that say what a placeholder stands for are kept, and of each  *)
(* argument what it is.                                                    *)
(***************************************************************************)
EXTENDS Easylog

Hole(label) == <<label, "{", "}">>

Call(lvl, text, args) == [level |-> lvl, text |-> text, args |-> args]

\* What stands before a value in a line that says what it means.
Label == [serial |-> "target", client |-> "client[", session |-> "[",
          length |-> "len[", data |-> "data[", error |-> "error["]

Target == Hole("target") \o Hole("[")

Start == Call("all", Hole("client["), <<"client">>)

TargetConnected ==
  Call("all", Hole("target") \o Hole("client[") \o Target,
       <<"serial", "client", "serial", "session">>)

ConnectFails ==
  Call("warn", Hole("target") \o Hole("client[") \o Target \o Hole("error["),
       <<"serial", "client", "serial", "session", "error">>)

ReadFromClient ==
  Call("all", Hole("client[") \o Hole("len[") \o Hole("data["), <<"client", "length", "data">>)

ClientFails == Call("warn", Hole("client[") \o Hole("error["), <<"client", "error">>)

ReadFromTarget ==
  Call("all", Hole("target") \o <<"client[", "%s">> \o Target \o Hole("len[") \o Hole("data["),
       <<"serial", "client", "serial", "session", "length", "data">>)

TargetFails ==
  Call("warn", Hole("target") \o Hole("client[") \o Target \o Hole("error["),
       <<"serial", "client", "serial", "session", "error">>)

WrittenToClient ==
  Call("all", Hole("client[") \o Target \o Hole("len[") \o Hole("data["),
       <<"client", "serial", "session", "length", "data">>)

WriteToClientFails ==
  Call("all", Hole("client[") \o Target \o Hole("error[") \o Hole("data["),
       <<"client", "serial", "session", "error", "data">>)

WrittenToTarget ==
  Call("all", Hole("target") \o Hole("client[") \o Target \o Hole("len[") \o Hole("data["),
       <<"serial", "client", "serial", "session", "length", "data">>)

WriteToTargetFails ==
  Call("all", Hole("target") \o Hole("client[") \o Target \o Hole("error[") \o Hole("data["),
       <<"serial", "client", "serial", "session", "error", "data">>)

KeepaliveExpires ==
  Call("all", <<"{", "}", "minutes">> \o Hole("client["), <<"minutes", "client">>)

TimerFails == Call("warn", Hole("error["), <<"error">>)

SessionCalls ==
  {Start, TargetConnected, ConnectFails, ReadFromClient, ClientFails, ReadFromTarget,
   TargetFails, WrittenToClient, WriteToClientFails, WrittenToTarget, WriteToTargetFails,
   KeepaliveExpires, TimerFails}

-----------------------------------------------------------------------------
\* In a line of the log every value stands behind the words that name it, those of
\* its own placeholder (the texts of the calls, "len[{}]--data[{}]" in line 119).
ValuesUnderTheirLabels ==
  \A n \in DOMAIN logged : LET line == logged[n].line IN
    \A i \in 2 .. Len(line) : line[i] \in DOMAIN Label => line[i - 1] = Label[line[i]]
=============================================================================
