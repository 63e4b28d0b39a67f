--------------------------- MODULE UdpSessionTable ---------------------------
(***************************************************************************)
(* What the UDP proxy promises about its clients: an address is served by  *)
(* one session at a time, from the moment its entry is made to the moment  *)
(* the session is closed; the entry is then removed, once, and only the    *)
(* next session of the address may take its place.  A session is destroyed *)
(* after its entry, never before.                                          *)
(***************************************************************************)
EXTENDS Naturals

CONSTANTS Clients, Sessions, NoSession

VARIABLES
  table,      \* per address: its session
  state       \* per session: "free" | "open" | "closed"

TableInit ==
  /\ table = [c \in Clients |-> NoSession]
  /\ state = [s \in Sessions |-> "free"]

\* A client sends its first datagram, or the first after its session has left.
Enter(c, s) ==
  /\ table[c] = NoSession /\ state[s] = "free"
  /\ table' = [table EXCEPT ![c] = s]
  /\ state' = [state EXCEPT ![s] = "open"]

CloseSession(s) ==
  /\ state[s] = "open"
  /\ state' = [state EXCEPT ![s] = "closed"]
  /\ UNCHANGED table

\* Its handlers may keep a session that has left, or there are none any more.
Leave(c) ==
  LET s == table[c] IN
  /\ s # NoSession /\ state[s] = "closed"
  /\ table' = [table EXCEPT ![c] = NoSession]
  /\ state' \in {state, [state EXCEPT ![s] = "free"]}

Release(s) ==
  /\ state[s] = "closed" /\ \A c \in Clients : table[c] # s
  /\ state' = [state EXCEPT ![s] = "free"]
  /\ UNCHANGED table

TableNext ==
  \/ \E c \in Clients : Leave(c) \/ \E s \in Sessions : Enter(c, s)
  \/ \E s \in Sessions : CloseSession(s) \/ Release(s)

TableSpec == TableInit /\ [][TableNext]_<<table, state>>
=============================================================================
