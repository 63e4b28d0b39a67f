-------------------------- MODULE ConnectionLedger --------------------------
(***************************************************************************)
(* What the TCP proxy promises about the life of its sessions and about    *)
(* the number of connections tcp_flow_statistics prints: a session is      *)
(* opened once, counted once, closed once by whoever comes first, and its  *)
(* memory is not reused before it is closed.                               *)
(***************************************************************************)
EXTENDS Naturals

CONSTANT Sessions

VARIABLES
  state,      \* per session: "free" | "open" | "closed"
  count       \* the number of connections in the statistics

LedgerInit ==
  /\ state = [s \in Sessions |-> "free"]
  /\ count = 0

OpenSession(s) ==
  /\ state[s] = "free"
  /\ state' = [state EXCEPT ![s] = "open"]
  /\ count' = count + 1

CloseSession(s) ==
  /\ state[s] = "open"
  /\ state' = [state EXCEPT ![s] = "closed"]
  /\ count' = count - 1

ReleaseSession(s) ==
  /\ state[s] = "closed"
  /\ state' = [state EXCEPT ![s] = "free"]
  /\ UNCHANGED count

LedgerNext == \E s \in Sessions : OpenSession(s) \/ CloseSession(s) \/ ReleaseSession(s)

LedgerSpec == LedgerInit /\ [][LedgerNext]_<<state, count>>
=============================================================================
