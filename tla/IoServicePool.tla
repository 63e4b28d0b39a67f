---------------------------- MODULE IoServicePool ----------------------------
(***************************************************************************)
(* common/io_service_pool.{h,cpp}: a pool of Boost.Asio io_services, each  *)
(* run by exactly one thread, handed out round-robin.                      *)
(*                                                                         *)
(* The part of Asio the proxy relies on is modelled with it: a completion  *)
(* that is posted to an io_service joins the end of a FIFO queue, and the  *)
(* io_service's only thread runs one handler at a time.                    *)
(***************************************************************************)
EXTENDS Naturals, Sequences

CONSTANT PoolSize       \* io_threads of the configuration file

\* With io_threads = 0 the pool is empty and get_io_service() indexes an
\* empty vector, so the program has no defined behaviour at all.
ASSUME PoolSizeAssumption == PoolSize \in Nat \ {0}

VARIABLES
  next_io_service,      \* index of the io_service handed out next
  posted                \* per io_service: its queue of posted completions

Ios == 0 .. PoolSize - 1

\* The completions that wait in the queue of k, in no order.
Contents(queue) == {queue[j] : j \in DOMAIN queue}
Queued(k) == Contents(posted[k])

\* Mutant: the index runs off the end of the pool.
NextIndexUnwrapped(i) == i + 1

\* The index after i, wrapping to 0 at the end of the pool.
NextIndex(i) == IF i + 1 = PoolSize THEN 0 ELSE i + 1

\* get_io_service() returns k.
GetIoService(k) ==
  /\ k = next_io_service
  /\ next_io_service' = NextIndex(next_io_service)

\* The caller has asked for "handed" io_services before the threads start.
PoolInit(handed) ==
  /\ next_io_service = handed % PoolSize
  /\ posted = [k \in Ios |-> <<>>]
=============================================================================
