------------------------------ MODULE Semaphore ------------------------------
(***************************************************************************)
(* What a counting semaphore promises its fibers, whatever it is made of:  *)
(* a permit is either free or with one fiber, and none is free while a     *)
(* fiber waits.                                                            *)
(***************************************************************************)
EXTENDS Integers

CONSTANTS Fibers, Value, MaxSignals

VARIABLES permits, holders, waiting, signals

semVars == <<permits, holders, waiting, signals>>

SemInit ==
  /\ permits = Value /\ holders = {} /\ waiting = {} /\ signals = 0

Acquire(f) ==
  /\ f \notin holders \cup waiting /\ permits > 0
  /\ permits' = permits - 1 /\ holders' = holders \cup {f}
  /\ UNCHANGED <<waiting, signals>>

Enqueue(f) ==
  /\ f \notin holders \cup waiting /\ permits = 0
  /\ waiting' = waiting \cup {f}
  /\ UNCHANGED <<permits, holders, signals>>

\* A permit comes back, or is created by a signal: to one waiting fiber, and
\* only if there is none, to everyone.
Give(rest) ==
  \/ \E g \in waiting : /\ waiting' = waiting \ {g}
                        /\ holders' = rest \cup {g}
                        /\ UNCHANGED permits
  \/ /\ waiting = {} /\ permits' = permits + 1 /\ holders' = rest
     /\ UNCHANGED waiting

Release(f) == f \in holders /\ Give(holders \ {f}) /\ UNCHANGED signals

Signal == signals < MaxSignals /\ signals' = signals + 1 /\ Give(holders)

SemNext == Signal \/ \E f \in Fibers : Acquire(f) \/ Enqueue(f) \/ Release(f)

SemSpec == SemInit /\ [][SemNext]_semVars
=============================================================================
