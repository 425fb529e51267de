----------------------------- MODULE CoSemaphore -----------------------------
(***************************************************************************)
(* The fiber semaphore and the fiber mutex (latch/coLock): wait either     *)
(* takes a permit or queues the fiber and switches it out, notify hands    *)
(* the permit to the first queued fiber.  m_mx covers each critical        *)
(* section, notify's including the hand-over to the scheduler and the      *)
(* release of the hold, which are steps of their own here.                 *)
(***************************************************************************)
EXTENDS Integers, Sequences, FiniteSets

CONSTANTS
  Fibers,
  Value,       \* the initial value: 1 makes it CoMutex
  MaxSignals   \* bound: notifies by fibers that hold no permit

ASSUME SemaphoreAssumption ==
  /\ IsFiniteSet(Fibers) /\ Value \in Nat /\ MaxSignals \in Nat

VARIABLES
  value,     \* _value
  holdQue,   \* _holdQue
  hold,      \* the share of Reactor::m_holdCount that this semaphore counts
  at,        \* where each fiber is
  fiber,     \* the local `fiber` of notify
  signals    \* notifies by fibers that hold no permit, so far

coVars == <<value, holdQue, hold, at, fiber, signals>>

NoOne == <<>>

\* out: holds nothing, in: holds a permit, blocked: in _holdQue,
\* activate, unhold: inside notify, with m_mx
At == {"out", "in", "blocked", "activate", "unhold"}

\* Types: _value never goes below zero, _holdQue holds fibers.
CoTypeOK ==
  /\ value \in Nat /\ hold \in Int /\ signals \in Nat
  /\ holdQue \in Seq(Fibers)
  /\ at \in [Fibers -> At]
  /\ fiber \in [Fibers -> Fibers \cup {NoOne}]

CoInit ==
  /\ value = Value /\ holdQue = <<>> /\ hold = 0 /\ signals = 0
  /\ at = [f \in Fibers |-> "out"]
  /\ fiber = [f \in Fibers |-> NoOne]

\* m_mx is free
Unlocked == \A f \in Fibers : at[f] \notin {"activate", "unhold"}

TryWait(f) ==
  /\ Unlocked /\ at[f] = "out" /\ value > 0
  /\ value' = value - 1
  /\ at' = [at EXCEPT ![f] = "in"]
  /\ UNCHANGED <<holdQue, hold, fiber, signals>>

\* Mutant: the last waiter is put at the front of the queue.
WaitInFront(f) ==
  \/ TryWait(f)
  \/ /\ Unlocked /\ at[f] = "out" /\ value <= 0
     /\ holdQue' = <<f>> \o holdQue
     /\ hold' = hold + 1
     /\ at' = [at EXCEPT ![f] = "blocked"]
     /\ UNCHANGED <<value, fiber, signals>>

\* CoSemaphore::wait, CoMutex::lock
Wait(f) ==
  \/ TryWait(f)
  \/ /\ Unlocked /\ at[f] = "out" /\ value <= 0
     /\ holdQue' = Append(holdQue, f)
     /\ hold' = hold + 1
     /\ at' = [at EXCEPT ![f] = "blocked"]
     /\ UNCHANGED <<value, fiber, signals>>

\* Mutant: the value is raised also when the permit goes to a waiter.
NotifyTwice(f) ==
  /\ Unlocked
  /\ \/ at[f] = "in" /\ UNCHANGED signals
     \/ at[f] = "out" /\ signals < MaxSignals /\ signals' = signals + 1
  /\ value' = value + 1
  /\ \/ /\ holdQue # <<>>
        /\ fiber' = [fiber EXCEPT ![f] = Head(holdQue)]
        /\ holdQue' = Tail(holdQue)
        /\ at' = [at EXCEPT ![f] = "activate"]
     \/ /\ holdQue = <<>>
        /\ at' = [at EXCEPT ![f] = "out"]
        /\ UNCHANGED <<holdQue, fiber>>
  /\ UNCHANGED hold

\* Mutant: the waiter is left for the next wait to find.
NotifyRaises(f) ==
  /\ Unlocked
  /\ \/ at[f] = "in" /\ UNCHANGED signals
     \/ at[f] = "out" /\ signals < MaxSignals /\ signals' = signals + 1
  /\ value' = value + 1
  /\ at' = [at EXCEPT ![f] = "out"]
  /\ UNCHANGED <<holdQue, fiber, hold>>

\* CoSemaphore::notify up to the hand-over, CoMutex::unlock.  A fiber that
\* holds a permit gives it back, another one creates a permit.
Notify(f) ==
  /\ Unlocked
  /\ \/ at[f] = "in" /\ UNCHANGED signals
     \/ at[f] = "out" /\ signals < MaxSignals /\ signals' = signals + 1
  /\ \/ /\ holdQue # <<>>
        /\ fiber' = [fiber EXCEPT ![f] = Head(holdQue)]
        /\ holdQue' = Tail(holdQue)
        /\ at' = [at EXCEPT ![f] = "activate"]
        /\ UNCHANGED value
     \/ /\ holdQue = <<>>
        /\ value' = value + 1
        /\ at' = [at EXCEPT ![f] = "out"]
        /\ UNCHANGED <<holdQue, fiber>>
  /\ UNCHANGED hold

\* Scheduler::activateFiber: the fiber is runnable and returns from wait ...
Activate(f) ==
  /\ at[f] = "activate"
  /\ at' = [at EXCEPT ![f] = "unhold", ![fiber[f]] = "in"]
  /\ fiber' = [fiber EXCEPT ![f] = NoOne]
  /\ UNCHANGED <<value, holdQue, hold, signals>>

\* ... and the hold it counted is released.
Unhold(f) ==
  /\ at[f] = "unhold"
  /\ at' = [at EXCEPT ![f] = "out"]
  /\ hold' = hold - 1
  /\ UNCHANGED <<value, holdQue, fiber, signals>>

CoNext == \E f \in Fibers : Wait(f) \/ Notify(f) \/ Activate(f) \/ Unhold(f)

CoSpec == CoInit /\ [][CoNext]_coVars

\* A fiber in notify goes on, one that holds a permit gives it back.
CoFairSpec ==
  /\ CoSpec
  /\ \A f \in Fibers : /\ WF_coVars(Activate(f)) /\ WF_coVars(Unhold(f))
                       /\ SF_coVars(at[f] = "in" /\ Notify(f))

-----------------------------------------------------------------------------
(* Properties                                                              *)

\* Fibers to which a permit has been given.
Holders == {f \in Fibers : \/ at[f] = "in"
                           \/ \E g \in Fibers : at[g] = "activate" /\ fiber[g] = f}

\* Permits are neither lost nor duplicated by a notify that races with waits
\* (coLock.cpp 9-45).
PermitsConserved == value + Cardinality(Holders) = Value + signals

\* CoMutex, that is Value = 1 and so far only holders unlocked: no two fibers are
\* between lock and unlock, also while a permit is being handed over.
MutexExclusive ==
  Value = 1 /\ signals = 0 =>
    \A f, g \in Fibers : at[f] = "in" /\ at[g] = "in" => f = g

\* A blocked fiber gets its permit as long as permits come back: the queue
\* is served in order and no newcomer overtakes it.
WaiterServed == \A f \in Fibers : (at[f] = "blocked") ~> (at[f] = "in")

\* The refinement mapping: a permit notify has passed on already has its holder.
Abs == INSTANCE Semaphore
         WITH permits <- value, holders <- Holders,
              waiting <- {f \in Fibers : at[f] = "blocked"} \ Holders

\* CoSemaphore::wait, tryWait and notify implement a counting semaphore: every
\* step of them is a step of Semaphore or changes nothing it can see.
AbsSpec == Abs!SemSpec
=============================================================================
