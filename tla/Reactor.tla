------------------------------- MODULE Reactor -------------------------------
(***************************************************************************)
(* The event half of scheduler/Reactor: fibers register for the            *)
(* readability or writability of a file descriptor, other threads cancel,  *)
(* and the reactor's thread takes what epoll reports and hands the waiting *)
(* fibers back to the scheduler.  FdEvent::lk makes each operation atomic, *)
(* including its epoll_ctl; between epoll_wait and the lock a report can   *)
(* become stale.                                                           *)
(*                                                                         *)
(* epoll and the descriptors are external.  Edge-triggered: a descriptor   *)
(* is put on the ready list when it becomes ready and when epoll_ctl finds *)
(* it ready, and epoll_wait takes it off.                                  *)
(***************************************************************************)
EXTENDS Integers, FiniteSets

CONSTANTS
  Fds, Fibers, NoFiber,
  Types        \* the event types in use: READ, WRITE

ASSUME ReactorAssumption ==
  /\ IsFiniteSet(Fds) /\ IsFiniteSet(Types) /\ NoFiber \notin Fibers

VARIABLES
  event,   \* FdEvent::event
  task,    \* FdEvent::rdtask and wrtask
  hold,    \* the share of m_holdCount that registrations count
  batch,   \* what epoll_wait returned and run() has not dealt with
  kev,     \* epoll's interest list: {} means not registered
  level,   \* what each descriptor is ready for
  hup,     \* descriptors in EPOLLERR or EPOLLHUP
  edge,    \* epoll's ready list
  woken    \* fibers handed to the scheduler, not resumed yet (or a null pointer)

reactorVars == <<event, task, hold, batch, kev, level, hup, edge, woken>>
kernelVars == <<level, hup>>

Entries == [fd : Fds, ev : SUBSET Types, hup : BOOLEAN]

ReactorInit ==
  /\ event = [fd \in Fds |-> {}] /\ kev = [fd \in Fds |-> {}]
  /\ task = [fd \in Fds |-> [t \in Types |-> NoFiber]]
  /\ hold = 0 /\ batch = {}
  /\ level = [fd \in Fds |-> {}] /\ hup = {} /\ edge = {} /\ woken = {}

-----------------------------------------------------------------------------
(* The kernel                                                              *)

\* What fd is ready for: after a hang-up, for everything.
Ready(fd) == IF fd \in hup THEN Types ELSE level[fd]

\* epoll_ctl: ADD, MOD, and with nothing left DEL.
EpollCtl(fd, evs) ==
  /\ kev' = [kev EXCEPT ![fd] = evs]
  /\ edge' = IF evs = {} THEN edge \ {fd}
             ELSE IF evs \cap Ready(fd) # {} \/ fd \in hup THEN edge \cup {fd}
             ELSE edge

Arrive(fd, t) ==
  /\ t \notin level[fd]
  /\ level' = [level EXCEPT ![fd] = @ \cup {t}]
  /\ edge' = IF t \in kev[fd] THEN edge \cup {fd} ELSE edge
  /\ UNCHANGED <<event, task, hold, batch, kev, hup, woken>>

HangUp(fd) ==
  /\ fd \notin hup
  /\ hup' = hup \cup {fd}
  /\ edge' = IF kev[fd] # {} THEN edge \cup {fd} ELSE edge
  /\ UNCHANGED <<event, task, hold, batch, kev, level, woken>>

\* A fiber reads or writes until the descriptor says EAGAIN.
Consume(fd, t) ==
  /\ t \in level[fd]
  /\ level' = [level EXCEPT ![fd] = @ \ {t}]
  /\ UNCHANGED <<event, task, hold, batch, kev, hup, edge, woken>>

-----------------------------------------------------------------------------
(* Operations                                                              *)

Waiting(f, fd, t) == task[fd][t] = f
Registered(f) == \E fd \in Fds, t \in Types : Waiting(f, fd, t)

\* addEvent by the running fiber f, which then switches out; a type that is
\* taken is refused and changes nothing.
AddEvent(f, fd, t) ==
  /\ t \notin event[fd]
  /\ EpollCtl(fd, event[fd] \cup {t})
  /\ task' = [task EXCEPT ![fd][t] = f]
  /\ event' = [event EXCEPT ![fd] = @ \cup {t}]
  /\ hold' = hold + 1
  /\ UNCHANGED <<batch, kernelVars, woken>>

\* The common part of the operations that take types off a descriptor.
TakeOff(fd, ts) ==
  /\ EpollCtl(fd, event[fd] \ ts)
  /\ event' = [event EXCEPT ![fd] = @ \ ts]
  /\ task' = [task EXCEPT ![fd] = [t \in Types |-> IF t \in ts THEN NoFiber ELSE @[t]]]
  /\ hold' = hold - Cardinality(ts)

\* triggerEvent for each type: the waiting fibers go to the scheduler.
TriggerEvent(fd, ts) ==
  /\ TakeOff(fd, ts)
  /\ woken' = woken \cup {task[fd][t] : t \in ts}

\* delEvent: unlike cancelEvent it drops the fiber.
DelEvent(fd, t) ==
  /\ t \in event[fd]
  /\ TakeOff(fd, {t})
  /\ UNCHANGED <<batch, kernelVars, woken>>

CancelEvent(fd, t) ==
  /\ t \in event[fd]
  /\ TriggerEvent(fd, {t})
  /\ UNCHANGED <<batch, kernelVars>>

\* Mutant: one hold is released for all the types of the descriptor.
CancelAllOnce(fd) ==
  /\ event[fd] # {}
  /\ EpollCtl(fd, {})
  /\ event' = [event EXCEPT ![fd] = {}]
  /\ task' = [task EXCEPT ![fd] = [t \in Types |-> NoFiber]]
  /\ hold' = hold - 1
  /\ woken' = woken \cup {task[fd][t] : t \in event[fd]}
  /\ UNCHANGED <<batch, kernelVars>>

CancelAll(fd) ==
  /\ event[fd] # {}
  /\ TriggerEvent(fd, event[fd])
  /\ UNCHANGED <<batch, kernelVars>>

-----------------------------------------------------------------------------
(* Reactor::run                                                            *)

\* epoll_wait: what the listed descriptors are ready for now, if of interest.
EpollWait ==
  /\ batch = {}
  /\ batch' = {[fd |-> fd, ev |-> kev[fd] \cap Ready(fd), hup |-> fd \in hup] :
                 fd \in {g \in edge : kev[g] \cap Ready(g) # {} \/ g \in hup}}
  /\ edge' = {}
  /\ UNCHANGED <<event, task, hold, kev, kernelVars, woken>>

\* real_event as run() computes it from the report, under the lock
RealEvent(e) == e.ev \cup (IF e.hup THEN event[e.fd] ELSE {})

\* Mutant: a report that is not about everything registered is skipped.
HandleSkips(e) ==
  LET real == RealEvent(e)
  IN /\ batch' = batch \ {e}
     /\ \/ /\ real \cap event[e.fd] # event[e.fd] \/ event[e.fd] = {}
           /\ UNCHANGED <<event, task, hold, kev, edge, woken>>
        \/ /\ real \cap event[e.fd] = event[e.fd] /\ event[e.fd] # {}
           /\ TakeOff(e.fd, real)
           /\ woken' = woken \cup {task[e.fd][t] : t \in real}
     /\ UNCHANGED kernelVars

\* Mutant: a stale report ends the loop over the reports.
HandleBreaks(e) ==
  LET real == RealEvent(e)
  IN /\ \/ /\ real \cap event[e.fd] = {}
           /\ batch' = {}
           /\ UNCHANGED <<event, task, hold, kev, edge, woken>>
        \/ /\ real \cap event[e.fd] # {}
           /\ batch' = batch \ {e}
           /\ TakeOff(e.fd, real)
           /\ woken' = woken \cup {task[e.fd][t] : t \in real}
     /\ UNCHANGED kernelVars

\* One report: nothing of it registered any more is skipped, otherwise every
\* type of the report is triggered.  A type that is not registered hands over
\* a null fiber and still counts as a hold.
Handle(e) ==
  LET real == RealEvent(e)
  IN /\ batch' = batch \ {e}
     /\ \/ /\ real \cap event[e.fd] = {}
           /\ UNCHANGED <<event, task, hold, kev, edge, woken>>
        \/ /\ real \cap event[e.fd] # {}
           /\ TakeOff(e.fd, real)
           /\ woken' = woken \cup {task[e.fd][t] : t \in real}
     /\ UNCHANGED kernelVars

-----------------------------------------------------------------------------
(* The most general client: any fiber that runs may register, any thread   *)
(* may cancel, and the scheduler resumes what it was handed.               *)

Resume(f) ==
  /\ f \in woken
  /\ woken' = woken \ {f}
  /\ UNCHANGED <<event, task, hold, batch, kev, kernelVars, edge>>

Register(f, fd, t) == ~Registered(f) /\ f \notin woken /\ AddEvent(f, fd, t)

ReactorStep == EpollWait \/ \E e \in batch : Handle(e)

KernelStep(fd, t) == Arrive(fd, t) \/ Consume(fd, t)
ClientStep(fd, t) == \/ CancelEvent(fd, t) \/ DelEvent(fd, t)
                     \/ \E f \in Fibers : Register(f, fd, t)

\* triggerEvent asserts that the type is registered.  If not, the FATAL log of
\* the assertion makes the logging thread abort the program.
Crashed == NoFiber \in woken

ReactorNext ==
  \/ /\ ~Crashed
     /\ \/ ReactorStep
        \/ \E f \in Fibers : Resume(f)
        \/ \E fd \in Fds : HangUp(fd) \/ CancelAll(fd)
        \/ \E fd \in Fds, t \in Types : KernelStep(fd, t) \/ ClientStep(fd, t)
  \/ Crashed /\ UNCHANGED reactorVars

ReactorSpec == ReactorInit /\ [][ReactorNext]_reactorVars

\* The reactor's thread keeps going through its loop.
ReactorFairSpec ==
  ReactorSpec /\ WF_reactorVars(EpollWait)
  /\ \A e \in Entries : WF_reactorVars(e \in batch /\ Handle(e))

-----------------------------------------------------------------------------
(* Properties                                                              *)

\* Edge triggering loses no readiness: a fiber that waits for what is already
\* there has a report on the ready list or in the reactor's hands, although
\* registering, cancelling and dealing with older reports rewrite the interest.
NoMissedReadiness ==
  \A fd \in Fds, t \in Types : t \in event[fd] /\ t \in Ready(fd) =>
    \/ fd \in edge
    \/ \E e \in batch : e.fd = fd /\ (t \in e.ev \/ e.hup)

\* m_holdCount counts the registered fibers: the stop checks of processers and
\* reactor rely on it (Reactor.cpp 157, 230, 255, 347).
HoldMatches ==
  ~Crashed => hold = Cardinality({r \in Fds \X Types : task[r[1]][r[2]] # NoFiber})

\* A fiber does not wait for ever for what stays ready.
ReadyWakes ==
  \A fd \in Fds, t \in Types :
    ~ <>[](task[fd][t] # NoFiber /\ t \in Ready(fd))

\* The assertion of triggerEvent (Reactor.cpp 360): run() triggers only types
\* that are registered, so no null fiber is handed over.
NoNullFiber == NoFiber \notin woken
=============================================================================
