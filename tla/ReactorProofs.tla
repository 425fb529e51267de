---------------------------- MODULE ReactorProofs ----------------------------
(***************************************************************************)
(* The reactor and the hooked calls above it, for every set of descriptors,*)
(* fibers and event types and every bound: edge-triggered reporting loses  *)
(* no readiness, the hold count matches the registrations, and a call that *)
(* waits is woken once, leaves no timer behind and, if it connects, tells  *)
(* the truth.                                                              *)
(***************************************************************************)
EXTENDS HookIO, FiniteSetTheorems, TLAPS

\* The table, epoll's interest list, and what the kernel knows.
ReactorType ==
  /\ event \in [Fds -> SUBSET Types] /\ kev \in [Fds -> SUBSET Types]
  /\ level \in [Fds -> SUBSET Types]
  /\ hup \subseteq Fds /\ edge \subseteq Fds
  /\ batch \subseteq Entries

\* epoll knows what fd is registered for, and whatever of it is there has a
\* report on the ready list or in the reactor's hands.
Listed(fd, t) == fd \in edge \/ \E e \in batch : e.fd = fd /\ (t \in e.ev \/ e.hup)
Reported(fd) ==
  /\ kev[fd] = event[fd]
  /\ \A t \in Types : t \in event[fd] /\ t \in Ready(fd) => Listed(fd, t)

\* L are the descriptors that are not closed: in the reactor's own
\* specification all of them.
EdgeOn(L) == ReactorType /\ \A fd \in L : Reported(fd)

(* Nothing is registered at first.                                         *)
LEMMA EdgeInit == ReactorInit => EdgeOn(Fds)
BY DEF ReactorInit, EdgeOn, ReactorType, Reported

(* Rewriting the interest of a descriptor puts it on the ready list if it  *)
(* is ready for what it is now registered for.                             *)
LEMMA EpollCtlInv ==
  ASSUME NEW L \in SUBSET Fds, EdgeOn(L), NEW fd \in Fds, NEW evs \in SUBSET Types,
         EpollCtl(fd, evs), event' = [event EXCEPT ![fd] = evs],
         UNCHANGED kernelVars, batch' \subseteq batch,
         \A e \in batch \ batch' : e.fd = fd
  PROVE  EdgeOn(L)'
<1> USE DEF EdgeOn, ReactorType, kernelVars
<1>1. /\ event' \in [Fds -> SUBSET Types] /\ event'[fd] = evs
      /\ \A g \in Fds \ {fd} : event'[g] = event[g] /\ kev'[g] = kev[g]
      /\ kev' \in [Fds -> SUBSET Types] /\ kev'[fd] = evs
      /\ edge' \subseteq Fds /\ batch' \subseteq Entries
      /\ level' = level /\ hup' = hup
      /\ \A g \in Fds \ {fd} : g \in edge => g \in edge'
      /\ evs \cap Ready(fd) # {} => fd \in edge'
  BY DEF EpollCtl
<1>2. \A g \in Fds : Ready(g)' = Ready(g)
  BY <1>1 DEF Ready
<1>3. ASSUME NEW g \in L PROVE Reported(g)'
  <2>1. CASE g = fd
    BY <2>1, <1>1, <1>2 DEF Reported, Listed
  <2>2. CASE g # fd
    <3>1. \A t \in Types : Listed(g, t) => Listed(g, t)'
      BY <2>2, <1>1 DEF Listed
    <3> QED
      BY <2>2, <3>1, <1>1, <1>2 DEF Reported
  <2> QED
    BY <2>1, <2>2
<1> QED
  BY <1>1, <1>3

(* Cancelling and triggering leave the rest of the types registered.       *)
LEMMA TakeOffInv ==
  ASSUME NEW L \in SUBSET Fds, EdgeOn(L), NEW fd \in Fds, NEW ts, TakeOff(fd, ts),
         UNCHANGED kernelVars, batch' \subseteq batch, \A e \in batch \ batch' : e.fd = fd
  PROVE  EdgeOn(L)'
<1>1. event[fd] \ ts \in SUBSET Types
  BY DEF EdgeOn, ReactorType
<1>2. event' = [event EXCEPT ![fd] = event[fd] \ ts]
  BY DEF TakeOff
<1> QED
  BY <1>1, <1>2, EpollCtlInv DEF TakeOff

(* What becomes ready and is of interest is put on the ready list.         *)
LEMMA KernelInv ==
  ASSUME NEW L \in SUBSET Fds, EdgeOn(L), NEW fd \in Fds,
         HangUp(fd) \/ \E t \in Types : KernelStep(fd, t)
  PROVE  EdgeOn(L)'
<1> USE DEF EdgeOn, ReactorType
<1>1. ASSUME NEW t \in Types, Arrive(fd, t) PROVE EdgeOn(L)'
  BY <1>1 DEF Arrive, Reported, Listed, Ready
<1>2. ASSUME NEW t \in Types, Consume(fd, t) PROVE EdgeOn(L)'
  BY <1>2 DEF Consume, Reported, Listed, Ready, kernelVars
<1>3. CASE HangUp(fd)
  BY <1>3 DEF HangUp, Reported, Listed, Ready
<1> QED
  BY <1>1, <1>2, <1>3 DEF KernelStep

(* epoll_wait moves the ready list into the reactor's hands.               *)
LEMMA EpollWaitInv ==
  ASSUME NEW L \in SUBSET Fds, EdgeOn(L), EpollWait PROVE EdgeOn(L)'
<1> USE DEF EdgeOn, ReactorType, kernelVars
<1> DEFINE Entry(g) == [fd |-> g, ev |-> kev[g] \cap Ready(g), hup |-> g \in hup]
           Due == {g \in edge : kev[g] \cap Ready(g) # {} \/ g \in hup}
<1>1. /\ batch' = {Entry(g) : g \in Due} /\ batch = {}
      /\ UNCHANGED <<event, kev, level, hup>> /\ edge' = {}
  BY DEF EpollWait
<1>2. batch' \subseteq Entries
  <2> SUFFICES ASSUME NEW g \in Due PROVE Entry(g) \in Entries
    BY <1>1
  <2> QED
    BY DEF Entries
<1>3. ASSUME NEW g \in L PROVE Reported(g)'
  <2> SUFFICES ASSUME NEW t \in Types, t \in event'[g], t \in Ready(g)'
               PROVE  \E e \in batch' : e.fd = g /\ (t \in e.ev \/ e.hup)
    BY <1>1 DEF Reported, Listed
  <2>1. t \in event[g] /\ t \in Ready(g)
    BY <1>1 DEF Ready
  <2>2. g \in edge /\ kev[g] = event[g]
    BY <2>1, <1>1 DEF Reported, Listed
  <2>3. Entry(g) \in batch' /\ Entry(g).fd = g /\ t \in Entry(g).ev
    BY <2>1, <2>2, <1>1
  <2> QED
    BY <2>3
<1> QED
  BY <1>1, <1>2, <1>3

(* A report that is dropped and was of no use loses nothing.               *)
LEMMA DropReport ==
  ASSUME NEW L \in SUBSET Fds, EdgeOn(L), NEW e \in batch, batch' = batch \ {e},
         UNCHANGED <<event, kev, edge>>, UNCHANGED kernelVars,
         e.fd \notin L \/ RealEvent(e) \cap event[e.fd] = {}
  PROVE  EdgeOn(L)'
<1>1. ASSUME NEW g \in L PROVE Reported(g)'
  <2> SUFFICES ASSUME NEW t \in Types, t \in event'[g], t \in Ready(g)'
               PROVE  Listed(g, t)'
    BY DEF EdgeOn, Reported
  <2>1. Listed(g, t)
    BY DEF EdgeOn, Reported, Ready, kernelVars
  <2>2. ~(e.fd = g /\ (t \in e.ev \/ e.hup))
    BY DEF RealEvent
  <2> QED
    BY <2>1, <2>2 DEF Listed
<1> QED
  BY <1>1 DEF EdgeOn, ReactorType, kernelVars

(* A report that is dealt with is stale, or its types are taken off and    *)
(* the others are reported again.                                          *)
LEMMA HandleInv ==
  ASSUME NEW L \in SUBSET Fds, EdgeOn(L), NEW e \in batch, Handle(e) PROVE EdgeOn(L)'
<1>1. e.fd \in Fds /\ batch' = batch \ {e} /\ UNCHANGED kernelVars
  BY DEF Handle, Entries, EdgeOn, ReactorType
<1>2. CASE RealEvent(e) \cap event[e.fd] = {} /\ UNCHANGED <<event, kev, edge>>
  BY <1>1, <1>2, DropReport
<1>3. CASE TakeOff(e.fd, RealEvent(e))
  BY <1>1, <1>3, TakeOffInv
<1> QED
  BY <1>2, <1>3 DEF Handle

(* Every step keeps the invariant.                                         *)
LEMMA EdgeStep ==
  ASSUME NEW L \in SUBSET Fds, EdgeOn(L), [ReactorNext]_reactorVars PROVE EdgeOn(L)'
<1>1. CASE UNCHANGED reactorVars \/ \E f \in Fibers : Resume(f)
  BY <1>1 DEF reactorVars, kernelVars, Resume, EdgeOn, ReactorType,
              Reported, Listed, Ready
<1>2. CASE ReactorStep
  BY <1>2, EpollWaitInv, HandleInv DEF ReactorStep
<1>3. ASSUME NEW fd \in Fds, CancelAll(fd) PROVE EdgeOn(L)'
  BY <1>3, TakeOffInv DEF CancelAll, TriggerEvent
<1>4. ASSUME NEW fd \in Fds, HangUp(fd) \/ \E t \in Types : KernelStep(fd, t)
      PROVE  EdgeOn(L)'
  BY <1>4, KernelInv
<1>5. ASSUME NEW fd \in Fds, NEW t \in Types, CancelEvent(fd, t) \/ DelEvent(fd, t)
      PROVE  EdgeOn(L)'
  BY <1>5, TakeOffInv DEF CancelEvent, DelEvent, TriggerEvent
<1>6. ASSUME NEW fd \in Fds, NEW t \in Types, NEW f \in Fibers, Register(f, fd, t)
      PROVE  EdgeOn(L)'
  <2>1. /\ event[fd] \cup {t} \in SUBSET Types
        /\ event' = [event EXCEPT ![fd] = event[fd] \cup {t}]
    BY <1>6 DEF Register, AddEvent, EdgeOn, ReactorType
  <2> QED
    BY <1>6, <2>1, EpollCtlInv DEF Register, AddEvent
<1> QED
  BY <1>1, <1>2, <1>3, <1>4, <1>5, <1>6 DEF ReactorNext, ClientStep

(* Reactor.cpp 137-170 and 325-350: a fiber that waits for what is there   *)
(* has a report on the ready list or in the reactor's hands.               *)
THEOREM NoMissedReadinessHolds == ReactorSpec => []NoMissedReadiness
<1>1. EdgeOn(Fds) /\ [ReactorNext]_reactorVars => EdgeOn(Fds)'
  BY EdgeStep
<1>2. EdgeOn(Fds) => NoMissedReadiness
  BY DEF EdgeOn, Reported, Listed, NoMissedReadiness
<1> QED
  BY <1>1, <1>2, EdgeInit, PTL DEF ReactorSpec

-----------------------------------------------------------------------------
(* The hold count                                                          *)

\* The registrations that m_holdCount counts.
Waiters == {r \in Fds \X Types : task[r[1]][r[2]] # NoFiber}

\* A type is registered exactly if it has a fiber.
TableInv ==
  /\ event \in [Fds -> SUBSET Types]
  /\ task \in [Fds -> [Types -> Fibers \cup {NoFiber}]]
  /\ \A fd \in Fds, t \in Types : t \in event[fd] <=> task[fd][t] # NoFiber
  /\ batch \subseteq Entries

HoldInv == TableInv /\ (~Crashed => hold = Cardinality(Waiters))

\* There are finitely many pairs of a descriptor and a type.
LEMMA WaitersFinite == IsFiniteSet(Waiters)
<1>1. IsFiniteSet(Fds \X Types)
  BY ReactorAssumption, FS_Product
<1> QED
  BY <1>1, FS_Subset DEF Waiters

(* Registering adds one waiter.                                            *)
LEMMA AddEventHold ==
  ASSUME TableInv, NEW f \in Fibers, NEW fd \in Fds, NEW t \in Types, AddEvent(f, fd, t)
  PROVE  /\ TableInv'
         /\ Waiters' = Waiters \cup {<<fd, t>>} /\ <<fd, t>> \notin Waiters
<1> USE DEF TableInv
<1>1. /\ event' = [event EXCEPT ![fd] = @ \cup {t}] /\ t \notin event[fd]
      /\ task' = [task EXCEPT ![fd][t] = f] /\ batch' = batch
  BY DEF AddEvent
<1>2. task' \in [Fds -> [Types -> Fibers \cup {NoFiber}]]
  BY <1>1
<1>3. \A g \in Fds, u \in Types : task'[g][u] = IF g = fd /\ u = t THEN f ELSE task[g][u]
  BY <1>1
<1>4. f # NoFiber
  BY ReactorAssumption
<1>5. TableInv'
  BY <1>1, <1>2, <1>3, <1>4
<1>6. \A r \in Fds \X Types : r \in Waiters' <=> r \in Waiters \/ r = <<fd, t>>
  BY <1>3, <1>4 DEF Waiters
<1> QED
  BY <1>1, <1>5, <1>6 DEF Waiters

(* Taking types off leaves the other waiters.                              *)
LEMMA TakeOffHold ==
  ASSUME TableInv, NEW fd \in Fds, NEW ts \in SUBSET Types, TakeOff(fd, ts),
         batch' \subseteq batch
  PROVE  /\ TableInv'
         /\ \A g \in Fds, u \in Types :
              task'[g][u] = IF g = fd /\ u \in ts THEN NoFiber ELSE task[g][u]
<1> USE DEF TableInv
<1>1. /\ event' = [event EXCEPT ![fd] = @ \ ts]
      /\ task' = [task EXCEPT ![fd] = [t \in Types |-> IF t \in ts THEN NoFiber ELSE @[t]]]
  BY DEF TakeOff
<1>2. task' \in [Fds -> [Types -> Fibers \cup {NoFiber}]]
  BY <1>1
<1>3. \A g \in Fds, u \in Types :
        task'[g][u] = IF g = fd /\ u \in ts THEN NoFiber ELSE task[g][u]
  BY <1>1
<1> QED
  BY <1>1, <1>2, <1>3

(* A hold is released for each of the types, all of which were registered. *)
LEMMA TakeOffCount ==
  ASSUME TableInv, hold = Cardinality(Waiters),
         NEW fd \in Fds, NEW ts \in SUBSET Types, TakeOff(fd, ts), batch' \subseteq batch,
         \A t \in ts : task[fd][t] # NoFiber
  PROVE  hold' = Cardinality(Waiters')
<1> DEFINE Gone == {fd} \X ts
<1>1. IsFiniteSet(ts)
  BY ReactorAssumption, FS_Subset
<1>2. Cardinality(Gone) = Cardinality(ts)
  <2>1. IsFiniteSet({fd}) /\ Cardinality({fd}) = 1 /\ Cardinality(ts) \in Nat
    BY <1>1, FS_Singleton, FS_CardinalityType
  <2>2. Cardinality({fd} \X ts) = 1 * Cardinality(ts)
    BY <1>1, <2>1, FS_Product
  <2> QED
    BY <2>1, <2>2
<1>3. Waiters' = Waiters \ Gone
  <2>1. \A g \in Fds, u \in Types :
          task'[g][u] = IF g = fd /\ u \in ts THEN NoFiber ELSE task[g][u]
    BY TakeOffHold
  <2>2. \A r \in Fds \X Types :
          r \in {fd} \X ts <=> r[1] = fd /\ r[2] \in ts
    OBVIOUS
  <2> QED
    BY <2>1, <2>2 DEF Waiters
<1>4. Waiters \cap Gone = Gone
  BY DEF Waiters
<1>5. Cardinality(Waiters') = Cardinality(Waiters) - Cardinality(ts)
  <2> HIDE DEF Gone
  <2>1. Cardinality(Waiters \ Gone) = Cardinality(Waiters) - Cardinality(Waiters \cap Gone)
    BY WaitersFinite, FS_Difference
  <2> QED
    BY <2>1, <1>2, <1>3, <1>4
<1> QED
  BY <1>5 DEF TakeOff

(* What triggers only registered types keeps the count; a null fiber that  *)
(* is handed over ends the program.                                        *)
LEMMA TakeOffInvHold ==
  ASSUME HoldInv, ~Crashed, NEW fd \in Fds, NEW ts \in SUBSET Types, TakeOff(fd, ts),
         batch' \subseteq batch,
         (\A t \in ts : task[fd][t] # NoFiber) \/ Crashed'
  PROVE  HoldInv'
BY TakeOffHold, TakeOffCount DEF HoldInv

\* A reported event takes off what it triggers.
LEMMA HandleHold ==
  ASSUME HoldInv, ~Crashed, NEW e \in batch, Handle(e)
  PROVE  HoldInv'
<1> USE DEF HoldInv
<1>1. /\ e.fd \in Fds /\ e.ev \in SUBSET Types /\ batch' = batch \ {e}
      /\ RealEvent(e) \in SUBSET Types
  BY DEF Handle, Entries, TableInv, RealEvent
<1>2. CASE UNCHANGED <<event, task, hold, kev, edge, woken>>
  BY <1>1, <1>2 DEF TableInv, Waiters, Crashed
<1>3. CASE /\ TakeOff(e.fd, RealEvent(e))
           /\ woken' = woken \cup {task[e.fd][t] : t \in RealEvent(e)}
  <2>1. (\A t \in RealEvent(e) : task[e.fd][t] # NoFiber) \/ Crashed'
    BY <1>3 DEF Crashed
  <2> QED
    BY <1>1, <1>3, <2>1, TakeOffInvHold
<1> QED
  BY <1>2, <1>3 DEF Handle

\* Cancelling takes off what it finds.
LEMMA CancelHold ==
  ASSUME HoldInv, ~Crashed, NEW fd \in Fds, NEW t \in Types,
         CancelEvent(fd, t) \/ CancelAll(fd) \/ DelEvent(fd, t)
  PROVE  HoldInv'
<1>1. /\ event[fd] \in SUBSET Types
      /\ \A u \in event[fd] : task[fd][u] # NoFiber
  BY DEF HoldInv, TableInv
<1>2. CASE CancelAll(fd)
  <2>1. TakeOff(fd, event[fd]) /\ batch' = batch
    BY <1>2 DEF CancelAll, TriggerEvent
  <2> QED
    BY <1>1, <2>1, TakeOffInvHold
<1>3. CASE CancelEvent(fd, t) \/ DelEvent(fd, t)
  <2>1. TakeOff(fd, {t}) /\ batch' = batch /\ t \in event[fd]
    BY <1>3 DEF CancelEvent, DelEvent, TriggerEvent
  <2> QED
    BY <1>1, <2>1, TakeOffInvHold
<1> QED
  BY <1>2, <1>3

\* Registering adds one waiter and counts it.
LEMMA RegisterHold ==
  ASSUME HoldInv, ~Crashed, NEW f \in Fibers, NEW fd \in Fds, NEW t \in Types,
         AddEvent(f, fd, t)
  PROVE  HoldInv'
<1>1. hold' = hold + 1 /\ UNCHANGED woken
  BY DEF AddEvent
<1>2. Cardinality(Waiters') = Cardinality(Waiters) + 1
  <2> DEFINE r == <<fd, t>>
  <2>1. Waiters' = Waiters \cup {r} /\ r \notin Waiters
    BY AddEventHold DEF HoldInv
  <2> HIDE DEF r
  <2>2. Cardinality(Waiters \cup {r}) = Cardinality(Waiters) + 1
    BY <2>1, WaitersFinite, FS_AddElement
  <2> QED
    BY <2>1, <2>2
<1> QED
  BY <1>1, <1>2, AddEventHold DEF HoldInv, Crashed

\* Nothing waits and nothing is counted at first.
LEMMA HoldInit == ReactorInit => HoldInv
<1> SUFFICES ASSUME ReactorInit PROVE HoldInv
  OBVIOUS
<1>1. Waiters = {}
  BY DEF ReactorInit, Waiters
<1> QED
  BY <1>1, FS_EmptySet DEF ReactorInit, HoldInv, TableInv, Crashed

(* epoll's reports are about descriptors and types.                        *)
LEMMA EpollWaitEntries ==
  ASSUME event \in [Fds -> SUBSET Types], kev \in [Fds -> SUBSET Types], edge \subseteq Fds, EpollWait
  PROVE  batch' \subseteq Entries
<1> SUFFICES ASSUME NEW g \in edge
             PROVE  [fd |-> g, ev |-> kev[g] \cap Ready(g), hup |-> g \in hup] \in Entries
  BY DEF EpollWait
<1> QED
  BY DEF Entries

EpollType == kev \in [Fds -> SUBSET Types] /\ edge \subseteq Fds

\* Every step keeps the count equal to the waiters.
LEMMA HoldStep == HoldInv /\ EpollType /\ [ReactorNext]_reactorVars => HoldInv'
<1> SUFFICES ASSUME HoldInv, EpollType, [ReactorNext]_reactorVars PROVE HoldInv'
  OBVIOUS
<1> USE DEF HoldInv
<1>1. CASE UNCHANGED reactorVars
  BY <1>1 DEF reactorVars, TableInv, Waiters, Crashed
<1>2. ASSUME ~Crashed, NEW f \in Fibers, Resume(f) PROVE HoldInv'
  BY <1>2 DEF Resume, TableInv, Waiters, Crashed
<1>3. ASSUME ~Crashed, EpollWait PROVE HoldInv'
  <2>1. batch' \subseteq Entries
    BY <1>3, EpollWaitEntries DEF EpollType, TableInv
  <2> QED
    BY <1>3, <2>1 DEF EpollWait, TableInv, Waiters, Crashed
<1>4. ASSUME ~Crashed, NEW e \in batch, Handle(e) PROVE HoldInv'
  BY <1>4, HandleHold
<1>5. ASSUME ~Crashed, NEW fd \in Fds, HangUp(fd) PROVE HoldInv'
  BY <1>5 DEF HangUp, TableInv, Waiters, Crashed
<1>6. ASSUME ~Crashed, NEW fd \in Fds, CancelAll(fd) PROVE HoldInv'
  <2>1. \E t \in Types : TRUE
    BY <1>6 DEF CancelAll, TableInv
  <2> QED
    BY <1>6, <2>1, CancelHold
<1>7. ASSUME ~Crashed, NEW fd \in Fds, NEW t \in Types, KernelStep(fd, t) PROVE HoldInv'
  BY <1>7 DEF KernelStep, Arrive, Consume, TableInv, Waiters, Crashed
<1>8. ASSUME ~Crashed, NEW fd \in Fds, NEW t \in Types, ClientStep(fd, t) PROVE HoldInv'
  BY <1>8, CancelHold, RegisterHold DEF ClientStep, Register
<1> QED
  BY <1>1, <1>2, <1>3, <1>4, <1>5, <1>6, <1>7, <1>8 DEF ReactorNext, ReactorStep

(* Reactor.cpp 157, 230, 255 and 347: m_holdCount is the number of fibers  *)
(* registered, until a null fiber is handed over.                          *)
THEOREM HoldMatchesHolds == ReactorSpec => []HoldMatches
<1>1. /\ EdgeOn(Fds) /\ [ReactorNext]_reactorVars => EdgeOn(Fds)'
      /\ EdgeOn(Fds) => EpollType
  BY EdgeStep DEF EdgeOn, ReactorType, EpollType
<1>2. ReactorSpec => []HoldInv
  BY <1>1, EdgeInit, HoldInit, HoldStep, PTL DEF ReactorSpec
<1>3. HoldInv => HoldMatches
  BY DEF HoldInv, HoldMatches, Waiters
<1> QED
  BY <1>2, <1>3, PTL

-----------------------------------------------------------------------------
(* The hooked calls                                                        *)

\* What cbs holds.
Callbacks == [f : Fibers, it : Nat, fd : Fds, t : Types,
              pc : {"armed", "queued", "locked", "cancel"}]

\* The types of the calls' state, and of the table and the kernel below them.
CallType ==
  /\ io \in [Fibers -> Calls] /\ iter \in [Fibers -> Nat]
  /\ cbs \subseteq Callbacks
  /\ ret \in [Fibers -> {"none", "ok", "error", "timeout"}]
  /\ fdst \in [Fds -> {"open", "cancelled", "deleted", "closed"}]

KernelType ==
  /\ TableInv
  /\ kev \in [Fds -> SUBSET Types] /\ level \in [Fds -> SUBSET Types]
  /\ hup \subseteq Fds /\ edge \subseteq Fds

\* A registration is the one of a call that is switched out, and a call that
\* is switched out is registered or has been handed over.
WaitInv ==
  /\ \A fd \in Fds, t \in Types : task[fd][t] # NoFiber =>
       /\ io[task[fd][t]].pc = "hold" /\ task[fd][t] \notin woken
       /\ io[task[fd][t]].fd = fd /\ io[task[fd][t]].t = t
  /\ \A f \in Fibers :
       /\ f \in woken => io[f].pc = "hold"
       /\ io[f].pc = "hold" => f \in woken \/ task[io[f].fd][io[f].t] = f

\* The invariant of the calls as a whole.
CallInv == CallType /\ KernelType /\ WaitInv

(* No call is under way and nobody waits.                                  *)
LEMMA CallInit == HookInit => CallInv
<1> SUFFICES ASSUME HookInit PROVE CallInv
  OBVIOUS
<1>1. TableInv
  BY HoldInit DEF HookInit, HoldInv
<1>2. KernelType
  BY <1>1 DEF HookInit, ReactorInit, KernelType
<1>3. CallType /\ \A f \in Fibers : io[f].pc = "idle"
  BY DEF HookInit, CallType, Calls
<1>4. WaitInv
  BY <1>3, ReactorAssumption DEF HookInit, ReactorInit, WaitInv
<1> QED
  BY <1>2, <1>3, <1>4 DEF CallInv

(* Handing over whoever waits for some types of a descriptor: each of them *)
(* is switched out, and is registered nowhere else.                        *)
LEMMA TriggerWait ==
  ASSUME CallInv, NEW fd \in Fds, NEW ts \in SUBSET Types, TakeOff(fd, ts),
         woken' = woken \cup {task[fd][t] : t \in ts},
         UNCHANGED kernelVars, io' = io, batch' \subseteq batch
  PROVE  KernelType' /\ WaitInv'
<1> USE DEF CallInv
<1>1. /\ TableInv'
      /\ \A g \in Fds, u \in Types :
           task'[g][u] = IF g = fd /\ u \in ts THEN NoFiber ELSE task[g][u]
  BY TakeOffHold DEF KernelType
<1>2. KernelType'
  <2>1. event[fd] \ ts \in SUBSET Types
    BY DEF KernelType, TableInv
  <2>2. kev' \in [Fds -> SUBSET Types] /\ edge' \subseteq Fds
    BY <2>1 DEF TakeOff, EpollCtl, KernelType
  <2> QED
    BY <1>1, <2>2 DEF KernelType, kernelVars
<1>3. ASSUME NEW g \in Fds, NEW u \in Types, task'[g][u] # NoFiber
      PROVE  /\ io[task'[g][u]].pc = "hold" /\ task'[g][u] \notin woken'
             /\ io[task'[g][u]].fd = g /\ io[task'[g][u]].t = u
  <2>1. task'[g][u] = task[g][u] /\ ~(g = fd /\ u \in ts)
    BY <1>1, <1>3
  <2>2. /\ io[task[g][u]].pc = "hold" /\ task[g][u] \notin woken
        /\ io[task[g][u]].fd = g /\ io[task[g][u]].t = u
    BY <1>3, <2>1 DEF WaitInv
  <2>3. \A t \in ts : task[fd][t] # task[g][u]
    BY <1>3, <2>1, <2>2 DEF WaitInv
  <2> QED
    BY <2>1, <2>2, <2>3
<1>4. ASSUME NEW f \in Fibers, f \in woken' PROVE io[f].pc = "hold"
  <2>1. CASE f \in woken
    BY <2>1 DEF WaitInv
  <2>2. CASE \E t \in ts : f = task[fd][t]
    BY <2>2, ReactorAssumption DEF WaitInv
  <2> QED
    BY <1>4, <2>1, <2>2
<1>5. ASSUME NEW f \in Fibers, io[f].pc = "hold"
      PROVE  f \in woken' \/ task'[io[f].fd][io[f].t] = f
  <2>1. io[f].fd \in Fds /\ io[f].t \in Types
    BY DEF CallType, Calls
  <2>2. f \in woken \/ task[io[f].fd][io[f].t] = f
    BY <1>5 DEF WaitInv
  <2>3. CASE io[f].fd = fd /\ io[f].t \in ts
    BY <2>2, <2>3
  <2>4. CASE ~(io[f].fd = fd /\ io[f].t \in ts)
    BY <1>1, <2>1, <2>2, <2>4
  <2> QED
    BY <2>3, <2>4
<1> QED
  BY <1>2, <1>3, <1>4, <1>5 DEF WaitInv

(* A step of a call that neither switches out nor comes back.              *)
LEMMA MoveWait ==
  ASSUME CallInv, NEW f \in Fibers, NEW q \in IoAt \ {"hold"}, io[f].pc # "hold",
         io' = [io EXCEPT ![f].pc = q],
         UNCHANGED <<event, task, batch, kev, hup, edge, woken>>,
         level' \in [Fds -> SUBSET Types]
  PROVE  KernelType' /\ WaitInv' /\ io' \in [Fibers -> Calls]
<1> USE DEF CallInv
<1>1. io' \in [Fibers -> Calls]
  BY DEF CallType, Calls
<1>2. KernelType'
  BY DEF KernelType, TableInv
<1>3. /\ \A g \in Fibers : io'[g].fd = io[g].fd /\ io'[g].t = io[g].t
      /\ \A g \in Fibers \ {f} : io'[g] = io[g]
      /\ io'[f].pc = q
  BY DEF CallType, Calls
<1>4. \A fd \in Fds, t \in Types : task[fd][t] # NoFiber => task[fd][t] \in Fibers \ {f}
  BY DEF WaitInv, KernelType, TableInv
<1>5. f \notin woken
  BY DEF WaitInv
<1>6. WaitInv'
  BY <1>3, <1>4, <1>5 DEF WaitInv
<1> QED
  BY <1>1, <1>2, <1>6

(* The steps of a call before it waits and after it is back.               *)
LEMMA CallMoves ==
  ASSUME CallInv, NEW f \in Fibers,
         Start(f) \/ Try(f) \/ Arm(f) \/ CancelTimer(f) \/ Check(f)
  PROVE  CallInv'
<1> USE DEF CallInv
<1>1. \E q \in IoAt \ {"hold"} : io[f].pc # "hold" /\ io' = [io EXCEPT ![f].pc = q]
  BY DEF Start, Try, Arm, CancelTimer, Check, Goto, IoAt
<1>2. UNCHANGED <<event, task, batch, kev, hup, edge, woken>>
  BY DEF Start, Try, Arm, CancelTimer, Check, reactorVars, Consume
<1>3. level' \in [Fds -> SUBSET Types]
  BY DEF Start, Try, Arm, CancelTimer, Check, reactorVars, Consume, KernelType
<1>4. KernelType' /\ WaitInv' /\ io' \in [Fibers -> Calls]
  BY <1>1, <1>2, <1>3, MoveWait
<1>5. CallType'
  <2>1. io[f] \in Calls /\ iter[f] \in Nat
    BY DEF CallType
  <2>2. CASE Start(f)
    BY <1>4, <2>2 DEF Start, Return, CallType
  <2>3. CASE Try(f)
    BY <1>4, <2>3 DEF Try, Return, CallType
  <2>4. CASE Arm(f)
    <3>1. iter' = [iter EXCEPT ![f] = iter[f] + 1] /\ iter' \in [Fibers -> Nat]
      BY <2>4 DEF Arm, CallType
    <3>2. [f |-> f, it |-> iter'[f], fd |-> io[f].fd, t |-> io[f].t, pc |-> "armed"]
            \in Callbacks
      BY <2>1, <3>1 DEF Callbacks, Calls
    <3>3. cbs' \subseteq Callbacks
      BY <2>4, <3>2 DEF Arm, CallType
    <3> QED
      BY <1>4, <2>4, <3>1, <3>3 DEF Arm, CallType
  <2>5. CASE CancelTimer(f)
    BY <1>4, <2>5 DEF CancelTimer, StopTimer, CallType
  <2>6. CASE Check(f)
    BY <1>4, <2>6 DEF Check, SoError, Return, CallType
  <2> QED
    BY <2>2, <2>3, <2>4, <2>5, <2>6
<1> QED
  BY <1>4, <1>5

(* Registering, or failing to.                                             *)
LEMMA AddWait == ASSUME CallInv, NEW f \in Fibers, Add(f) PROVE CallInv'
<1> USE DEF CallInv
<1>1. io[f].fd \in Fds /\ io[f].t \in Types /\ io[f].pc = "add"
  BY DEF CallType, Calls, Add, Goto
<1>2. CASE /\ io' = [io EXCEPT ![f].pc = "hold"] /\ AddEvent(f, io[f].fd, io[f].t)
           /\ UNCHANGED <<iter, cbs, cancled, ret, fdst>>
  <2> DEFINE d == io[f].fd  u == io[f].t
  <2>1. TableInv' /\ \A g \in Fds, v \in Types :
                       task'[g][v] = IF g = d /\ v = u THEN f ELSE task[g][v]
    <3>1. TableInv'
      BY <1>1, <1>2, AddEventHold DEF KernelType
    <3>2. task' = [task EXCEPT ![d][u] = f]
      BY <1>2 DEF AddEvent
    <3> QED
      BY <1>1, <3>1, <3>2 DEF KernelType, TableInv
  <2>2. task[d][u] = NoFiber
    BY <1>1, <1>2 DEF AddEvent, KernelType, TableInv
  <2>3. event[d] \cup {u} \in SUBSET Types
    BY <1>1 DEF KernelType, TableInv
  <2>4. KernelType'
    <3>1. EpollCtl(d, event[d] \cup {u}) /\ UNCHANGED <<level, hup>>
      BY <1>2 DEF AddEvent, kernelVars
    <3>2. kev' \in [Fds -> SUBSET Types]
      BY <2>3, <3>1 DEF EpollCtl, KernelType
    <3>3. edge' \subseteq Fds
      BY <1>1, <3>1 DEF EpollCtl, KernelType
    <3> QED
      BY <2>1, <3>1, <3>2, <3>3 DEF KernelType
  <2>5. CallType'
    BY <1>2 DEF CallType, Calls, IoAt
  <2>6. /\ \A g \in Fibers : io'[g].fd = io[g].fd /\ io'[g].t = io[g].t
        /\ \A g \in Fibers \ {f} : io'[g] = io[g]
        /\ io'[f].pc = "hold" /\ woken' = woken
    BY <1>2 DEF CallType, Calls, AddEvent
  <2>7. f \notin woken /\ \A g \in Fds, v \in Types : task[g][v] # f
    BY <1>1, ReactorAssumption DEF WaitInv
  <2>8. WaitInv'
    <3>1. ASSUME NEW g \in Fds, NEW v \in Types, task'[g][v] # NoFiber
          PROVE  /\ io'[task'[g][v]].pc = "hold" /\ task'[g][v] \notin woken'
                 /\ io'[task'[g][v]].fd = g /\ io'[task'[g][v]].t = v
      <4>1. CASE g = d /\ v = u
        BY <4>1, <2>1, <2>6, <2>7
      <4>2. CASE ~(g = d /\ v = u)
        <5>1. task'[g][v] = task[g][v]
          BY <4>2, <2>1
        <5>2. task[g][v] \in Fibers \ {f}
          BY <3>1, <5>1, <2>7 DEF KernelType, TableInv
        <5> QED
          BY <3>1, <5>1, <5>2, <2>6 DEF WaitInv
      <4> QED
        BY <4>1, <4>2
    <3>2. ASSUME NEW g \in Fibers
          PROVE  /\ g \in woken' => io'[g].pc = "hold"
                 /\ io'[g].pc = "hold" => g \in woken' \/ task'[io'[g].fd][io'[g].t] = g
      <4>1. CASE g = f
        BY <4>1, <1>1, <2>1, <2>6, <2>7
      <4>2. CASE g # f
        <5>1. io[g].fd \in Fds /\ io[g].t \in Types
          BY DEF CallType, Calls
        <5>2. task[io[g].fd][io[g].t] = g => task'[io[g].fd][io[g].t] = g
          BY <5>1, <2>1, <2>2, ReactorAssumption
        <5> QED
          BY <4>2, <5>2, <2>6 DEF WaitInv
      <4> QED
        BY <4>1, <4>2
    <3> QED
      BY <3>1, <3>2 DEF WaitInv
  <2> QED
    BY <2>4, <2>5, <2>8
<1>3. CASE /\ io' = [io EXCEPT ![f].pc = "idle"] /\ Return(f, "error")
           /\ StopTimer(f) /\ UNCHANGED <<reactorVars, iter, fdst>>
  <2>1. KernelType' /\ WaitInv' /\ io' \in [Fibers -> Calls]
    BY <1>1, <1>3, MoveWait DEF reactorVars, KernelType, IoAt
  <2> QED
    BY <1>3, <2>1 DEF CallType, Return, StopTimer
<1> QED
  BY <1>2, <1>3 DEF Add, Goto

(* Coming back: the hand-over is used up.                                  *)
LEMMA WakeWait == ASSUME CallInv, NEW f \in Fibers, Wake(f) PROVE CallInv'
<1> USE DEF CallInv
<1>1. /\ io[f].pc = "hold" /\ io' = [io EXCEPT ![f].pc = "woken"]
      /\ f \in woken /\ woken' = woken \ {f}
      /\ UNCHANGED <<event, task, hold, batch, kev, kernelVars, edge>>
      /\ UNCHANGED <<iter, cbs, cancled, ret, fdst>>
  BY DEF Wake, Goto, Resume
<1>2. CallType' /\ KernelType'
  <2>1. CallType'
    BY <1>1 DEF CallType, Calls, IoAt
  <2>2. KernelType'
    BY <1>1 DEF KernelType, TableInv, kernelVars
  <2> QED
    BY <2>1, <2>2
<1>3. /\ \A g \in Fibers : io'[g].fd = io[g].fd /\ io'[g].t = io[g].t
      /\ \A g \in Fibers \ {f} : io'[g] = io[g]
      /\ io'[f].pc = "woken"
  BY <1>1 DEF CallType, Calls
<1>4. \A fd \in Fds, t \in Types : task[fd][t] # NoFiber => task[fd][t] \in Fibers \ {f}
  BY <1>1 DEF WaitInv, KernelType, TableInv
<1>5. WaitInv'
  BY <1>1, <1>3, <1>4 DEF WaitInv
<1> QED
  BY <1>2, <1>5

(* The timeout's callback, which cancels whoever waits there.              *)
LEMMA CallbackWait == ASSUME CallInv, NEW c \in cbs, CallbackStep(c) PROVE CallInv'
<1> USE DEF CallInv
<1>1. c \in Callbacks /\ c.fd \in Fds /\ c.t \in Types
  BY DEF CallType, Callbacks
<1>2. \A q \in {"armed", "queued", "locked", "cancel"} : [c EXCEPT !.pc = q] \in Callbacks
  BY <1>1 DEF Callbacks
<1>3. CASE Expire(c) \/ Lock(c) \/ SetCancled(c)
  <2>1. cbs' \subseteq Callbacks
    BY <1>2, <1>3 DEF Expire, Lock, SetCancled, Move, CallType
  <2>2. UNCHANGED <<reactorVars, io, iter, ret, fdst>>
    BY <1>3 DEF Expire, Lock, SetCancled
  <2> QED
    BY <2>1, <2>2 DEF reactorVars, CallType, KernelType, TableInv, WaitInv
<1>4. CASE CancelWait(c)
  <2>1. CallType' /\ io' = io
    BY <1>4 DEF CancelWait, CallType
  <2>2. CASE UNCHANGED reactorVars
    BY <2>1, <2>2 DEF reactorVars, KernelType, TableInv, WaitInv
  <2>3. CASE CancelEvent(c.fd, c.t)
    BY <1>1, <2>1, <2>3, TriggerWait DEF CancelEvent, TriggerEvent
  <2> QED
    BY <1>4, <2>2, <2>3 DEF CancelWait
<1> QED
  BY <1>3, <1>4 DEF CallbackStep

(* close() hands over the fibers that wait on its descriptor.              *)
LEMMA CloseWait == ASSUME CallInv, NEW fd \in Fds, CloseStep(fd) PROVE CallInv'
<1> USE DEF CallInv
<1>1. CASE CloseCancel(fd)
  <2>1. CallType' /\ io' = io
    BY <1>1 DEF CloseCancel, CallType
  <2>2. CASE UNCHANGED reactorVars
    BY <2>1, <2>2 DEF reactorVars, KernelType, TableInv, WaitInv
  <2>3. CASE CancelAll(fd)
    <3>1. event[fd] \in SUBSET Types
      BY DEF KernelType, TableInv
    <3> QED
      BY <2>1, <2>3, <3>1, TriggerWait DEF CancelAll, TriggerEvent
  <2> QED
    BY <1>1, <2>2, <2>3 DEF CloseCancel
<1>2. CASE CloseDelete(fd)
  BY <1>2 DEF CloseDelete, reactorVars, CallType, KernelType, TableInv, WaitInv
<1>3. CASE CloseFd(fd)
  BY <1>3 DEF CloseFd, kernelVars, CallType, KernelType, TableInv, WaitInv
<1> QED
  BY <1>1, <1>2, <1>3 DEF CloseStep

(* The kernel and the reactor's loop.                                      *)
LEMMA LoopWait == ASSUME CallInv, KernelEvent \/ Loop PROVE CallInv'
<1> USE DEF CallInv
<1>1. UNCHANGED <<io, iter, cbs, cancled, ret, fdst>>
  BY DEF KernelEvent, Loop, hookVars
<1>2. CallType'
  BY <1>1 DEF CallType
<1>3. ASSUME NEW fd \in Fds, HangUp(fd) PROVE CallInv'
  BY <1>1, <1>2, <1>3 DEF HangUp, KernelType, TableInv, WaitInv
<1>4. ASSUME NEW fd \in Fds, NEW t \in Types, Arrive(fd, t) PROVE CallInv'
  BY <1>1, <1>2, <1>4 DEF Arrive, KernelType, TableInv, WaitInv
<1>5. CASE EpollWait
  <2>1. batch' \subseteq Entries
    BY <1>5, EpollWaitEntries DEF KernelType, TableInv
  <2> QED
    BY <1>1, <1>2, <1>5, <2>1 DEF EpollWait, kernelVars, KernelType, TableInv, WaitInv
<1>6. ASSUME NEW e \in batch, HandleOpen(e) PROVE CallInv'
  <2>1. CASE UNCHANGED <<event, task, kev, kernelVars, edge, woken>> /\ batch' = batch \ {e}
    BY <1>1, <1>2, <2>1 DEF kernelVars, KernelType, TableInv, WaitInv
  <2>2. CASE /\ TakeOff(e.fd, RealEvent(e)) /\ batch' = batch \ {e}
             /\ woken' = woken \cup {task[e.fd][t] : t \in RealEvent(e)}
             /\ UNCHANGED kernelVars
    <3>1. e.fd \in Fds /\ RealEvent(e) \in SUBSET Types
      BY DEF KernelType, TableInv, Entries, RealEvent
    <3> QED
      BY <1>1, <1>2, <2>2, <3>1, TriggerWait
  <2> QED
    BY <1>6, <2>1, <2>2 DEF HandleOpen, Handle
<1> QED
  BY <1>3, <1>4, <1>5, <1>6 DEF KernelEvent, Loop

(* Every step keeps calls and registrations in agreement.                  *)
LEMMA CallStepInv == CallInv /\ [HookNext]_allVars => CallInv'
<1> SUFFICES ASSUME CallInv, [HookNext]_allVars PROVE CallInv'
  OBVIOUS
<1>1. CASE UNCHANGED allVars
  BY <1>1 DEF allVars, hookVars, reactorVars, CallInv, CallType, KernelType, TableInv, WaitInv
<1>2. ASSUME NEW f \in Fibers, Start(f) \/ CallStep(f) PROVE CallInv'
  BY <1>2, CallMoves, AddWait, WakeWait DEF CallStep
<1> QED
  BY <1>1, <1>2, CallbackWait, CloseWait, LoopWait DEF HookNext, Quiet

(* Event, timeout and close race to wake a fiber (Hook.cpp 184-213, 502):  *)
(* it is handed over once for each time it switched out, and only then.    *)
THEOREM WokenOnceHolds == HookSpec => []WokenOnce
<1>1. HookSpec => []CallInv
  BY CallInit, CallStepInv, PTL DEF HookSpec
<1>2. CallInv => WokenOnce
  BY ReactorAssumption DEF CallInv, CallType, Calls, WaitInv, WokenOnce, Registered, Waiting
<1> QED
  BY <1>1, <1>2, PTL

-----------------------------------------------------------------------------
(* The hooked calls use the reactor as its most general client does; close *)
(* goes behind its back.                                                   *)

\* close_f takes the descriptor out of epoll, and a report about it is dropped.
CloseBehind == \E fd \in Fds : CloseFd(fd)
ReportDropped ==
  \E e \in batch : /\ fdst[e.fd] = "closed" /\ batch' = batch \ {e}
                   /\ UNCHANGED <<event, task, hold, kev, kernelVars, edge, woken, fdst>>

(* A step of a call, of a timeout or of close() before close_f is, for the *)
(* reactor, a step of its client or none: a call registers only when it is *)
(* neither registered nor handed over.                                     *)
LEMMA HookIsClient ==
  ASSUME CallInv, [HookNext]_allVars
  PROVE  [ReactorNext]_reactorVars \/ CloseBehind \/ ReportDropped
<1> USE DEF CallInv
<1>1. CASE UNCHANGED allVars
  BY <1>1 DEF allVars
<1>2. ASSUME ~Crashed, KernelEvent PROVE ReactorNext
  BY <1>2 DEF KernelEvent, ReactorNext, KernelStep
<1>3. ASSUME ~Crashed, Loop PROVE ReactorNext \/ ReportDropped
  <2>1. CASE EpollWait
    BY <1>3, <2>1 DEF ReactorNext, ReactorStep
  <2>2. ASSUME NEW e \in batch, HandleOpen(e) PROVE ReactorNext \/ ReportDropped
    BY <1>3, <2>2 DEF HandleOpen, Loop, hookVars, ReactorNext, ReactorStep, ReportDropped
  <2> QED
    BY <1>3, <2>1, <2>2 DEF Loop
<1>4. ASSUME ~Crashed, NEW f \in Fibers, Start(f) \/ CallStep(f)
      PROVE  ReactorNext \/ UNCHANGED reactorVars
  <2>1. io[f].fd \in Fds /\ io[f].t \in Types
    BY DEF CallType, Calls
  <2>2. CASE Start(f) \/ Arm(f) \/ CancelTimer(f) \/ Check(f)
    BY <2>2 DEF Start, Arm, CancelTimer, Check
  <2>3. CASE Try(f)
    <3>1. UNCHANGED reactorVars \/ Consume(io[f].fd, io[f].t)
      BY <2>3 DEF Try
    <3> QED
      BY <1>4, <2>1, <3>1 DEF ReactorNext, KernelStep
  <2>4. CASE Add(f)
    <3>1. io[f].pc = "add"
      BY <2>4 DEF Add, Goto
    <3>2. f \notin woken /\ ~Registered(f)
      BY <3>1, ReactorAssumption DEF WaitInv, Registered, Waiting
    <3>3. UNCHANGED reactorVars \/ Register(f, io[f].fd, io[f].t)
      BY <2>4, <3>2 DEF Add, Register
    <3> QED
      BY <1>4, <2>1, <3>3 DEF ReactorNext, ClientStep
  <2>5. CASE Wake(f)
    BY <1>4, <2>5 DEF Wake, ReactorNext
  <2> QED
    BY <1>4, <2>2, <2>3, <2>4, <2>5 DEF CallStep
<1>5. ASSUME ~Crashed, NEW c \in cbs, CallbackStep(c)
      PROVE  ReactorNext \/ UNCHANGED reactorVars
  <2>1. c.fd \in Fds /\ c.t \in Types
    BY DEF CallType, Callbacks
  <2>2. UNCHANGED reactorVars \/ CancelEvent(c.fd, c.t)
    BY <1>5 DEF CallbackStep, Expire, Lock, SetCancled, CancelWait
  <2> QED
    BY <1>5, <2>1, <2>2 DEF ReactorNext, ClientStep
<1>6. ASSUME ~Crashed, NEW fd \in Fds, CloseStep(fd)
      PROVE  ReactorNext \/ UNCHANGED reactorVars \/ CloseBehind
  <2>1. UNCHANGED reactorVars \/ CancelAll(fd) \/ CloseFd(fd)
    BY <1>6 DEF CloseStep, CloseCancel, CloseDelete
  <2> QED
    BY <1>6, <2>1 DEF ReactorNext, CloseBehind
<1> QED
  BY <1>1, <1>2, <1>3, <1>4, <1>5, <1>6 DEF HookNext, Quiet, allVars

(* do_io, connect and their timeouts (Hook.cpp 138-260, 330-400) implement *)
(* the most general client of the reactor, if no descriptor is closed: so  *)
(* what is proved of the reactor's specification holds of the calls.       *)
THEOREM HookImplementsReactor ==
  ASSUME Closable = {} PROVE HookSpec => ReactorSpec
<1> DEFINE NoneClosed == \A fd \in Fds : fdst[fd] = "open"
<1>1. HookInit => NoneClosed /\ ReactorInit
  BY DEF HookInit
<1>2. CallInv /\ NoneClosed /\ [HookNext]_allVars => NoneClosed'
  <2> SUFFICES ASSUME CallInv, \A fd \in Fds : fdst[fd] = "open", [HookNext]_allVars
               PROVE  fdst' = fdst
    OBVIOUS
  <2>1. ASSUME NEW f \in Fibers, Start(f) \/ CallStep(f) PROVE fdst' = fdst
    BY <2>1 DEF Start, CallStep, Try, Arm, Add, Wake, CancelTimer, Check
  <2>2. ASSUME NEW c \in cbs, CallbackStep(c) PROVE fdst' = fdst
    BY <2>2 DEF CallbackStep, Expire, Lock, SetCancled, CancelWait
  <2>3. ASSUME NEW fd \in Fds PROVE ~CloseStep(fd)
    BY DEF CloseStep, CloseCancel, CloseDelete, CloseFd
  <2> QED
    BY <2>1, <2>2, <2>3 DEF HookNext, KernelEvent, Loop, Quiet, allVars, hookVars
<1>3. CallInv /\ NoneClosed /\ [HookNext]_allVars => [ReactorNext]_reactorVars
  <2> SUFFICES ASSUME CallInv, \A fd \in Fds : fdst[fd] = "open", [HookNext]_allVars
               PROVE  [ReactorNext]_reactorVars
    OBVIOUS
  <2>1. ~CloseBehind
    BY DEF CloseBehind, CloseFd
  <2>2. ~ReportDropped
    BY DEF ReportDropped, CallInv, KernelType, TableInv, Entries
  <2> QED
    BY <2>1, <2>2, HookIsClient
<1> HIDE DEF NoneClosed
<1> QED
  BY <1>1, <1>2, <1>3, CallInit, CallStepInv, PTL DEF HookSpec, ReactorSpec

(* Every step of the calls keeps the count equal to the waiters.           *)
LEMMA HookHoldStep == CallInv /\ HoldInv /\ [HookNext]_allVars => HoldInv'
<1> SUFFICES ASSUME CallInv, HoldInv, [HookNext]_allVars PROVE HoldInv'
  OBVIOUS
<1>1. CASE [ReactorNext]_reactorVars
  BY <1>1, HoldStep DEF CallInv, KernelType, EpollType
<1>2. CASE CloseBehind \/ ReportDropped
  BY <1>2 DEF CloseBehind, CloseFd, ReportDropped, HoldInv, TableInv, Waiters, Crashed
<1> QED
  BY <1>1, <1>2, HookIsClient

(* m_holdCount (Reactor.cpp 157, 230, 255, 347) stays the number of        *)
(* registered fibers also when events, timeouts and close() race for them, *)
(* and when reports about closed descriptors are dropped.                  *)
THEOREM HookHoldMatches == HookSpec => []HoldMatches
<1>1. HookInit => HoldInv
  BY HoldInit DEF HookInit
<1>2. HoldInv => HoldMatches
  BY DEF HoldInv, HoldMatches, Waiters
<1> QED
  BY <1>1, <1>2, CallInit, CallStepInv, HookHoldStep, PTL DEF HookSpec

\* The descriptors close_f has not been called for.
Live == {fd \in Fds : fdst[fd] # "closed"}

\* What a fiber waits for on a descriptor that is not closed is reported.
LiveReported == \A fd \in Live, t \in Types :
                  t \in event[fd] /\ t \in Ready(fd) => Listed(fd, t)

(* Closing a descriptor touches the reports of no other.                   *)
LEMMA HookEdgeStep ==
  CallInv /\ EdgeOn(Live) /\ [HookNext]_allVars => EdgeOn(Live)'
<1> SUFFICES ASSUME CallInv, EdgeOn(Live), [HookNext]_allVars PROVE EdgeOn(Live)'
  OBVIOUS
<1>1. PICK L \in SUBSET Fds : L = Live
  BY DEF Live
<1>2. EdgeOn(L)
  BY <1>1
<1>3. Live' \subseteq L
  <2>1. ASSUME NEW f \in Fibers, Start(f) \/ CallStep(f) PROVE fdst' = fdst
    BY <2>1 DEF Start, CallStep, Try, Arm, Add, Wake, CancelTimer, Check
  <2>2. ASSUME NEW c \in cbs, CallbackStep(c) PROVE fdst' = fdst
    BY <2>2 DEF CallbackStep, Expire, Lock, SetCancled, CancelWait
  <2>3. ASSUME NEW fd \in Fds, CloseStep(fd)
        PROVE  \A g \in Fds : fdst[g] = "closed" => fdst'[g] = "closed"
    BY <2>3 DEF CloseStep, CloseCancel, CloseDelete, CloseFd, CallInv, CallType
  <2> QED
    BY <1>1, <2>1, <2>2, <2>3
       DEF Live, HookNext, KernelEvent, Loop, Quiet, allVars, hookVars
<1>4. CASE [ReactorNext]_reactorVars
  BY <1>2, <1>3, <1>4, EdgeStep DEF EdgeOn
<1>5. ASSUME NEW d \in Fds, CloseFd(d) PROVE EdgeOn(Live)'
  <2>1. d \notin Live'
    BY <1>5 DEF CloseFd, Live, CallInv, CallType
  <2>2. /\ \A g \in Live' : kev'[g] = kev[g] /\ event'[g] = event[g] /\ Ready(g)' = Ready(g)
        /\ \A g \in Live', t \in Types : Listed(g, t) => Listed(g, t)'
    BY <1>5, <2>1 DEF CloseFd, kernelVars, Live, Ready, Listed, EdgeOn, ReactorType
  <2>3. ReactorType'
    BY <1>2, <1>5 DEF CloseFd, kernelVars, EdgeOn, ReactorType
  <2>4. \A g \in Live' : Reported(g)
    BY <1>2, <1>3 DEF EdgeOn
  <2> QED
    BY <2>2, <2>3, <2>4 DEF EdgeOn, Reported
<1>6. CASE ReportDropped
  <2>1. PICK e \in batch : /\ fdst[e.fd] = "closed" /\ batch' = batch \ {e}
                           /\ UNCHANGED <<event, kev, edge>> /\ UNCHANGED kernelVars
    BY <1>6 DEF ReportDropped
  <2>2. e.fd \notin L
    BY <1>1, <2>1 DEF Live
  <2>3. EdgeOn(L)'
    BY <1>2, <2>1, <2>2, DropReport
  <2> QED
    BY <1>3, <2>3 DEF EdgeOn
<1> QED
  BY <1>4, <1>5, <1>6, HookIsClient DEF CloseBehind

(* Edge triggering (Reactor.cpp 137-170, 325-350) under the hooked calls,  *)
(* their timeouts and close(): a fiber that waits on a descriptor that is  *)
(* not closed for what is there has a report under way.                    *)
THEOREM HookMissesNothing == HookSpec => []LiveReported
<1>1. HookInit => EdgeOn(Live)
  <2> SUFFICES ASSUME HookInit PROVE EdgeOn(Live)
    OBVIOUS
  <2>1. EdgeOn(Fds) /\ Live \subseteq Fds
    BY EdgeInit DEF HookInit, Live
  <2> QED
    BY <2>1 DEF EdgeOn
<1>2. EdgeOn(Live) => LiveReported
  BY DEF EdgeOn, Reported, LiveReported
<1> QED
  BY <1>1, <1>2, CallInit, CallStepInv, HookEdgeStep, PTL DEF HookSpec

-----------------------------------------------------------------------------
(* Timers and connect                                                      *)

\* A callback belongs to this attempt or an earlier one; while its timer runs,
\* to this one.
TimerInv ==
  \A c \in cbs :
    /\ c.it > 0 /\ c.it <= iter[c.f] /\ c.fd = io[c.f].fd /\ c.t = io[c.f].t
    /\ c.pc = "armed" => iter[c.f] = c.it /\ io[c.f].pc \in {"add", "hold", "woken"}

(* What a step of a call leaves of its own callbacks and of the others'.   *)
LEMMA TimerMove ==
  ASSUME CallInv, TimerInv, NEW f \in Fibers, NEW q \in IoAt,
         io' = [io EXCEPT ![f].pc = q], iter' = iter, cbs' \subseteq cbs,
         \A c \in cbs' : c.f = f /\ c.pc = "armed" => q \in {"add", "hold", "woken"}
  PROVE  TimerInv'
<1> SUFFICES ASSUME NEW c \in cbs'
             PROVE  /\ c.it > 0 /\ c.it <= iter[c.f]
                    /\ c.fd = io'[c.f].fd /\ c.t = io'[c.f].t
                    /\ c.pc = "armed" => /\ iter[c.f] = c.it
                                         /\ io'[c.f].pc \in {"add", "hold", "woken"}
  BY DEF TimerInv
<1>1. c \in cbs /\ c.f \in Fibers
  BY DEF CallInv, CallType, Callbacks
<1>2. io'[c.f] = IF c.f = f THEN [io[f] EXCEPT !.pc = q] ELSE io[c.f]
  BY <1>1 DEF CallInv, CallType
<1>3. io'[c.f].fd = io[c.f].fd /\ io'[c.f].t = io[c.f].t /\ (c.f = f => io'[c.f].pc = q)
  BY <1>1, <1>2 DEF CallInv, CallType, Calls
<1> QED
  BY <1>1, <1>2, <1>3 DEF TimerInv

(* A call stops its timer before it leaves the attempt the timer is of.    *)
LEMMA TimerCallStep ==
  ASSUME CallInv, TimerInv, NEW f \in Fibers, Start(f) \/ CallStep(f)
  PROVE  TimerInv'
<1>0. io[f] \in Calls /\ iter[f] \in Nat /\ cbs \subseteq Callbacks
  BY DEF CallInv, CallType
<1>1. CASE Start(f) \/ Try(f) \/ Check(f)
  <2>1. /\ io[f].pc \in {"idle", "try", "check"} /\ UNCHANGED <<iter, cbs>>
        /\ \E q \in IoAt : io' = [io EXCEPT ![f].pc = q]
    BY <1>1 DEF Start, Try, Check, Goto, IoAt
  <2>2. \A c \in cbs : ~(c.f = f /\ c.pc = "armed")
    BY <2>1 DEF TimerInv
  <2>3. PICK q \in IoAt : io' = [io EXCEPT ![f].pc = q]
    BY <2>1
  <2>4. \A c \in cbs' : c.f = f /\ c.pc = "armed" => q \in {"add", "hold", "woken"}
    BY <2>1, <2>2
  <2>5. iter' = iter /\ cbs' \subseteq cbs
    BY <2>1
  <2> QED
    BY <2>3, <2>4, <2>5, TimerMove
<1>2. CASE Arm(f)
  <2> DEFINE n == [f |-> f, it |-> iter[f] + 1, fd |-> io[f].fd, t |-> io[f].t, pc |-> "armed"]
  <2>1. /\ io[f].pc = "arm" /\ io' = [io EXCEPT ![f].pc = "add"]
        /\ iter' = [iter EXCEPT ![f] = iter[f] + 1]
    BY <1>2 DEF Arm, Goto
  <2>2. iter'[f] = iter[f] + 1 /\ \A g \in Fibers \ {f} : iter'[g] = iter[g]
    BY <2>1 DEF CallInv, CallType
  <2>3. cbs' \subseteq cbs \cup {n}
    BY <1>2, <2>2 DEF Arm
  <2>4. /\ \A g \in Fibers : io'[g].fd = io[g].fd /\ io'[g].t = io[g].t
        /\ \A g \in Fibers \ {f} : io'[g] = io[g]
        /\ io'[f].pc = "add"
    BY <2>1 DEF CallInv, CallType, Calls
  <2> SUFFICES ASSUME NEW c \in cbs'
               PROVE  /\ c.it > 0 /\ c.it <= iter'[c.f]
                      /\ c.fd = io'[c.f].fd /\ c.t = io'[c.f].t
                      /\ c.pc = "armed" => /\ iter'[c.f] = c.it
                                           /\ io'[c.f].pc \in {"add", "hold", "woken"}
    BY DEF TimerInv
  <2>5. CASE c = n
    BY <1>0, <2>2, <2>4, <2>5
  <2>6. CASE c \in cbs
    <3>1. c.f \in Fibers /\ c.it \in Nat /\ iter[c.f] \in Nat
      BY <1>0, <2>6 DEF CallInv, CallType, Callbacks
    <3>2. c.f = f => c.pc # "armed"
      BY <2>1, <2>6 DEF TimerInv
    <3> QED
      BY <1>0, <2>2, <2>4, <2>6, <3>1, <3>2 DEF TimerInv
  <2> QED
    BY <2>3, <2>5, <2>6
<1>3. CASE Add(f) \/ Wake(f)
  <2>1. CASE /\ iter' = iter /\ cbs' = cbs
             /\ \E q \in {"hold", "woken"} : io' = [io EXCEPT ![f].pc = q]
    <3>1. PICK q \in {"hold", "woken"} : io' = [io EXCEPT ![f].pc = q]
      BY <2>1
    <3>2. q \in IoAt /\ cbs' \subseteq cbs
      BY <2>1 DEF IoAt
    <3> QED
      BY <2>1, <3>1, <3>2, TimerMove
  <2>2. CASE /\ iter' = iter /\ StopTimer(f) /\ io' = [io EXCEPT ![f].pc = "idle"]
    <3>1. \A c \in cbs' : ~(c.f = f /\ c.pc = "armed")
      BY <2>2 DEF StopTimer, TimerInv
    <3>2. "idle" \in IoAt /\ cbs' \subseteq cbs
      BY <2>2 DEF StopTimer, IoAt
    <3> QED
      BY <2>2, <3>1, <3>2, TimerMove
  <2> QED
    BY <1>3, <2>1, <2>2 DEF Add, Wake, Goto
<1>4. CASE CancelTimer(f)
  <2>1. \A c \in cbs' : ~(c.f = f /\ c.pc = "armed")
    BY <1>4 DEF CancelTimer, StopTimer, TimerInv
  <2>2. "check" \in IoAt /\ cbs' \subseteq cbs
    BY <1>4 DEF CancelTimer, StopTimer, IoAt
  <2>3. io' = [io EXCEPT ![f].pc = "check"] /\ iter' = iter
    BY <1>4 DEF CancelTimer, Goto
  <2> QED
    BY <2>1, <2>2, <2>3, TimerMove
<1> QED
  BY <1>1, <1>2, <1>3, <1>4 DEF CallStep

(* Every step leaves a running timer only to the attempt that armed it.    *)
LEMMA TimerStepInv == CallInv /\ TimerInv /\ [HookNext]_allVars => TimerInv'
<1> SUFFICES ASSUME CallInv, TimerInv, [HookNext]_allVars PROVE TimerInv'
  OBVIOUS
<1>1. CASE UNCHANGED <<io, iter, cbs>>
  BY <1>1 DEF TimerInv
<1>2. ASSUME NEW f \in Fibers, Start(f) \/ CallStep(f) PROVE TimerInv'
  BY <1>2, TimerCallStep
<1>3. ASSUME NEW c \in cbs, CallbackStep(c) PROVE TimerInv'
  <2>1. c \in Callbacks
    BY DEF CallInv, CallType
  <2>2. PICK q \in {"queued", "locked", "cancel"} : cbs' \subseteq cbs \cup {[c EXCEPT !.pc = q]}
    BY <1>3 DEF CallbackStep, Expire, Lock, SetCancled, CancelWait, Move
  <2>3. UNCHANGED <<io, iter>>
    BY <1>3 DEF CallbackStep, Expire, Lock, SetCancled, CancelWait
  <2>4. LET d == [c EXCEPT !.pc = q]
        IN d.it = c.it /\ d.f = c.f /\ d.fd = c.fd /\ d.t = c.t /\ d.pc = q
    BY <2>1 DEF Callbacks
  <2> QED
    BY <2>2, <2>3, <2>4 DEF TimerInv
<1>4. ASSUME NEW fd \in Fds, CloseStep(fd) PROVE UNCHANGED <<io, iter, cbs>>
  BY <1>4 DEF CloseStep, CloseCancel, CloseDelete, CloseFd
<1>5. ASSUME KernelEvent \/ Loop \/ UNCHANGED allVars PROVE UNCHANGED <<io, iter, cbs>>
  BY <1>5 DEF KernelEvent, Loop, allVars, hookVars
<1> QED
  BY <1>1, <1>2, <1>3, <1>4, <1>5 DEF HookNext, Quiet

(* A call that has returned or goes into its next attempt leaves no timer  *)
(* of the attempt before behind (Hook.cpp 212, 239).                       *)
THEOREM NoTimerLeftHolds == HookSpec => []NoTimerLeft
<1>1. HookInit => TimerInv
  BY DEF HookInit, TimerInv
<1>2. HookSpec => []CallInv
  BY CallInit, CallStepInv, PTL DEF HookSpec
<1>3. HookSpec => []TimerInv
  BY <1>1, <1>2, TimerStepInv, PTL DEF HookSpec
<1>4. TimerInv => NoTimerLeft
  BY DEF TimerInv, NoTimerLeft, Alive
<1> QED
  BY <1>3, <1>4, PTL

\* A fiber connects once: its TimerInfo is the first and only one.
OnceInv ==
  \A f \in Connecting :
    /\ iter[f] \in {0, 1}
    /\ io[f].pc \in {"try", "arm"} => iter[f] = 0
    /\ io[f].pc \in {"add", "hold", "woken", "check"} => iter[f] = 1

(* A step of a call of one fiber leaves the calls of the others.           *)
LEMMA CallFrame ==
  ASSUME CallInv, NEW g \in Fibers, Start(g) \/ CallStep(g)
  PROVE  /\ \A f \in Fibers : io'[f].fd = io[f].fd /\ io'[f].t = io[f].t
         /\ \A f \in Fibers \ {g} : io'[f] = io[f] /\ iter'[f] = iter[f] /\ ret'[f] = ret[f]
         /\ fdst' = fdst
<1>0. io \in [Fibers -> Calls] /\ iter \in [Fibers -> Nat] /\ DOMAIN ret = Fibers
  BY DEF CallInv, CallType
<1>1. \E q \in IoAt : io' = [io EXCEPT ![g].pc = q]
  BY DEF Start, CallStep, Try, Arm, Add, Wake, CancelTimer, Check, Goto, IoAt
<1>2. iter' = iter \/ iter' = [iter EXCEPT ![g] = iter[g] + 1]
  BY DEF Start, CallStep, Try, Arm, Add, Wake, CancelTimer, Check
<1>3. ret' = ret \/ \E r : ret' = [ret EXCEPT ![g] = r]
  BY DEF Start, CallStep, Try, Arm, Add, Wake, CancelTimer, Check, Return
<1>4. fdst' = fdst
  BY DEF Start, CallStep, Try, Arm, Add, Wake, CancelTimer, Check
<1>5. \A f \in Fibers : io'[f].fd = io[f].fd /\ io'[f].t = io[f].t
  BY <1>0, <1>1 DEF Calls
<1>6. \A f \in Fibers \ {g} : io'[f] = io[f] /\ iter'[f] = iter[f]
  BY <1>0, <1>1, <1>2
<1>7. \A f \in Fibers \ {g} : ret'[f] = ret[f]
  BY <1>0, <1>3
<1> QED
  BY <1>4, <1>5, <1>6, <1>7

(* The steps that are no step of a call leave every call where it is.      *)
LEMMA OtherFrame ==
  ASSUME \/ KernelEvent \/ Loop
         \/ \E c \in cbs : CallbackStep(c)
         \/ \E fd \in Fds : CloseStep(fd)
         \/ UNCHANGED allVars
  PROVE  UNCHANGED <<io, iter, ret>>
<1>1. ASSUME NEW c \in cbs, CallbackStep(c) PROVE UNCHANGED <<io, iter, ret>>
  BY <1>1 DEF CallbackStep, Expire, Lock, SetCancled, CancelWait
<1>2. ASSUME NEW fd \in Fds, CloseStep(fd) PROVE UNCHANGED <<io, iter, ret>>
  BY <1>2 DEF CloseStep, CloseCancel, CloseDelete, CloseFd
<1> QED
  BY <1>1, <1>2 DEF KernelEvent, Loop, hookVars, allVars

(* connect makes one attempt, and its TimerInfo is made between "arm" and  *)
(* "add".                                                                  *)
LEMMA OnceStepInv == CallInv /\ OnceInv /\ [HookNext]_allVars => OnceInv'
<1> SUFFICES ASSUME CallInv, OnceInv, [HookNext]_allVars PROVE OnceInv'
  OBVIOUS
<1>1. CASE UNCHANGED <<io, iter>>
  BY <1>1 DEF OnceInv
<1>2. ASSUME NEW g \in Fibers, Start(g) \/ CallStep(g) PROVE OnceInv'
  <2> SUFFICES ASSUME NEW f \in Connecting
               PROVE  /\ iter'[f] \in {0, 1}
                      /\ io'[f].pc \in {"try", "arm"} => iter'[f] = 0
                      /\ io'[f].pc \in {"add", "hold", "woken", "check"} => iter'[f] = 1
    BY DEF OnceInv
  <2>1. f \in Fibers
    BY HookAssumption
  <2>2. CASE f # g
    BY <1>2, <2>1, <2>2, CallFrame DEF OnceInv
  <2>3. CASE f = g
    <3>0. io \in [Fibers -> Calls] /\ iter \in [Fibers -> Nat] /\ io[f] \in Calls
      BY <2>1 DEF CallInv, CallType
    <3>1. \A q \in IoAt : io' = [io EXCEPT ![f].pc = q] => io'[f].pc = q
      BY <2>1, <3>0 DEF Calls
    <3>2. CASE Start(f)
      <4>1. io'[f].pc = "try" /\ iter' = iter /\ iter[f] < 1
        BY <3>1, <3>2 DEF Start, Goto, Attempts, IoAt
      <4> QED
        BY <4>1 DEF OnceInv
    <3>3. CASE Try(f)
      <4>1. io[f].pc = "try" /\ io'[f].pc \in {"idle", "arm"} /\ iter' = iter
        BY <3>1, <3>3 DEF Try, Goto, IoAt
      <4> QED
        BY <4>1 DEF OnceInv
    <3>4. CASE Arm(f)
      <4>1. io[f].pc = "arm" /\ io'[f].pc = "add" /\ iter'[f] = iter[f] + 1
        BY <2>1, <3>0, <3>1, <3>4 DEF Arm, Goto, IoAt
      <4> QED
        BY <4>1 DEF OnceInv
    <3>5. CASE Add(f) \/ Wake(f) \/ CancelTimer(f)
      <4>1. /\ io[f].pc \in {"add", "hold", "woken"} /\ iter' = iter
            /\ io'[f].pc \in {"idle", "hold", "woken", "check"}
        BY <3>1, <3>5 DEF Add, Wake, CancelTimer, Goto, IoAt
      <4> QED
        BY <4>1 DEF OnceInv
    <3>6. CASE Check(f)
      <4>1. io'[f].pc = "idle" /\ iter' = iter
        BY <3>1, <3>6 DEF Check, Goto, IoAt
      <4> QED
        BY <4>1 DEF OnceInv
    <3> QED
      BY <1>2, <2>3, <3>2, <3>3, <3>4, <3>5, <3>6 DEF CallStep
  <2> QED
    BY <2>2, <2>3
<1> QED
  BY <1>1, <1>2, OtherFrame DEF HookNext, Quiet

\* The case ConnectTruthful is about, and what a call of connect relies on in it.
Alone(f) ==
  /\ fdst[io[f].fd] = "open"
  /\ \A g \in Fibers \ {f} : io[g].pc = "idle" /\ iter[g] = 0 /\ ret[g] = "none"

Answered(f) == io[f].t \in Ready(io[f].fd)
Made(f) == io[f].t \in level[io[f].fd]
Marked(f) == <<f, iter[f]>> \in cancled

\* Whoever wakes the fiber has seen the connection or its refusal or has left a
\* mark; success is for the connection alone.
Told(f) ==
  /\ ret[f] = "ok" => Made(f)
  /\ f \in woken \/ io[f].pc \in {"woken", "check"} => Answered(f) \/ Marked(f)
  /\ \A e \in batch : e.fd = io[f].fd /\ (io[f].t \in e.ev \/ e.hup) => Answered(f)
  /\ \A c \in cbs : c.f = f /\ c.pc = "cancel" => Marked(f) \/ io[f].pc = "idle"

AloneInv == \A f \in Connecting : Alone(f) => Told(f)

(* A call that is over has a result, so a fiber that has none and is at    *)
(* rest has made no step, and a close() leaves its trace.                  *)
LEMMA AloneBefore ==
  ASSUME CallInv, NEW f \in Connecting, [HookNext]_allVars, Alone(f)'
  PROVE  /\ Alone(f) /\ io'[f].fd = io[f].fd /\ io'[f].t = io[f].t
         /\ \A g \in Fibers \ {f} : ~(Start(g) \/ CallStep(g))
<1>0. f \in Fibers
  BY HookAssumption
<1>1. ASSUME NEW g \in Fibers \ {f}, Start(g) \/ CallStep(g) PROVE FALSE
  <2>0. io \in [Fibers -> Calls] /\ io[g] \in Calls /\ DOMAIN ret = Fibers
    BY DEF CallInv, CallType
  <2>1. io'[g].pc = "idle" /\ ret'[g] = "none"
    BY DEF Alone
  <2>2. \A q \in IoAt : io' = [io EXCEPT ![g].pc = q] => q = "idle"
    BY <2>0, <2>1 DEF Calls
  <2>3. \A r : ret' = [ret EXCEPT ![g] = r] => r = "none"
    BY <2>0, <2>1
  <2>4. ~Start(g) /\ ~Arm(g) /\ ~Wake(g) /\ ~CancelTimer(g)
    BY <2>2 DEF Start, Arm, Wake, CancelTimer, Goto, IoAt
  <2>5. ~Try(g)
    BY <2>2, <2>3 DEF Try, Goto, Return, IoAt
  <2>6. ~Add(g)
    BY <2>2, <2>3 DEF Add, Goto, Return, IoAt
  <2>7. ~Check(g)
    BY <2>2, <2>3 DEF Check, SoError, Goto, Return, IoAt
  <2> QED
    BY <1>1, <2>4, <2>5, <2>6, <2>7 DEF CallStep
<1>2. CASE Start(f) \/ CallStep(f)
  BY <1>0, <1>1, <1>2, CallFrame DEF Alone
<1>3. CASE \/ KernelEvent \/ Loop
           \/ \E c \in cbs : CallbackStep(c)
           \/ \E fd \in Fds : CloseStep(fd)
           \/ UNCHANGED allVars
  <2>1. UNCHANGED <<io, iter, ret>>
    BY <1>3, OtherFrame
  <2>2. \A fd \in Fds : fdst'[fd] = "open" => fdst[fd] = "open"
    <3>1. ASSUME NEW c \in cbs, CallbackStep(c) PROVE fdst' = fdst
      BY <3>1 DEF CallbackStep, Expire, Lock, SetCancled, CancelWait
    <3>2. ASSUME NEW g \in Fds, CloseStep(g)
          PROVE  \A fd \in Fds : fdst'[fd] = "open" => fdst[fd] = "open"
      <4>1. \E s \in {"cancelled", "deleted", "closed"} : fdst' = [fdst EXCEPT ![g] = s]
        BY <3>2 DEF CloseStep, CloseCancel, CloseDelete, CloseFd
      <4> QED
        BY <4>1 DEF CallInv, CallType
    <3>3. CASE KernelEvent \/ Loop \/ UNCHANGED allVars
      BY <3>3 DEF KernelEvent, Loop, hookVars, allVars
    <3> QED
      BY <1>3, <3>1, <3>2, <3>3
  <2>3. io[f].fd \in Fds
    BY <1>0 DEF CallInv, CallType, Calls
  <2> QED
    BY <1>1, <2>1, <2>2, <2>3 DEF Alone
<1> QED
  BY <1>1, <1>2, <1>3 DEF HookNext, Quiet

\* Hypotheses of the lemmas below.
AloneHyp(f) ==
  /\ CallInv /\ TimerInv /\ OnceInv /\ Alone(f) /\ Told(f)
  /\ io'[f].fd = io[f].fd /\ io'[f].t = io[f].t

(* Whoever waits there is woken with what f has to know, and all else of   *)
(* the call is as it was.                                                  *)
LEMMA ToldTrigger ==
  ASSUME NEW f \in Connecting, AloneHyp(f), UNCHANGED <<io, iter, ret, kernelVars>>,
         cbs' \subseteq cbs, batch' \subseteq batch, cancled' = cancled,
         f \in woken' => f \in woken \/ Answered(f) \/ Marked(f)
  PROVE  Told(f)'
<1>1. /\ Answered(f)' = Answered(f) /\ Marked(f)' = Marked(f)
      /\ Made(f)' = Made(f)
  BY DEF Answered, Made, Marked, Ready, kernelVars
<1> QED
  BY <1>1 DEF AloneHyp, Told

(* The steps of the call itself.                                           *)
LEMMA ToldCall ==
  ASSUME NEW f \in Connecting, AloneHyp(f), Start(f) \/ CallStep(f)
  PROVE  Told(f)'
<1>0. /\ f \in Fibers /\ io \in [Fibers -> Calls] /\ io[f] \in Calls /\ iter \in [Fibers -> Nat]
      /\ DOMAIN ret = Fibers
  BY HookAssumption DEF AloneHyp, CallInv, CallType
<1>1. \A q \in IoAt : io' = [io EXCEPT ![f].pc = q] => io'[f].pc = q
  BY <1>0 DEF Calls
<1>2. \A r : ret' = [ret EXCEPT ![f] = r] => ret'[f] = r
  BY <1>0
<1>3. UNCHANGED <<level, hup, batch>>
  <2>1. CASE Try(f)
    BY <2>1 DEF Try, reactorVars
  <2>2. CASE Add(f)
    BY <2>2 DEF Add, AddEvent, reactorVars, kernelVars
  <2>3. CASE Start(f) \/ Arm(f) \/ Wake(f) \/ CancelTimer(f) \/ Check(f)
    BY <2>3 DEF Start, Arm, Wake, CancelTimer, Check, Resume, reactorVars, kernelVars
  <2> QED
    BY <2>1, <2>2, <2>3 DEF CallStep
<1>4. Answered(f)' = Answered(f) /\ Made(f)' = Made(f)
  BY <1>3 DEF AloneHyp, Answered, Made, Ready
<1>5. f \in woken => io[f].pc = "hold"
  BY <1>0 DEF AloneHyp, CallInv, WaitInv
<1>6. iter[f] = 0 => \A c \in cbs : c.f # f
  <2>1. \A c \in cbs : c.it \in Nat
    BY DEF AloneHyp, CallInv, CallType, Callbacks
  <2> QED
    BY <2>1 DEF AloneHyp, TimerInv
<1>7. \A e \in batch' : e.fd = io'[f].fd /\ (io'[f].t \in e.ev \/ e.hup) => Answered(f)'
  BY <1>3, <1>4 DEF AloneHyp, Told
<1>8. CASE Start(f)
  <2>1. io'[f].pc = "try" /\ ret'[f] = "none" /\ iter[f] < 1 /\ UNCHANGED <<woken, cbs, iter>>
    BY <1>1, <1>2, <1>8 DEF Start, Goto, Return, Attempts, IoAt, reactorVars
  <2>2. io[f].pc = "idle" /\ iter[f] = 0
    BY <1>0, <1>8, <2>1 DEF Start, Goto
  <2> QED
    BY <1>5, <1>6, <1>7, <2>1, <2>2 DEF Told
<1>9. CASE Try(f)
  <2>1. /\ io[f].pc = "try" /\ UNCHANGED <<woken, cbs, iter>>
        /\ io'[f].pc \in {"idle", "arm"}
    BY <1>1, <1>9 DEF Try, Goto, IoAt, reactorVars, Consume
  <2>2. ret'[f] = "ok" => Made(f)
    BY <1>2, <1>9 DEF Try, Return, Ready, Made, AloneHyp, Told
  <2>3. iter[f] = 0
    BY <2>1 DEF AloneHyp, OnceInv
  <2> QED
    BY <1>4, <1>5, <1>6, <1>7, <2>1, <2>2, <2>3 DEF Told
<1>10. CASE Arm(f)
  <2>1. io[f].pc = "arm" /\ io'[f].pc = "add" /\ UNCHANGED <<woken, ret>>
    BY <1>1, <1>10 DEF Arm, Goto, IoAt, reactorVars
  <2>2. iter[f] = 0
    BY <2>1 DEF AloneHyp, OnceInv
  <2>3. \A c \in cbs' : c \in cbs \/ c.pc = "armed"
    BY <1>10 DEF Arm
  <2> QED
    BY <1>4, <1>5, <1>6, <1>7, <2>1, <2>2, <2>3 DEF AloneHyp, Told
<1>11. CASE Add(f)
  <2>1. CASE io' = [io EXCEPT ![f].pc = "hold"] /\ UNCHANGED <<iter, cbs, cancled, ret, woken>>
    <3>1. io'[f].pc = "hold" /\ Marked(f)' = Marked(f)
      BY <1>1, <2>1 DEF IoAt, Marked
    <3>2. io[f].pc = "add"
      BY <1>11 DEF Add, Goto
    <3> QED
      BY <1>4, <1>5, <1>7, <2>1, <3>1, <3>2 DEF AloneHyp, Told
  <2>2. CASE io' = [io EXCEPT ![f].pc = "idle"] /\ Return(f, "error") /\ UNCHANGED woken
    <3>1. io'[f].pc = "idle" /\ ret'[f] = "error"
      BY <1>1, <1>2, <2>2 DEF IoAt, Return
    <3>2. io[f].pc = "add"
      BY <1>11 DEF Add, Goto
    <3> QED
      BY <1>4, <1>5, <1>7, <2>2, <3>1, <3>2 DEF Told
  <2> QED
    BY <1>11, <2>1, <2>2 DEF Add, Goto, AddEvent, reactorVars
<1>12. CASE Wake(f) \/ CancelTimer(f)
  <2>1. /\ io[f].pc = "woken" \/ f \in woken
        /\ io'[f].pc \in {"woken", "check"} /\ UNCHANGED <<iter, cancled, ret>>
        /\ cbs' \subseteq cbs
    BY <1>1, <1>12 DEF Wake, CancelTimer, Goto, IoAt, Resume, StopTimer
  <2>2. Marked(f)' = Marked(f) /\ (Answered(f) \/ Marked(f))
    BY <2>1 DEF Marked, AloneHyp, Told
  <2>3. \A c \in cbs : c.f = f /\ c.pc = "cancel" => Marked(f)
    <3>1. io[f].pc # "idle"
      BY <1>12 DEF Wake, CancelTimer, Goto
    <3> QED
      BY <3>1 DEF AloneHyp, Told
  <2> QED
    BY <1>4, <1>7, <2>1, <2>2, <2>3 DEF AloneHyp, Told
<1>13. CASE Check(f)
  <2>1. io[f].pc = "check" /\ io'[f].pc = "idle" /\ UNCHANGED <<iter, woken, cbs>>
    BY <1>1, <1>13 DEF Check, Goto, IoAt, reactorVars
  <2>2. Answered(f) \/ Marked(f)
    BY <2>1 DEF AloneHyp, Told
  <2>3. ret'[f] = "ok" => Made(f)
    <3>1. CASE Marked(f)
      BY <1>2, <1>13, <3>1 DEF Check, Return, Marked
    <3>2. CASE ~Marked(f)
      <4>1. ASSUME NEW r \in SoError(io[f].fd, io[f].t), Return(f, r), r = "ok" PROVE Made(f)
        BY <2>2, <3>2, <4>1 DEF SoError, Answered, Made, Ready
      <4> QED
        BY <1>2, <1>13, <3>2, <4>1 DEF Check, Return, Marked
    <3> QED
      BY <3>1, <3>2
  <2> QED
    BY <1>4, <1>5, <1>7, <2>1, <2>2, <2>3 DEF Told
<1> QED
  BY <1>8, <1>9, <1>10, <1>11, <1>12, <1>13 DEF CallStep

(* The timeout's callback: the fiber's own, because no other has a timer.  *)
LEMMA ToldCallback ==
  ASSUME NEW f \in Connecting, AloneHyp(f), NEW c \in cbs, CallbackStep(c)
  PROVE  Told(f)'
<1>0. f \in Fibers /\ c \in Callbacks /\ c.f \in Fibers /\ iter[c.f] \in Nat /\ c.it \in Nat
  BY HookAssumption DEF AloneHyp, CallInv, CallType, Callbacks
<1>1. UNCHANGED <<io, iter, ret>>
  BY DEF CallbackStep, Expire, Lock, SetCancled, CancelWait
<1>2. c.f = f
  BY <1>0 DEF AloneHyp, TimerInv, Alone
<1>3. iter[f] = c.it /\ io[f].pc \notin {"try", "arm"}
  <2>1. c.it > 0 /\ c.it <= iter[f]
    BY <1>2 DEF AloneHyp, TimerInv
  <2>2. iter[f] = 1
    BY <1>0, <1>2, <2>1 DEF AloneHyp, OnceInv
  <2> QED
    BY <1>0, <2>1, <2>2 DEF AloneHyp, OnceInv
<1>4. CASE Expire(c) \/ Lock(c)
  <2>1. \A d \in cbs' : d \in cbs \/ d.pc \in {"queued", "locked"}
    BY <1>0, <1>4 DEF Expire, Lock, Move, Callbacks
  <2>2. UNCHANGED <<reactorVars, cancled>>
    BY <1>4 DEF Expire, Lock
  <2>3. Answered(f)' = Answered(f) /\ Made(f)' = Made(f) /\ Marked(f)' = Marked(f)
    BY <1>1, <2>2 DEF Answered, Made, Marked, Ready, reactorVars
  <2> QED
    BY <1>1, <2>1, <2>2, <2>3 DEF AloneHyp, Told, reactorVars
<1>5. CASE SetCancled(c)
  <2>1. UNCHANGED reactorVars
    BY <1>5 DEF SetCancled
  <2>2. Answered(f)' = Answered(f) /\ Made(f)' = Made(f) /\ (Marked(f) => Marked(f)')
    BY <1>1, <1>5, <2>1 DEF Answered, Made, Marked, Ready, reactorVars, SetCancled
  <2>3. Marked(f)' \/ io[f].pc = "idle"
    <3>1. CASE Alive(c)
      BY <1>1, <1>2, <1>3, <1>5, <3>1 DEF SetCancled, Marked
    <3>2. CASE ~Alive(c)
      <4>1. io[f].pc \in IoAt
        BY <1>0 DEF AloneHyp, CallInv, CallType, Calls
      <4> QED
        BY <1>2, <1>3, <3>2, <4>1 DEF Alive, IoAt
    <3> QED
      BY <3>1, <3>2
  <2> QED
    BY <1>1, <2>1, <2>2, <2>3 DEF AloneHyp, Told, reactorVars
<1>6. CASE CancelWait(c)
  <2>1. UNCHANGED <<kernelVars, batch, cancled>> /\ cbs' \subseteq cbs
    BY <1>6 DEF CancelWait, CancelEvent, reactorVars, kernelVars
  <2>2. Marked(f) \/ io[f].pc = "idle"
    BY <1>2, <1>6 DEF CancelWait, AloneHyp, Told
  <2>3. f \in woken' => f \in woken \/ io[f].pc = "hold"
    <3>1. woken' = woken \/ woken' = woken \cup {task[c.fd][c.t]}
      BY <1>6 DEF CancelWait, CancelEvent, TriggerEvent, reactorVars
    <3>2. c.fd \in Fds /\ c.t \in Types
      BY <1>0 DEF Callbacks
    <3> QED
      BY <1>0, <3>1, <3>2, ReactorAssumption DEF AloneHyp, CallInv, WaitInv
  <2> QED
    BY <1>1, <2>1, <2>2, <2>3, ToldTrigger
<1> QED
  BY <1>4, <1>5, <1>6 DEF CallbackStep

(* close() on another descriptor.                                          *)
LEMMA ToldClose ==
  ASSUME NEW f \in Connecting, AloneHyp(f), Alone(f)', NEW fd \in Fds, CloseStep(fd)
  PROVE  Told(f)'
<1>1. UNCHANGED <<io, iter, ret, kernelVars, batch, cbs, cancled>>
  BY DEF CloseStep, CloseCancel, CloseDelete, CloseFd, CancelAll, reactorVars, kernelVars
<1>2. fd # io[f].fd
  <2>1. \E s \in {"cancelled", "deleted", "closed"} : fdst' = [fdst EXCEPT ![fd] = s]
    BY DEF CloseStep, CloseCancel, CloseDelete, CloseFd
  <2>2. fdst'[fd] # "open"
    BY <2>1 DEF AloneHyp, CallInv, CallType
  <2> QED
    BY <1>1, <2>2 DEF Alone
<1>3. f \in woken' => f \in woken
  <2>1. f \in Fibers /\ event[fd] \subseteq Types
    BY HookAssumption DEF AloneHyp, CallInv, KernelType, TableInv
  <2>2. woken' = woken \/ woken' = woken \cup {task[fd][t] : t \in event[fd]}
    BY DEF CloseStep, CloseCancel, CloseDelete, CloseFd, CancelAll, TriggerEvent, reactorVars
  <2>3. \A t \in event[fd] : task[fd][t] # f
    BY <1>2, <2>1, ReactorAssumption DEF AloneHyp, CallInv, WaitInv
  <2> QED
    BY <2>2, <2>3
<1> QED
  BY <1>1, <1>3, ToldTrigger

(* The kernel and the reactor's loop: a report is about what is there.     *)
LEMMA ToldLoop ==
  ASSUME NEW f \in Connecting, AloneHyp(f), KernelEvent \/ Loop
  PROVE  Told(f)'
<1>0. f \in Fibers /\ io[f].fd \in Fds /\ io[f].t \in Types
  BY HookAssumption DEF AloneHyp, CallInv, CallType, Calls
<1>1. UNCHANGED <<io, iter, cbs, cancled, ret, fdst>>
  BY DEF KernelEvent, Loop, hookVars
<1>2. Marked(f)' = Marked(f)
  BY <1>1 DEF Marked
<1>3. CASE KernelEvent
  <2>1. UNCHANGED <<batch, woken>>
    BY <1>3 DEF KernelEvent, HangUp, Arrive
  <2>2. (Answered(f) => Answered(f)') /\ (Made(f) => Made(f)')
    <3>1. ASSUME NEW fd \in Fds, HangUp(fd)
          PROVE  (Answered(f) => Answered(f)') /\ (Made(f) => Made(f)')
      BY <1>0, <1>1, <3>1 DEF HangUp, Answered, Made, Ready
    <3>2. ASSUME NEW fd \in Fds, NEW t \in Types, Arrive(fd, t)
          PROVE  (Answered(f) => Answered(f)') /\ (Made(f) => Made(f)')
      BY <1>0, <1>1, <3>2 DEF Arrive, Answered, Made, Ready, AloneHyp, CallInv, KernelType
    <3> QED
      BY <1>3, <3>1, <3>2 DEF KernelEvent
  <2> QED
    BY <1>1, <1>2, <2>1, <2>2 DEF AloneHyp, Told
<1>4. CASE EpollWait
  <2>1. Answered(f)' = Answered(f) /\ Made(f)' = Made(f) /\ woken' = woken
    BY <1>1, <1>4 DEF EpollWait, Answered, Made, Ready, kernelVars
  <2>2. \A e \in batch' : e.fd = io[f].fd /\ (io[f].t \in e.ev \/ e.hup) => Answered(f)
    <3> SUFFICES ASSUME NEW e \in batch', e.fd = io[f].fd, io[f].t \in e.ev \/ e.hup
                 PROVE  Answered(f)
      OBVIOUS
    <3>1. e.ev = kev[e.fd] \cap Ready(e.fd) /\ e.hup = (e.fd \in hup)
      BY <1>4 DEF EpollWait
    <3>2. CASE io[f].t \in e.ev
      BY <3>1, <3>2 DEF Answered
    <3>3. CASE e.hup
      BY <1>0, <3>1, <3>3 DEF Answered, Ready
    <3> QED
      BY <3>2, <3>3
  <2> QED
    BY <1>1, <1>2, <2>1, <2>2 DEF AloneHyp, Told
<1>5. ASSUME NEW e \in batch, HandleOpen(e) PROVE Told(f)'
  <2>1. UNCHANGED kernelVars /\ batch' \subseteq batch
    BY <1>5 DEF HandleOpen, Handle
  <2>2. f \in woken' => f \in woken \/ Answered(f)
    <3>1. woken' = woken \/ woken' = woken \cup {task[e.fd][t] : t \in RealEvent(e)}
      BY <1>5 DEF HandleOpen, Handle
    <3>2. e.fd \in Fds /\ RealEvent(e) \in SUBSET Types
      BY DEF AloneHyp, CallInv, KernelType, TableInv, Entries, RealEvent
    <3>3. ASSUME NEW t \in RealEvent(e), task[e.fd][t] = f PROVE Answered(f)
      <4>1. io[f].fd = e.fd /\ io[f].t = t
        BY <1>0, <3>2, <3>3, ReactorAssumption DEF AloneHyp, CallInv, WaitInv
      <4>2. t \in e.ev \/ e.hup
        BY DEF RealEvent
      <4> QED
        BY <4>1, <4>2 DEF AloneHyp, Told
    <3> QED
      BY <3>1, <3>3
  <2> QED
    BY <1>1, <2>1, <2>2, ToldTrigger
<1> QED
  BY <1>3, <1>4, <1>5 DEF Loop

(* Every step leaves a connecting fiber that is alone with the truth.      *)
LEMMA AloneStepInv ==
  CallInv /\ TimerInv /\ OnceInv /\ AloneInv /\ [HookNext]_allVars => AloneInv'
<1> SUFFICES ASSUME CallInv, TimerInv, OnceInv, AloneInv, [HookNext]_allVars,
                    NEW f \in Connecting, Alone(f)'
             PROVE  Told(f)'
  BY DEF AloneInv
<1>1. AloneHyp(f) /\ \A g \in Fibers \ {f} : ~(Start(g) \/ CallStep(g))
  BY AloneBefore DEF AloneHyp, AloneInv
<1>2. CASE UNCHANGED allVars
  BY <1>1, <1>2 DEF allVars, hookVars, reactorVars, AloneHyp, Told, Answered, Made, Marked, Ready
<1>3. ASSUME NEW g \in Fibers, Start(g) \/ CallStep(g) PROVE Told(f)'
  BY <1>1, <1>3, ToldCall
<1>4. ASSUME NEW c \in cbs, CallbackStep(c) PROVE Told(f)'
  BY <1>1, <1>4, ToldCallback
<1>5. ASSUME NEW fd \in Fds, CloseStep(fd) PROVE Told(f)'
  BY <1>1, <1>5, ToldClose
<1>6. CASE KernelEvent \/ Loop
  BY <1>1, <1>6, ToldLoop
<1> QED
  BY <1>2, <1>3, <1>4, <1>5, <1>6 DEF HookNext, Quiet

(* connect reports success only for a connection that was made: neither a  *)
(* refusal nor a wake-up by its timeout is taken for one (Hook.cpp         *)
(* 332-403).                                                               *)
THEOREM ConnectTruthfulHolds == HookSpec => []ConnectTruthful
<1>1. HookInit => TimerInv /\ OnceInv /\ AloneInv
  <2> SUFFICES ASSUME HookInit PROVE TimerInv /\ OnceInv /\ AloneInv
    OBVIOUS
  <2>1. \A f \in Fibers : io[f].pc = "idle" /\ iter[f] = 0 /\ ret[f] = "none"
    BY DEF HookInit, Calls
  <2> QED
    BY <2>1, HookAssumption DEF HookInit, ReactorInit, TimerInv, OnceInv, AloneInv, Told
<1>2. HookSpec => []CallInv
  BY CallInit, CallStepInv, PTL DEF HookSpec
<1>3. HookSpec => [](TimerInv /\ OnceInv /\ AloneInv)
  BY <1>1, <1>2, TimerStepInv, OnceStepInv, AloneStepInv, PTL DEF HookSpec
<1>4. AloneInv => ConnectTruthful
  BY DEF AloneInv, ConnectTruthful, Alone, Told, Made
<1> QED
  BY <1>3, <1>4, PTL
=============================================================================
