----------------------------- MODULE QueueProofs -----------------------------
(***************************************************************************)
(* Three components that queue what they are given, for any number of      *)
(* fibers, events, permits, any size of block and any bound.  The          *)
(* semaphore: permits are conserved, and the code implements the abstract  *)
(* Semaphore.  The logging thread: nothing that is pushed is lost, doubled *)
(* or reordered on its way, and what was pushed before close() is printed  *)
(* when it returns, unless the thread had left before start() ended.  The  *)
(* chained buffer: a careful client finds every byte where a walk from the *)
(* first block looks for it, and reads what was written.                   *)
(***************************************************************************)
EXTENDS CoSemaphore, LogThread, ByteArray, SeqFacts, FiniteSetTheorems, TLAPS

-----------------------------------------------------------------------------
(* The fiber semaphore                                                     *)

\* g is inside notify and hands its permit to f.
Handed(f, g) == at[g] = "activate" /\ fiber[g] = f

\* m_mx is held by at most one fiber.
OneInNotify ==
  \A f, g \in Fibers :
    at[f] \in {"activate", "unhold"} /\ at[g] \in {"activate", "unhold"} => f = g

\* A blocked fiber is in the queue, or on its way out of it.
BlockedInv ==
  /\ \A f \in Fibers : InSeq(f, holdQue) => at[f] = "blocked"
  /\ \A f \in Fibers : at[f] = "blocked" =>
       InSeq(f, holdQue) \/ \E g \in Fibers : Handed(f, g)
  /\ \A g \in Fibers : at[g] = "activate" =>
       /\ fiber[g] \in Fibers /\ at[fiber[g]] = "blocked"
       /\ ~InSeq(fiber[g], holdQue)

CoInv ==
  /\ CoTypeOK /\ OneInNotify /\ BlockedInv /\ NoDup(holdQue) /\ PermitsConserved
  /\ signals <= MaxSignals

\* Only finitely many fibers hold a permit, so holders can be counted.
LEMMA HoldersFinite ==
  IsFiniteSet(Holders) /\ Cardinality(Holders) \in Nat /\ Holders \subseteq Fibers
<1>1. Holders \subseteq Fibers
  BY DEF Holders
<1>2. QED BY <1>1, SemaphoreAssumption, FS_Subset, FS_CardinalityType

\* A freshly constructed CoSemaphore satisfies the invariant.
LEMMA CoInitInv == CoInit => CoInv
<1> SUFFICES ASSUME CoInit PROVE CoInv
  OBVIOUS
<1>1. CoTypeOK
  BY SemaphoreAssumption DEF CoInit, CoTypeOK, At
<1>2. OneInNotify /\ BlockedInv /\ NoDup(holdQue)
  <2>1. holdQue = <<>> /\ \A f \in Fibers : at[f] = "out"
    BY DEF CoInit
  <2>2. NoDup(holdQue) /\ \A f : ~InSeq(f, holdQue)
    BY <2>1 DEF NoDup, InSeq
  <2>3. OneInNotify
    BY <2>1 DEF OneInNotify
  <2>4. BlockedInv
    BY <2>1, <2>2 DEF BlockedInv
  <2>5. QED BY <2>2, <2>3, <2>4
<1>3. Holders = {}
  BY DEF CoInit, Holders
<1>4. PermitsConserved
  BY <1>3, FS_EmptySet, SemaphoreAssumption DEF CoInit, PermitsConserved
<1>5. QED BY <1>1, <1>2, <1>4, SemaphoreAssumption DEF CoInit, CoInv

\* A permit is taken.
LEMMA TakeInv ==
  ASSUME CoInv, NEW f \in Fibers, TryWait(f)
  PROVE  CoInv' /\ Holders' = Holders \cup {f} /\ f \notin Holders
<1> USE DEF CoInv, CoTypeOK
<1>1. CoTypeOK' /\ OneInNotify' /\ BlockedInv' /\ NoDup(holdQue)'
  BY DEF TryWait, OneInNotify, BlockedInv, Handed, At
<1>2. f \notin Holders
  BY DEF TryWait, Holders, BlockedInv
<1>3. Holders' = Holders \cup {f}
  BY DEF TryWait, Holders
<1>4. PermitsConserved'
  <2>1. Cardinality(Holders') = Cardinality(Holders) + 1 /\ Cardinality(Holders) \in Nat
    BY <1>2, <1>3, HoldersFinite, FS_AddElement
  <2>2. value' = value - 1 /\ signals' = signals
    BY DEF TryWait
  <2>3. QED BY <2>1, <2>2, SemaphoreAssumption DEF PermitsConserved
<1>5. QED BY <1>1, <1>2, <1>3, <1>4 DEF TryWait

\* A fiber queues itself.
LEMMA BlockInv ==
  ASSUME CoInv, NEW f \in Fibers, Wait(f), ~TryWait(f)
  PROVE  CoInv' /\ Holders' = Holders
<1> USE DEF CoInv, CoTypeOK
<1>1. /\ Unlocked /\ at[f] = "out" /\ holdQue' = Append(holdQue, f) /\ hold' = hold + 1
      /\ at' = [at EXCEPT ![f] = "blocked"] /\ UNCHANGED <<value, fiber, signals>>
  BY DEF Wait
<1>2. ~InSeq(f, holdQue)
  BY <1>1 DEF BlockedInv
<1>3. PICK q \in Seq(Fibers) : q = Append(holdQue, f)
  BY AppendFacts
<1>4. NoDup(q) /\ \A g : InSeq(g, q) <=> InSeq(g, holdQue) \/ g = f
  BY <1>2, <1>3, AppendFacts
<1>5. CoTypeOK' /\ OneInNotify' /\ NoDup(holdQue)'
  BY <1>1, <1>3, <1>4 DEF OneInNotify, At
<1>6. BlockedInv'
  BY <1>1, <1>3, <1>4 DEF BlockedInv, Handed, Unlocked
<1>7. Holders' = Holders
  BY <1>1 DEF Holders
<1>8. QED BY <1>1, <1>5, <1>6, <1>7 DEF PermitsConserved

\* The permit goes to the head of the queue.
LEMMA PassInv ==
  ASSUME CoInv, NEW f \in Fibers, Notify(f), holdQue # <<>>
  PROVE  /\ CoInv'
         /\ \E h \in Fibers :
              /\ at[h] = "blocked" /\ h \notin Holders
              /\ at'[h] = "blocked"
              /\ Holders' = (IF at[f] = "in" THEN Holders \ {f} ELSE Holders) \cup {h}
<1> USE DEF CoInv, CoTypeOK
<1>1. PICK h \in Fibers, q \in Seq(Fibers) : h = Head(holdQue) /\ q = Tail(holdQue)
  BY TailFacts
<1>2. /\ InSeq(h, holdQue) /\ NoDup(q)
      /\ \A g : InSeq(g, q) <=> InSeq(g, holdQue) /\ g # h
  BY <1>1, TailFacts
<1>3. /\ Unlocked /\ at[f] \in {"in", "out"} /\ fiber' = [fiber EXCEPT ![f] = h]
      /\ holdQue' = q /\ at' = [at EXCEPT ![f] = "activate"] /\ UNCHANGED <<value, hold>>
      /\ at[f] = "in" => signals' = signals
      /\ at[f] = "out" => signals' = signals + 1
  BY <1>1 DEF Notify
<1>4. at[h] = "blocked" /\ h # f
  BY <1>2, <1>3 DEF BlockedInv
<1>5. CoTypeOK' /\ NoDup(holdQue)'
  BY <1>2, <1>3 DEF At
<1>6. OneInNotify'
  BY <1>3 DEF OneInNotify, Unlocked
<1>7. BlockedInv'
  <2>1. \A g \in Fibers : InSeq(g, holdQue') => at'[g] = "blocked"
    BY <1>2, <1>3 DEF BlockedInv
  <2>2. Handed(h, f)'
    BY <1>3 DEF Handed
  <2>3. \A g \in Fibers : at'[g] = "blocked" =>
          InSeq(g, holdQue') \/ \E k \in Fibers : Handed(g, k)'
    BY <1>2, <1>3, <2>2 DEF BlockedInv, Handed, Unlocked
  <2>4. \A g \in Fibers : at'[g] = "activate" => g = f
    BY <1>3 DEF Unlocked
  <2>5. fiber'[f] = h /\ at'[h] = "blocked" /\ ~InSeq(h, holdQue')
    BY <1>2, <1>3, <1>4
  <2>6. QED BY <2>1, <2>3, <2>4, <2>5 DEF BlockedInv
<1>8. h \notin Holders
  BY <1>3, <1>4 DEF Holders, Unlocked
<1>9. Holders' = (IF at[f] = "in" THEN Holders \ {f} ELSE Holders) \cup {h}
  BY <1>3, <1>4 DEF Holders, Unlocked
<1>10. PermitsConserved'
  <2>1. CASE at[f] = "in"
    <3>1. f \in Holders
      BY <2>1 DEF Holders
    <3>2. Cardinality(Holders \ {f}) = Cardinality(Holders) - 1 /\ IsFiniteSet(Holders \ {f})
      BY <3>1, HoldersFinite, FS_RemoveElement
    <3>3. h \notin Holders \ {f} /\ Holders' = (Holders \ {f}) \cup {h}
      BY <1>8, <1>9, <2>1
    <3>4. Cardinality(Holders') = Cardinality(Holders \ {f}) + 1
      BY <3>2, <3>3, FS_AddElement
    <3>5. QED BY <1>3, <2>1, <3>2, <3>4, HoldersFinite, SemaphoreAssumption DEF PermitsConserved
  <2>2. CASE at[f] = "out"
    <3>1. Cardinality(Holders') = Cardinality(Holders) + 1
      BY <1>8, <1>9, <2>2, HoldersFinite, FS_AddElement
    <3>2. value' = value /\ signals' = signals + 1
      BY <1>3, <2>2
    <3>3. QED BY <3>1, <3>2, HoldersFinite, SemaphoreAssumption DEF PermitsConserved
  <2>3. QED BY <1>3, <2>1, <2>2
<1>10a. signals' <= MaxSignals
  BY <1>3, SemaphoreAssumption DEF Notify
<1>11. QED BY <1>10a, <1>3, <1>4, <1>5, <1>6, <1>7, <1>8, <1>9, <1>10

\* Nobody waits: the permit becomes free.
LEMMA FreeInv ==
  ASSUME CoInv, NEW f \in Fibers, Notify(f), holdQue = <<>>
  PROVE  /\ CoInv' /\ value' = value + 1
         /\ Holders' = IF at[f] = "in" THEN Holders \ {f} ELSE Holders
         /\ \A g \in Fibers : at[g] # "blocked"
<1> USE DEF CoInv, CoTypeOK
<1>1. /\ Unlocked /\ at[f] \in {"in", "out"} /\ value' = value + 1
      /\ at' = [at EXCEPT ![f] = "out"] /\ UNCHANGED <<holdQue, fiber, hold>>
      /\ at[f] = "in" => signals' = signals
      /\ at[f] = "out" => signals' = signals + 1
  BY DEF Notify
<1>2. CoTypeOK' /\ OneInNotify' /\ BlockedInv' /\ NoDup(holdQue)'
  BY <1>1 DEF OneInNotify, BlockedInv, Handed, Unlocked, At
<1>3. Holders' = IF at[f] = "in" THEN Holders \ {f} ELSE Holders
  BY <1>1 DEF Holders, Unlocked
<1>4. PermitsConserved'
  <2>1. CASE at[f] = "in"
    <3>1. f \in Holders /\ Holders' = Holders \ {f}
      BY <1>3, <2>1 DEF Holders
    <3>2. Cardinality(Holders') = Cardinality(Holders) - 1
      BY <3>1, HoldersFinite, FS_RemoveElement
    <3>3. QED BY <1>1, <2>1, <3>2, HoldersFinite, SemaphoreAssumption DEF PermitsConserved
  <2>2. CASE at[f] = "out"
    <3>1. Holders' = Holders
      BY <1>3, <2>2
    <3>2. QED BY <1>1, <2>2, <3>1, HoldersFinite, SemaphoreAssumption DEF PermitsConserved
  <2>3. QED BY <1>1, <2>1, <2>2
<1>5. \A g \in Fibers : at[g] # "blocked"
  <2>1. \A g : ~InSeq(g, holdQue)
    BY DEF InSeq
  <2>2. QED BY <1>1, <2>1 DEF BlockedInv, Handed, Unlocked
<1>6. signals' <= MaxSignals
  BY <1>1, SemaphoreAssumption DEF Notify
<1>7. QED BY <1>1, <1>2, <1>3, <1>4, <1>5, <1>6

\* The woken fiber runs, then its hold is released.
LEMMA ActivateInv ==
  ASSUME CoInv, NEW f \in Fibers, Activate(f) \/ Unhold(f)
  PROVE  CoInv' /\ Holders' = Holders
<1> USE DEF CoInv, CoTypeOK
<1>1. CASE Activate(f)
  <2>1. PICK h \in Fibers : h = fiber[f] /\ at[h] = "blocked" /\ ~InSeq(h, holdQue)
    BY <1>1 DEF Activate, BlockedInv
  <2>2. /\ at[f] = "activate" /\ h # f
        /\ at' = [at EXCEPT ![f] = "unhold", ![h] = "in"]
        /\ fiber' = [fiber EXCEPT ![f] = NoOne]
        /\ UNCHANGED <<value, holdQue, hold, signals>>
    BY <1>1, <2>1 DEF Activate
  <2>3. \A g \in Fibers : at[g] \in {"activate", "unhold"} => g = f
    BY <2>2 DEF OneInNotify
  <2>4. CoTypeOK' /\ OneInNotify' /\ NoDup(holdQue)'
    BY <2>2, <2>3 DEF OneInNotify, At
  <2>5. BlockedInv'
    BY <2>1, <2>2, <2>3 DEF BlockedInv, Handed
  <2>6. Holders' = Holders
    BY <2>1, <2>2, <2>3 DEF Holders
  <2>7. QED BY <2>2, <2>4, <2>5, <2>6 DEF PermitsConserved
<1>2. CASE Unhold(f)
  <2>1. /\ at[f] = "unhold" /\ at' = [at EXCEPT ![f] = "out"] /\ hold' = hold - 1
        /\ UNCHANGED <<value, holdQue, fiber, signals>>
    BY <1>2 DEF Unhold
  <2>2a. CoTypeOK' /\ OneInNotify' /\ NoDup(holdQue)'
    BY <2>1 DEF OneInNotify, At
  <2>2b. BlockedInv'
    BY <2>1 DEF BlockedInv, Handed
  <2>3. Holders' = Holders
    BY <2>1 DEF Holders
  <2>4. QED BY <2>1, <2>2a, <2>2b, <2>3 DEF PermitsConserved
<1>3. QED BY <1>1, <1>2

\* Every step of wait, tryWait, notify and the activation preserves it.
LEMMA CoNextInv == CoInv /\ [CoNext]_coVars => CoInv'
<1> SUFFICES ASSUME CoInv, [CoNext]_coVars PROVE CoInv'
  OBVIOUS
<1>1. ASSUME NEW f \in Fibers, Wait(f) PROVE CoInv'
  BY <1>1, TakeInv, BlockInv
<1>2. ASSUME NEW f \in Fibers, Notify(f) PROVE CoInv'
  BY <1>2, PassInv, FreeInv
<1>3. ASSUME NEW f \in Fibers, Activate(f) \/ Unhold(f) PROVE CoInv'
  BY <1>3, ActivateInv
<1>4. CASE UNCHANGED coVars
  BY <1>4 DEF coVars, CoInv, CoTypeOK, OneInNotify, BlockedInv, Handed, PermitsConserved, Holders
<1>5. QED BY <1>1, <1>2, <1>3, <1>4 DEF CoNext

\* For every set of fibers and every initial value, wait and notify neither
\* lose nor duplicate a permit.
THEOREM PermitsConservedHolds == CoSpec => []PermitsConserved
<1>1. CoInv => PermitsConserved
  BY DEF CoInv
<1>2. QED BY <1>1, CoInitInv, CoNextInv, PTL DEF CoSpec

\* Two fibers are never both between CoMutex::lock and unlock, however many
\* fibers contend.
THEOREM MutexExclusiveHolds == CoSpec => []MutexExclusive
<1>1. CoInv => MutexExclusive
  <2> SUFFICES ASSUME CoInv, Value = 1, signals = 0, NEW f \in Fibers, NEW g \in Fibers,
                      at[f] = "in", at[g] = "in", f # g
               PROVE  FALSE
    BY DEF MutexExclusive
  <2>1. f \in Holders /\ g \in Holders
    BY DEF Holders
  <2>2. signals = 0 /\ Cardinality(Holders) <= 1
    BY HoldersFinite DEF CoInv, CoTypeOK, PermitsConserved
  <2>3. Cardinality(Holders \ {f}) = Cardinality(Holders) - 1 /\ IsFiniteSet(Holders \ {f})
    BY <2>1, HoldersFinite, FS_RemoveElement
  <2>4. Cardinality(Holders \ {f}) \in Nat
    BY <2>3, FS_CardinalityType
  <2>5. Cardinality(Holders \ {f}) = 0
    BY <2>2, <2>3, <2>4, HoldersFinite
  <2>6. Holders \ {f} = {}
    BY <2>3, <2>5, FS_EmptySet
  <2>7. QED BY <2>1, <2>6
<1>2. QED BY <1>1, CoInitInv, CoNextInv, PTL DEF CoSpec

\* Every step of the code is a step of the abstract semaphore or changes
\* nothing in it.
THEOREM ImplementsSemaphore == CoSpec => AbsSpec
<1> DEFINE W == {f \in Fibers : at[f] = "blocked"} \ Holders
<1>1. CoInit => Abs!SemInit
  BY DEF CoInit, Abs!SemInit, Holders
<1>2. CoInv /\ [CoNext]_coVars => [Abs!SemNext]_(Abs!semVars)
  <2> SUFFICES ASSUME CoInv, [CoNext]_coVars PROVE [Abs!SemNext]_(Abs!semVars)
    OBVIOUS
  <2> USE DEF CoInv, CoTypeOK
  <2>1. ASSUME NEW f \in Fibers, TryWait(f) PROVE Abs!Acquire(f)
    <3>1. Holders' = Holders \cup {f} /\ f \notin Holders
      BY <2>1, TakeInv
    <3>2. W' = W /\ f \notin W
      BY <2>1, <3>1 DEF TryWait
    <3>3. QED BY <2>1, <3>1, <3>2 DEF Abs!Acquire, TryWait
  <2>2. ASSUME NEW f \in Fibers, Wait(f), ~TryWait(f) PROVE Abs!Enqueue(f)
    <3>1. Holders' = Holders
      BY <2>2, BlockInv
    <3>2. at[f] = "out" /\ value = 0 /\ at' = [at EXCEPT ![f] = "blocked"] /\ UNCHANGED <<value, signals>>
      BY <2>2 DEF Wait
    <3>3. f \notin Holders
      BY <3>2 DEF Holders, BlockedInv
    <3>4. W' = W \cup {f} /\ f \notin W
      BY <3>1, <3>2, <3>3
    <3>5. QED BY <3>1, <3>2, <3>3, <3>4 DEF Abs!Enqueue
  <2>3. ASSUME NEW f \in Fibers, Notify(f)
        PROVE  IF at[f] = "in" THEN Abs!Release(f) ELSE Abs!Signal
    <3>1. /\ at[f] = "in" => Abs!Give(Holders \ {f})
          /\ at[f] # "in" => Abs!Give(Holders)
      <4>1. CASE holdQue # <<>>
        <5>1. PICK h \in Fibers :
                /\ at[h] = "blocked" /\ h \notin Holders /\ at'[h] = "blocked"
                /\ Holders' = (IF at[f] = "in" THEN Holders \ {f} ELSE Holders) \cup {h}
          BY <2>3, <4>1, PassInv
        <5>2. at' = [at EXCEPT ![f] = "activate"] /\ at[f] \in {"in", "out"} /\ value' = value
          BY <2>3, <4>1 DEF Notify
        <5>3. at[f] = "in" => f \in Holders
          BY DEF Holders
        <5>4. h \in W /\ W' = W \ {h}
          BY <5>1, <5>2, <5>3
        <5>5. QED BY <5>1, <5>2, <5>4 DEF Abs!Give
      <4>2. CASE holdQue = <<>>
        <5>1. /\ value' = value + 1
              /\ Holders' = IF at[f] = "in" THEN Holders \ {f} ELSE Holders
              /\ \A g \in Fibers : at[g] # "blocked"
          BY <2>3, <4>2, FreeInv
        <5>2. at' = [at EXCEPT ![f] = "out"]
          BY <2>3, <4>2 DEF Notify
        <5>3. W = {} /\ W' = {}
          BY <5>1, <5>2
        <5>4. QED BY <5>1, <5>3 DEF Abs!Give
      <4>3. QED BY <4>1, <4>2
    <3>2. CASE at[f] = "in"
      <4>1. f \in Holders /\ signals' = signals
        BY <2>3, <3>2 DEF Holders, Notify
      <4>2. QED BY <3>1, <3>2, <4>1 DEF Abs!Release
    <3>3. CASE at[f] # "in"
      <4>1. signals < MaxSignals /\ signals' = signals + 1
        BY <2>3, <3>3 DEF Notify
      <4>2. QED BY <3>1, <3>3, <4>1 DEF Abs!Signal
    <3>4. QED BY <3>2, <3>3
  <2>4. ASSUME NEW f \in Fibers, Activate(f) \/ Unhold(f) PROVE UNCHANGED Abs!semVars
    <3>1. Holders' = Holders
      BY <2>4, ActivateInv
    <3>2. UNCHANGED <<value, signals>>
      BY <2>4 DEF Activate, Unhold
    <3>3. CASE Activate(f)
      <4>1. PICK h \in Fibers : h = fiber[f] /\ h \in Holders
        BY <3>3 DEF Activate, BlockedInv, Holders
      <4>2. at[f] = "activate" /\ at' = [at EXCEPT ![f] = "unhold", ![h] = "in"]
        BY <3>3, <4>1 DEF Activate
      <4>3. W' = W
        BY <3>1, <4>1, <4>2
      <4>4. QED BY <3>1, <3>2, <4>3 DEF Abs!semVars
    <3>4. CASE Unhold(f)
      <4>1. W' = W
        BY <3>1, <3>4 DEF Unhold
      <4>2. QED BY <3>1, <3>2, <4>1 DEF Abs!semVars
    <3>5. QED BY <2>4, <3>3, <3>4
  <2>5. CASE UNCHANGED coVars
    BY <2>5 DEF coVars, Abs!semVars, Holders
  <2>6. QED BY <2>1, <2>2, <2>3, <2>4, <2>5 DEF CoNext, Abs!SemNext
<1>3. QED BY <1>1, <1>2, CoInitInv, CoNextInv, PTL DEF CoSpec, AbsSpec, Abs!SemSpec
-----------------------------------------------------------------------------
(* The logging thread                                                      *)

\* Every event that was pushed is printed, in the batch or in the queue; the
\* batch is used up when the thread looks at the queue again.
OrderInv ==
  /\ m_que \in Seq(Events) /\ events \in Seq(Events) /\ printed \in Seq(Events)
  /\ accepted = printed \o events \o m_que
  /\ worker \notin {"log", "lastlog", "aborted"} => events = <<>>

(* Taking a batch off the queue moves the cut and nothing else.            *)
LEMMA PopOrder ==
  ASSUME OrderInv, NEW from, NEW log \in {"log", "lastlog"}, NEW done, Pop(from, log, done),
         from \notin {"log", "lastlog", "aborted"}
  PROVE  OrderInv'
<1> USE DEF OrderInv
<1>0. worker = from /\ events = <<>> /\ UNCHANGED <<printed, accepted>>
  BY DEF Pop, histVars
<1>1. CASE m_que = <<>> /\ UNCHANGED <<m_que, events>>
  BY <1>0, <1>1
<1>2. ASSUME NEW n \in 0 .. Len(m_que), events' = SubSeq(m_que, 1, n),
             m_que' = SubSeq(m_que, n + 1, Len(m_que)), worker' = log
      PROVE  OrderInv'
  <2>1. events' \in Seq(Events) /\ m_que' \in Seq(Events)
    BY <1>2, CutSeq
  <2>2. events' \o m_que' = m_que
    <3>1. Len(m_que) \in Nat
      BY LenProperties
    <3>2. /\ 1 \in 1 .. Len(m_que) + 1 /\ n \in 1 - 1 .. Len(m_que)
          /\ Len(m_que) \in n .. Len(m_que)
      BY <3>1
    <3> QED
      BY <1>2, <3>2, ConcatAdjacentSubSeq, SubSeqFull
  <2>3. printed \o events \o m_que = printed \o m_que
    BY <1>0, ConcatEmptySeq
  <2>4. (printed \o events') \o m_que' = printed \o (events' \o m_que')
    <3>1. printed \in Seq(Events)
      OBVIOUS
    <3> HIDE DEF OrderInv
    <3> QED
      BY <2>1, <3>1, ConcatAssociative
  <2> QED
    BY <1>0, <1>2, <2>1, <2>2, <2>3, <2>4
<1>3. Len(m_que) \in Nat
  BY LenProperties
<1>4. CASE m_que # <<>>
  <2> DEFINE n == IF Len(m_que) < Batch THEN Len(m_que) ELSE Batch
  <2>1. n \in 0 .. Len(m_que)
    BY <1>3, LogAssumption
  <2>2. /\ events' = SubSeq(m_que, 1, n) /\ m_que' = SubSeq(m_que, n + 1, Len(m_que))
        /\ worker' = log
    BY <1>4 DEF Pop
  <2> QED
    BY <1>2, <2>1, <2>2
<1> QED
  BY <1>1, <1>4 DEF Pop

(* Printing moves the first of the batch to the end of what is printed.    *)
LEMMA LogOrder ==
  ASSUME OrderInv, NEW from \in {"log", "lastlog"}, NEW again, LogOne(from, again)
  PROVE  OrderInv'
<1> USE DEF OrderInv
<1>0. worker = from /\ UNCHANGED <<m_que, accepted>>
  BY DEF LogOne, histVars
<1>1. CASE /\ events # <<>> /\ printed' = Append(printed, Head(events))
           /\ events' = Tail(events)
           /\ worker' = IF Head(events) \in Fatal THEN "aborted" ELSE from
  <2>1. printed' \in Seq(Events) /\ events' \in Seq(Events)
    BY <1>1
  <2>2. printed' \o events' = printed \o events
    BY <1>1
  <2> QED
    BY <1>0, <1>1, <2>1, <2>2
<1>2. CASE events = <<>> /\ worker' = again /\ UNCHANGED <<events, printed>>
  BY <1>0, <1>2
<1> QED
  BY <1>1, <1>2 DEF LogOne

(* A push adds to the end of both.                                         *)
LEMMA PushOrder ==
  ASSUME OrderInv, NEW e \in Events, SendPush(e)
  PROVE  OrderInv'
<1> USE DEF OrderInv
<1>1. /\ m_que' = Append(m_que, e) /\ accepted' = Append(accepted, e)
      /\ UNCHANGED <<worker, events, printed>>
  BY DEF SendPush
<1>2. printed \o events \in Seq(Events)
  BY ConcatProperties
<1>3. \A p \in Seq(Events) : p \o Append(m_que, e) = Append(p \o m_que, e)
  <2> SUFFICES ASSUME NEW p \in Seq(Events)
               PROVE  p \o Append(m_que, e) = Append(p \o m_que, e)
    OBVIOUS
  <2>1. /\ p \o Append(m_que, e) \in Seq(Events) /\ Append(p \o m_que, e) \in Seq(Events)
        /\ Len(p \o Append(m_que, e)) = Len(Append(p \o m_que, e))
    OBVIOUS
  <2>2. \A i \in 1 .. Len(p \o Append(m_que, e)) :
          (p \o Append(m_que, e))[i] = Append(p \o m_que, e)[i]
    OBVIOUS
  <2> QED
    BY <2>1, <2>2, SeqEqual
<1>4. accepted' = printed' \o events' \o m_que'
  <2> HIDE DEF OrderInv
  <2>1. accepted = printed \o events \o m_que
    BY DEF OrderInv
  <2> QED
    BY <1>1, <1>2, <1>3, <2>1
<1>5. m_que' \in Seq(Events)
  BY <1>1
<1> QED
  BY <1>1, <1>4, <1>5

(* Every step keeps the order.                                             *)
LEMMA OrderStep == OrderInv /\ [LogNext]_logVars => OrderInv'
<1> SUFFICES ASSUME OrderInv, [LogNext]_logVars PROVE OrderInv'
  OBVIOUS
<1>1. CASE UNCHANGED <<m_que, events, printed, accepted, worker>>
  BY <1>1 DEF OrderInv
<1>2. CASE Work \/ LastWork
  BY <1>2, PopOrder, LogOrder DEF Work, LastWork
<1>3. CASE CheckClose \/ Sleep
  BY <1>3 DEF CheckClose, Sleep, histVars, OrderInv
<1>4. ASSUME NEW e \in Events, Send(e) PROVE OrderInv'
  <2>1. CASE SendCheck(e) \/ SendNotify(e)
    BY <1>1, <2>1 DEF SendCheck, SendNotify, histVars
  <2> QED
    BY <1>4, <2>1, PushOrder DEF Send
<1>5. CASE Close \/ Ended \/ UNCHANGED logVars
  BY <1>1, <1>5 DEF Close, Start, CloseSet, CloseNotify, CloseJoin, Ended, logVars, histVars
<1> QED
  BY <1>2, <1>3, <1>4, <1>5 DEF LogNext, WorkerStep

\* When the thread is on its last round close() has been called, and when it
\* has left all that was pushed before is printed; a thread that tested m_close
\* before start() cleared it is the exception, and raced tells it.
LastInv ==
  /\ closer \in {"starting", "open", "notify", "join", "closed"}
  /\ m_close = (closer # "open")
  /\ raced \in BOOLEAN
  /\ worker \in {"last", "lastlog", "exited"} =>
       raced \/ closer \in {"notify", "join", "closed"}
  /\ early \subseteq ToSet(accepted)
  /\ worker = "exited" => raced \/ early \subseteq ToSet(printed)
  /\ closer = "closed" => worker = "exited"

(* Every step keeps it.                                                    *)
LEMMA LastStep == OrderInv /\ OrderInv' /\ LastInv /\ [LogNext]_logVars => LastInv'
<1> SUFFICES ASSUME OrderInv, OrderInv', LastInv, [LogNext]_logVars PROVE LastInv'
  OBVIOUS
<1>0. \A s \in Seq(Events) : s = <<>> => \A p \in Seq(Events) : p \o s = p
  OBVIOUS
<1>1. CASE UNCHANGED <<m_close, closer, worker, accepted, early, raced, printed>>
  BY <1>1 DEF LastInv
<1>2. CASE Pop("work", "log", "closing?") \/ Sleep
  BY <1>2 DEF Pop, Sleep, LastInv, histVars
<1>3. ASSUME NEW from \in {"log", "lastlog"}, NEW again, <<from, again>> \in {<<"log", "work">>, <<"lastlog", "last">>}, LogOne(from, again)
      PROVE  LastInv'
  BY <1>3 DEF LogOne, LastInv, histVars
<1>4. CASE Pop("last", "lastlog", "exited")
  <2>1. worker = "last" /\ worker' \in {"lastlog", "exited"}
        /\ UNCHANGED <<m_close, closer, printed, accepted, early, raced>>
    BY <1>4 DEF Pop, histVars
  <2>2. worker' = "exited" => accepted = printed
    <3>1. worker' = "exited" => m_que = <<>> /\ events = <<>>
      BY <1>4, <2>1 DEF Pop, OrderInv
    <3> QED
      BY <3>1, <1>0 DEF OrderInv
  <2> QED
    BY <2>1, <2>2 DEF LastInv
<1>5. CASE CheckClose
  BY <1>5 DEF CheckClose, LastInv, histVars
<1>6. ASSUME NEW e \in Events, Send(e) PROVE LastInv'
  <2>1. CASE SendCheck(e) \/ SendNotify(e)
    BY <1>1, <2>1 DEF SendCheck, SendNotify, histVars
  <2>2. CASE SendPush(e)
    <3>1. accepted' = Append(accepted, e) /\ UNCHANGED <<m_close, closer, worker, early, raced, printed>>
      BY <2>2 DEF SendPush
    <3>2. accepted \in Seq(Events)
      BY ConcatProperties DEF OrderInv
    <3>3. ToSet(accepted) \subseteq ToSet(accepted')
      BY <3>1, <3>2 DEF ToSet
    <3> QED
      BY <3>1, <3>3 DEF LastInv
  <2> QED
    BY <1>6, <2>1, <2>2 DEF Send
<1>7. CASE Close
  BY <1>7 DEF Close, Start, CloseSet, CloseNotify, CloseJoin, LastInv, histVars
<1>8. CASE Ended \/ UNCHANGED logVars
  BY <1>1, <1>8 DEF Ended, logVars, histVars
<1> QED
  BY <1>2, <1>3, <1>4, <1>5, <1>6, <1>7, <1>8 DEF LogNext, WorkerStep, Work, LastWork

(* LogThread.cpp 91-119: when close() returns all that was pushed before   *)
(* it set m_close is printed, unless the thread had left at a test it made *)
(* before start() cleared m_close; and events are printed once, in the     *)
(* order of their pushes.                                                  *)
THEOREM EarlyPrintedHolds == LogSpec => []EarlyPrinted
<1>1. LogInit => OrderInv /\ LastInv
  <2>1. LogInit => OrderInv
    BY DEF LogInit, OrderInv
  <2>2. LogInit => LastInv
    BY DEF LogInit, LastInv
  <2> QED
    BY <2>1, <2>2
<1>2. OrderInv /\ LastInv /\ [LogNext]_logVars => OrderInv' /\ LastInv'
  BY OrderStep, LastStep
<1>3. OrderInv /\ LastInv => EarlyPrinted
  BY DEF OrderInv, LastInv, EarlyPrinted
<1> QED
  BY <1>1, <1>2, <1>3, PTL DEF LogSpec

(* LogThread.cpp 63-119: whenever start() ends, what is pushed is printed  *)
(* at most once and in the order of the pushes, up to what the thread has  *)
(* in its hands and what is still queued.                                  *)
THEOREM PrintedInOrder == LogSpec => [](accepted = printed \o events \o m_que)
<1>1. LogInit => OrderInv
  BY DEF LogInit, OrderInv
<1> QED
  BY <1>1, OrderStep, PTL DEF LogSpec, OrderInv

-----------------------------------------------------------------------------
(* The chained buffer                                                      *)

\* Quotient and remainder, and what makes them.
LEMMA DivMod ==
  \A x \in Int : /\ x = BlockSize * (x \div BlockSize) + (x % BlockSize)
                 /\ x % BlockSize \in 0 .. BlockSize - 1 /\ x \div BlockSize \in Int
BY ByteArrayAssumption

LEMMA MulSucc == \A p, q \in Int : p < q => BlockSize * p + BlockSize <= BlockSize * q
BY ByteArrayAssumption

LEMMA MulInt == \A p \in Int : BlockSize * p \in Int /\ BlockSize * (p + 1) = BlockSize * p + BlockSize
BY ByteArrayAssumption

LEMMA MulAdd == \A p, q \in Int : BlockSize * (p + q) = BlockSize * p + BlockSize * q
BY ByteArrayAssumption

LEMMA DivUnique ==
  ASSUME NEW x \in Int, NEW q \in Int, NEW r \in Int, 0 <= r, r < BlockSize,
         x = BlockSize * q + r
  PROVE  x \div BlockSize = q /\ x % BlockSize = r
<1> DEFINE Q == x \div BlockSize
           R == x % BlockSize
<1>1. x = BlockSize * Q + R /\ R \in 0 .. BlockSize - 1 /\ Q \in Int
  BY DivMod DEF Q, R
<1> HIDE DEF Q, R
<1>2. ~(Q < q)
  BY <1>1, MulSucc, ByteArrayAssumption
<1>3. ~(q < Q)
  BY <1>1, MulSucc, ByteArrayAssumption
<1>4. Q = q
  BY <1>1, <1>2, <1>3
<1> QED
  BY <1>1, <1>4, ByteArrayAssumption DEF Q, R

\* Byte i is in block c exactly when i is between the block's edges.
LEMMA BlockEdges ==
  \A i, c \in Int : i \div BlockSize = c <=> BlockSize * c <= i /\ i < BlockSize * c + BlockSize
<1> TAKE i, c \in Int
<1>1. ASSUME i \div BlockSize = c PROVE BlockSize * c <= i /\ i < BlockSize * c + BlockSize
  <2>1. i = BlockSize * c + (i % BlockSize) /\ i % BlockSize \in 0 .. BlockSize - 1
    BY <1>1, DivMod
  <2> QED
    BY <2>1, MulInt, ByteArrayAssumption
<1>2. ASSUME BlockSize * c <= i, i < BlockSize * c + BlockSize PROVE i \div BlockSize = c
  <2>1. PICK r : r = i - BlockSize * c
    OBVIOUS
  <2>2. r \in Int /\ 0 <= r /\ r < BlockSize /\ i = BlockSize * c + r
    BY <1>2, <2>1, MulInt, ByteArrayAssumption
  <2> QED
    BY <2>2, DivUnique
<1> QED
  BY <1>1, <1>2

\* Two bytes with the same block and the same place in it are one byte.
LEMMA OnePlaceEach ==
  \A i, j \in Int : i \div BlockSize = j \div BlockSize /\ i % BlockSize = j % BlockSize => i = j
<1> TAKE i, j \in Int
<1> HAVE i \div BlockSize = j \div BlockSize /\ i % BlockSize = j % BlockSize
<1>1. /\ i = BlockSize * (i \div BlockSize) + (i % BlockSize)
      /\ j = BlockSize * (j \div BlockSize) + (j % BlockSize)
  BY DivMod
<1> QED
  BY <1>1

\* The first byte of a block, and those of the blocks before c.
LEMMA BlockRange ==
  /\ \A i \in Nat : i \div BlockSize \in Nat
  /\ \A i \in Nat, c \in Nat : i < BlockSize * c <=> i \div BlockSize + 1 \in 1 .. c
<1>1. ASSUME NEW i \in Nat PROVE i \div BlockSize \in Nat
  <2>1. PICK q : q = i \div BlockSize
    OBVIOUS
  <2>2. q \in Int /\ i < BlockSize * q + BlockSize
    BY <2>1, DivMod, BlockEdges
  <2>3. q < 0 => BlockSize * q + BlockSize <= BlockSize * 0
    BY <2>2, MulSucc
  <2>4. BlockSize * 0 = 0
    BY ByteArrayAssumption
  <2> QED
    BY <2>1, <2>2, <2>3, <2>4, MulInt, ByteArrayAssumption
<1>2. ASSUME NEW i \in Nat, NEW c \in Nat
      PROVE  i < BlockSize * c <=> i \div BlockSize + 1 \in 1 .. c
  <2>1. PICK q : q = i \div BlockSize
    OBVIOUS
  <2>2. q \in Nat /\ BlockSize * q <= i /\ i < BlockSize * q + BlockSize
    BY <1>1, <2>1, BlockEdges
  <2>3. (q < c => BlockSize * q + BlockSize <= BlockSize * c)
        /\ (c < q => BlockSize * c + BlockSize <= BlockSize * q)
    BY <2>2, MulSucc
  <2>4. BlockSize * c \in Int /\ BlockSize * q \in Int /\ BlockSize \in Nat \ {0}
    BY <2>2, MulInt, ByteArrayAssumption
  <2>5. (i < BlockSize * c) <=> q < c
    BY <2>2, <2>3, <2>4
  <2> QED
    BY <2>1, <2>2, <2>5
<1> QED
  BY <1>1, <1>2

\* Blocks rounds up.
LEMMA BlocksFacts ==
  \A n \in Int : /\ Blocks(n) \in Int /\ n <= BlockSize * Blocks(n)
                 /\ BlockSize * Blocks(n) < n + BlockSize
                 /\ n = 0 => Blocks(n) = 0
                 /\ n > 0 => Blocks(n) > 0
<1> TAKE n \in Int
<1>1. PICK x, q, r : x = n + BlockSize - 1 /\ q = x \div BlockSize /\ r = x % BlockSize
  OBVIOUS
<1>2. x \in Int /\ x = BlockSize * q + r /\ r \in 0 .. BlockSize - 1 /\ q \in Int
  <2>1. x \in Int
    BY <1>1, ByteArrayAssumption
  <2> QED
    BY <1>1, <2>1, DivMod
<1>3. Blocks(n) = q
  BY <1>1 DEF Blocks
<1>4. n <= BlockSize * q /\ BlockSize * q < n + BlockSize
  BY <1>1, <1>2, MulInt, ByteArrayAssumption
<1>5. n = 0 => q = 0
  <2>1. ASSUME n = 0 PROVE q = 0
    <3>1. BlockSize * 0 = 0 /\ BlockSize - 1 \in Int /\ x = BlockSize * 0 + (BlockSize - 1)
          /\ 0 <= BlockSize - 1 /\ BlockSize - 1 < BlockSize
      BY <1>1, <2>1, ByteArrayAssumption
    <3> QED
      BY <1>1, <1>2, <3>1, DivUnique
  <2> QED
    BY <2>1
<1>6. n > 0 => q > 0
  <2>1. ASSUME n > 0, ~(q > 0) PROVE FALSE
    <3>1. q = 0 \/ q < 0
      BY <1>2, <2>1
    <3>2. q < 0 => BlockSize * q + BlockSize <= BlockSize * 0
      BY <1>2, MulSucc
    <3>3. BlockSize * 0 = 0 /\ BlockSize \in Nat
      BY ByteArrayAssumption
    <3>4. BlockSize * q \in Int
      BY <1>2, MulInt
    <3> QED
      BY <1>4, <2>1, <3>1, <3>2, <3>3, <3>4
  <2> QED
    BY <2>1
<1> QED
  BY <1>2, <1>3, <1>4, <1>5, <1>6

\* An array, whatever its blocks hold, and the byte a walk from the first
\* block finds for i.
Arrays(S) == [chain : Seq(S), cur : Int, pos : Int, total : Int, cap : Int, err : BOOLEAN]
IsArray(s) == \E S : s \in Arrays(S)
ByteAt(s, i) == s.chain[i \div BlockSize + 1][i % BlockSize]

\* m_cur is the block of the position.
Seated(s) == s.cur = s.pos \div BlockSize + 1

\* The array s holds m bytes: its blocks are all counted, and there is room
\* behind the last byte, but less than two blocks.
Holds(s, m) ==
  /\ IsArray(s) /\ ~s.err
  /\ s.cap = BlockSize * Len(s.chain) /\ m < s.cap /\ s.cap < m + 2 * BlockSize
  /\ s.pos \in 0 .. m /\ m <= s.total

\* The fields of an array.
LEMMA ArrayFields ==
  ASSUME NEW s, IsArray(s)
  PROVE  /\ s.cur \in Int /\ s.pos \in Int /\ s.total \in Int /\ s.cap \in Int /\ s.err \in BOOLEAN
         /\ Len(s.chain) \in Nat /\ DOMAIN s.chain = 1 .. Len(s.chain)
<1>1. PICK S : s \in Arrays(S)
  BY DEF IsArray
<1> QED
  BY <1>1, LenProperties DEF Arrays

\* The block the copy loops use for the j-th byte is the one of its place.
LEMMA SeatedBlock ==
  ASSUME NEW s, s.pos \in Nat, Seated(s), NEW j \in Nat
  PROVE  BlockOf(s, j) = (s.pos + j) \div BlockSize + 1
<1>1. PICK q, r, x : q = s.pos \div BlockSize /\ r = s.pos % BlockSize /\ x = (s.pos % BlockSize) + j
  OBVIOUS
<1>2. s.pos = BlockSize * q + r /\ r \in 0 .. BlockSize - 1 /\ q \in Int
  BY <1>1, DivMod
<1>3. x \in Int /\ s.pos + j \in Int /\ s.pos + j = BlockSize * q + x
  <2>1. BlockSize * q \in Int /\ r \in Int
    BY <1>2, MulInt, ByteArrayAssumption
  <2> QED
    BY <1>1, <1>2, <2>1
<1>4. PICK y, z : y = x \div BlockSize /\ z = x % BlockSize
  OBVIOUS
<1>5. x = BlockSize * y + z /\ z \in 0 .. BlockSize - 1 /\ y \in Int
  BY <1>3, <1>4, DivMod
<1>6. s.pos + j = BlockSize * (q + y) + z
  <2>1. PICK bq, by : bq = BlockSize * q /\ by = BlockSize * y
    OBVIOUS
  <2>2. bq \in Int /\ by \in Int /\ z \in Int
    BY <1>2, <1>5, <2>1, MulInt, ByteArrayAssumption
  <2>3. s.pos + j = bq + x /\ x = by + z /\ BlockSize * (q + y) = bq + by
    BY <1>2, <1>3, <1>5, <2>1, MulAdd
  <2> QED
    BY <2>2, <2>3
<1>7. (s.pos + j) \div BlockSize = q + y
  <2>1. q + y \in Int /\ z \in Int /\ 0 <= z /\ z < BlockSize
    BY <1>2, <1>5, ByteArrayAssumption
  <2> QED
    BY <1>3, <1>6, <2>1, DivUnique
<1>8. BlockOf(s, j) = s.cur + y
  BY <1>1, <1>4 DEF BlockOf
<1>9. s.cur = q + 1
  BY <1>1 DEF Seated
<1> QED
  BY <1>2, <1>5, <1>7, <1>8, <1>9

\* DoAllocate with room enough, and at the last block, where it links more.
LEMMA AllocateFacts ==
  ASSUME NEW s, IsArray(s), s.cap = BlockSize * Len(s.chain), NEW n \in Nat
  PROVE  /\ n <= s.cap - s.pos => DoAllocate(s, n) = s
         /\ n > s.cap - s.pos /\ s.cur = Len(s.chain) =>
              LET t == DoAllocate(s, n)
              IN /\ IsArray(t) /\ t.cur = s.cur /\ t.pos = s.pos /\ t.total = s.total
                 /\ t.err = s.err /\ t.cap = BlockSize * Len(t.chain)
                 /\ s.pos + n <= t.cap /\ t.cap < s.pos + n + BlockSize
                 /\ Len(t.chain) > Len(s.chain)
                 /\ \A i \in 1 .. Len(s.chain) : t.chain[i] = s.chain[i]
<1>1. PICK l, x, more : l = Len(s.chain) /\ x = n - (s.cap - s.pos) /\ more = Blocks(x)
  OBVIOUS
<1>0. PICK S : s \in Arrays(S)
  BY DEF IsArray
<1>2. /\ s.chain \in Seq(S) /\ s.cur \in Int /\ s.pos \in Int /\ s.total \in Int
      /\ s.cap \in Int /\ s.err \in BOOLEAN /\ l \in Nat /\ x \in Int
  BY <1>0, <1>1, LenProperties DEF Arrays
<1>3. /\ more \in Int /\ x <= BlockSize * more /\ BlockSize * more < x + BlockSize
      /\ (x = 0 => more = 0) /\ (x > 0 => more > 0)
  BY <1>1, <1>2, BlocksFacts
<1>4. DoAllocate(s, n) = IF s.cap - s.pos > n \/ more = 0 THEN s
        ELSE [s EXCEPT !.chain = SubSeq(@, 1, s.cur) \o [i \in 1 .. more |-> NewBlock],
                       !.cap = @ + more * BlockSize]
  BY <1>1 DEF DoAllocate
<1>5. ASSUME n <= s.cap - s.pos PROVE DoAllocate(s, n) = s
  <2>1. s.cap - s.pos > n \/ more = 0
    BY <1>1, <1>2, <1>3, <1>5
  <2> QED
    BY <1>4, <2>1
<1>6. ASSUME n > s.cap - s.pos, s.cur = l
      PROVE  LET t == DoAllocate(s, n)
             IN /\ IsArray(t) /\ t.cur = s.cur /\ t.pos = s.pos /\ t.total = s.total
                /\ t.err = s.err /\ t.cap = BlockSize * Len(t.chain)
                /\ s.pos + n <= t.cap /\ t.cap < s.pos + n + BlockSize
                /\ Len(t.chain) > Len(s.chain)
                /\ \A i \in 1 .. Len(s.chain) : t.chain[i] = s.chain[i]
  <2>1. more \in Nat \ {0} /\ ~(s.cap - s.pos > n \/ more = 0)
    BY <1>1, <1>2, <1>3, <1>6
  <2> DEFINE add == [i \in 1 .. more |-> NewBlock]
             ch == s.chain \o add
             T == S \cup {NewBlock}
  <2>2. add \in Seq(T) /\ Len(add) = more
    <3>1. add \in [1 .. more -> T]
      OBVIOUS
    <3> HIDE DEF T
    <3> QED
      BY <2>1, <3>1
  <2>0. s.chain \in Seq(T)
    <3>1. \A i \in 1 .. l : s.chain[i] \in T
      BY <1>1, <1>2, ElementOfSeq
    <3>2. s.chain \in [1 .. l -> T]
      BY <1>1, <1>2, <3>1
    <3> HIDE DEF T
    <3> QED
      BY <1>2, <3>2
  <2> HIDE DEF T
  <2>3. SubSeq(s.chain, 1, s.cur) = s.chain
    BY <1>1, <1>2, <1>6, SubSeqFull
  <2> HIDE DEF add
  <2>4. ch \in Seq(T) /\ Len(ch) = l + more /\ \A i \in 1 .. l : ch[i] = s.chain[i]
    <3>1. /\ ch \in Seq(T) /\ Len(ch) = Len(s.chain) + Len(add)
          /\ \A i \in 1 .. (Len(s.chain) + Len(add)) :
                ch[i] = IF i <= Len(s.chain) THEN s.chain[i] ELSE add[i - Len(s.chain)]
      BY <2>0, <2>2, ConcatProperties
    <3> HIDE DEF ch
    <3> QED
      BY <1>1, <1>2, <2>1, <2>2, <3>1
  <2> HIDE DEF ch
  <2>5. PICK c : c = s.cap + more * BlockSize
    OBVIOUS
  <2>6. /\ c \in Int /\ c = BlockSize * (l + more) /\ s.pos + n <= c /\ c < s.pos + n + BlockSize
    <3>1. PICK bm, bl : bm = BlockSize * more /\ bl = BlockSize * l
      OBVIOUS
    <3>2. bm \in Int /\ bl \in Int /\ BlockSize \in Int
      BY <1>2, <1>3, <3>1, MulInt, ByteArrayAssumption
    <3>3. BlockSize * (l + more) = bl + bm
      BY <1>2, <1>3, <3>1, MulAdd
    <3>4. more * BlockSize = bm
      BY <1>3, <3>1, ByteArrayAssumption
    <3>5. c = bl + bm /\ s.cap = bl
      BY <1>1, <2>5, <3>1, <3>4
    <3>6. x <= bm /\ bm < x + BlockSize /\ x = n - (bl - s.pos)
      BY <1>1, <1>3, <3>1, <3>5
    <3>7. \A g, h, k, y, z, b \in Int : y <= h /\ h < y + b /\ y = z - (g - k) =>
            g + h \in Int /\ k + z <= g + h /\ g + h < k + z + b
      OBVIOUS
    <3>8. n \in Int
      OBVIOUS
    <3>9. bl + bm \in Int /\ s.pos + n <= bl + bm /\ bl + bm < s.pos + n + BlockSize
      BY <1>2, <3>2, <3>6, <3>7, <3>8
    <3> QED
      BY <3>3, <3>5, <3>9
  <2>7. DoAllocate(s, n) = [s EXCEPT !.chain = ch, !.cap = c]
    BY <1>4, <2>1, <2>3, <2>5 DEF ch, add
  <2> DEFINE t == [s EXCEPT !.chain = ch, !.cap = c]
  <2>8. /\ IsArray(t) /\ t.cur = s.cur /\ t.pos = s.pos /\ t.total = s.total
        /\ t.err = s.err /\ t.cap = c /\ t.chain = ch
    <3>1. /\ t \in Arrays(T) /\ t.cur = s.cur /\ t.pos = s.pos /\ t.total = s.total
          /\ t.err = s.err /\ t.cap = c /\ t.chain = ch
      BY <1>0, <1>2, <2>4, <2>6 DEF Arrays
    <3> HIDE DEF t
    <3> QED
      BY <3>1 DEF IsArray
  <2> HIDE DEF t
  <2>9. DoAllocate(s, n) = t
    BY <2>7 DEF t
  <2>10. l + more > l
    BY <1>2, <2>1
  <2> QED
    BY <1>1, <2>4, <2>6, <2>8, <2>9, <2>10
<1> QED
  BY <1>1, <1>5, <1>6

\* Copy puts the bytes of d at their places, and leaves the others alone.
LEMMA CopyFacts ==
  ASSUME NEW s, IsArray(s), s.pos \in Nat, Seated(s), NEW d \in Seq(Nat), Len(d) > 0,
         s.cap = BlockSize * Len(s.chain), s.pos + Len(d) <= s.cap
  PROVE  LET t == Copy(s, d)
         IN /\ IsArray(t) /\ t.cur = (s.pos + Len(d) - 1) \div BlockSize + 1
            /\ t.pos = s.pos + Len(d)
            /\ t.total = s.total /\ t.cap = s.cap /\ t.err = s.err
            /\ Len(t.chain) = Len(s.chain)
            /\ \A i \in 0 .. s.cap - 1 :
                  ByteAt(t, i) = IF i \in s.pos .. (s.pos + Len(d) - 1) THEN d[i - s.pos + 1]
                                 ELSE ByteAt(s, i)
<1> DEFINE js(b, o) == {j \in 0 .. Len(d) - 1 : BlockOf(s, j) = b /\ (s.pos + j) % BlockSize = o}
           cell(b, o) == IF js(b, o) = {} THEN s.chain[b][o] ELSE d[(CHOOSE j \in js(b, o) : TRUE) + 1]
           ch == [b \in DOMAIN s.chain |-> [o \in 0 .. BlockSize - 1 |-> cell(b, o)]]
<1>1. PICK l, n, p, e : l = Len(s.chain) /\ n = Len(d) /\ p = s.pos /\ e = BlockOf(s, n - 1)
  OBVIOUS
<1>0. PICK S : s \in Arrays(S)
  BY DEF IsArray
<1>2. /\ s.cur \in Int /\ p \in Nat /\ s.total \in Int /\ s.cap \in Int
      /\ s.err \in BOOLEAN /\ l \in Nat /\ DOMAIN s.chain = 1 .. l
  BY <1>1, ArrayFields
<1>3. n \in Nat \ {0} /\ \A i \in 1 .. n : d[i] \in Nat
  BY <1>1, LenProperties, ElementOfSeq
<1>4. Copy(s, d) = [s EXCEPT !.chain = ch, !.cur = e, !.pos = p + n]
  BY <1>1 DEF Copy
<1>5. \A j \in 0 .. n - 1 : BlockOf(s, j) = (p + j) \div BlockSize + 1
  <2>1. \A j \in 0 .. n - 1 : j \in Nat
    BY <1>3
  <2> QED
    BY <1>1, <2>1, SeatedBlock
<1>6. e = (p + n - 1) \div BlockSize + 1 /\ e \in Int
  <2>1. n - 1 \in 0 .. n - 1 /\ p + (n - 1) = p + n - 1 /\ p + n - 1 \in Int
    BY <1>2, <1>3
  <2>2. (p + n - 1) \div BlockSize \in Int
    BY <2>1, DivMod
  <2>3. BlockOf(s, n - 1) = (p + (n - 1)) \div BlockSize + 1
    BY <1>5, <2>1
  <2> QED
    BY <1>1, <2>1, <2>2, <2>3
<1>8. ASSUME NEW i \in Nat
      PROVE  cell(i \div BlockSize + 1, i % BlockSize) =
               IF i \in p .. (p + n - 1) THEN d[i - p + 1]
               ELSE s.chain[i \div BlockSize + 1][i % BlockSize]
  <2>1. PICK b, o : b = i \div BlockSize + 1 /\ o = i % BlockSize
    OBVIOUS
  <2>2. \A j : j \in js(b, o) <=> j \in 0 .. n - 1 /\ p + j = i
    <3> SUFFICES ASSUME NEW j \in 0 .. n - 1
                 PROVE  (BlockOf(s, j) = b /\ (s.pos + j) % BlockSize = o) <=> p + j = i
      BY <1>1
    <3>1. p + j \in Int /\ i \in Int
      BY <1>2, <1>3
    <3>2. i \div BlockSize \in Int /\ (p + j) \div BlockSize \in Int
      BY <3>1, DivMod
    <3>3. BlockOf(s, j) = b <=> (p + j) \div BlockSize = i \div BlockSize
      BY <1>5, <2>1, <3>2
    <3>4. (BlockOf(s, j) = b /\ (s.pos + j) % BlockSize = o) => p + j = i
      BY <1>1, <2>1, <3>1, <3>3, OnePlaceEach
    <3> QED
      BY <1>1, <2>1, <3>3, <3>4
  <2>3. CASE i \in p .. (p + n - 1)
    <3>1. PICK k : k = i - p
      OBVIOUS
    <3>2. k \in 0 .. n - 1 /\ \A j \in 0 .. n - 1 : p + j = i <=> j = k
      <4>1. \A g, m, h \in Int : h \in g .. (g + m - 1) =>
              h - g \in 0 .. m - 1 /\ \A j \in 0 .. m - 1 : g + j = h <=> j = h - g
        OBVIOUS
      <4>2. p \in Int /\ n \in Int /\ i \in Int
        BY <1>2, <1>3
      <4> QED
        BY <2>3, <3>1, <4>1, <4>2
    <3> HIDE DEF js
    <3>3. js(b, o) = {k}
      BY <2>2, <3>2
    <3>4. cell(b, o) = d[k + 1]
      BY <3>3
    <3> HIDE DEF cell
    <3> QED
      BY <2>1, <2>3, <3>1, <3>4
  <2>4. CASE i \notin p .. (p + n - 1)
    <3>1. \A j \in 0 .. n - 1 : p + j # i
      BY <1>2, <1>3, <2>4
    <3> HIDE DEF js
    <3>2. js(b, o) = {}
      BY <2>2, <3>1
    <3>3. cell(b, o) = s.chain[b][o]
      BY <3>2
    <3> HIDE DEF cell
    <3> QED
      BY <2>1, <2>4, <3>3
  <2> QED
    BY <2>3, <2>4
<1> HIDE DEF cell
<1> DEFINE T == {[o \in 0 .. BlockSize - 1 |-> cell(b, o)] : b \in 1 .. l}
<1>9. /\ ch \in Seq(T) /\ Len(ch) = l
      /\ \A b \in 1 .. l : \A o \in 0 .. BlockSize - 1 : ch[b][o] = cell(b, o)
  <2>1. ch = [b \in 1 .. l |-> [o \in 0 .. BlockSize - 1 |-> cell(b, o)]]
    BY <1>2
  <2>2. \A b \in 1 .. l : [o \in 0 .. BlockSize - 1 |-> cell(b, o)] \in T
    OBVIOUS
  <2>3. ch \in [1 .. l -> T]
    BY <2>1, <2>2
  <2>4. \A b \in 1 .. l : ch[b] = [o \in 0 .. BlockSize - 1 |-> cell(b, o)]
    BY <2>1
  <2>5. \A b \in 1 .. l : \A o \in 0 .. BlockSize - 1 : ch[b][o] = cell(b, o)
    <3> HIDE DEF ch
    <3>1. \A b : \A o \in 0 .. BlockSize - 1 : [x \in 0 .. BlockSize - 1 |-> cell(b, x)][o] = cell(b, o)
      OBVIOUS
    <3> QED
      BY <2>4, <3>1
  <2>6. ch \in Seq(T) /\ Len(ch) = l
    <3> HIDE DEF ch, T
    <3> QED
      BY <1>2, <2>3
  <2> QED
    BY <2>5, <2>6
<1> HIDE DEF ch, T
<1> DEFINE t == [s EXCEPT !.chain = ch, !.cur = e, !.pos = p + n]
<1>10. /\ IsArray(t) /\ t.cur = e /\ t.pos = p + n
       /\ t.total = s.total /\ t.cap = s.cap /\ t.err = s.err /\ t.chain = ch
  <2>1. p + n \in Int
    BY <1>2, <1>3
  <2>2. /\ t \in Arrays(T) /\ t.cur = e /\ t.pos = p + n
        /\ t.total = s.total /\ t.cap = s.cap /\ t.err = s.err /\ t.chain = ch
    BY <1>0, <1>2, <1>6, <1>9, <2>1 DEF Arrays
  <2> HIDE DEF t
  <2> QED
    BY <2>2 DEF IsArray
<1>11. Copy(s, d) = t
  BY <1>4
<1> HIDE DEF t
<1>12. ASSUME NEW i \in 0 .. s.cap - 1
       PROVE  ByteAt(t, i) = IF i \in p .. (p + n - 1) THEN d[i - p + 1] ELSE ByteAt(s, i)
  <2>1. i \in Nat /\ i < BlockSize * l
    BY <1>1, <1>2
  <2>2. i \div BlockSize + 1 \in 1 .. l /\ i % BlockSize \in 0 .. BlockSize - 1
    <3>1. i \div BlockSize + 1 \in 1 .. l
      BY <1>2, <2>1, BlockRange
    <3>2. i \in Int
      BY <2>1
    <3> QED
      BY <3>1, <3>2, DivMod
  <2>3. ByteAt(t, i) = cell(i \div BlockSize + 1, i % BlockSize)
    BY <1>9, <1>10, <2>2 DEF ByteAt
  <2> QED
    BY <1>8, <2>1, <2>3 DEF ByteAt
<1> QED
  BY <1>1, <1>6, <1>9, <1>10, <1>11, <1>12

\* The last of l blocks, and the ones before it.
LEMMA LastBlock ==
  ASSUME NEW x \in Nat, NEW l \in Nat, NEW c, c = BlockSize * l, x < c
  PROVE  /\ x >= c - BlockSize => x \div BlockSize + 1 = l
         /\ x < c - BlockSize => x \div BlockSize + 1 < l
<1>1. PICK q, b : q = x \div BlockSize /\ b = BlockSize * q
  OBVIOUS
<1>2. q \in Nat /\ b \in Int /\ c \in Int /\ b <= x /\ x < b + BlockSize /\ BlockSize \in Nat \ {0}
  BY <1>1, BlockRange, BlockEdges, MulInt, ByteArrayAssumption
<1>3. q + 1 \in 1 .. l
  BY <1>1, BlockRange
<1>4. ASSUME x >= c - BlockSize PROVE q + 1 = l
  <2>1. q + 1 < l => BlockSize * (q + 1) + BlockSize <= c
    BY <1>2, MulSucc
  <2>2. BlockSize * (q + 1) = b + BlockSize
    BY <1>1, <1>2, MulInt
  <2>3. ~(b + BlockSize + BlockSize <= c)
    BY <1>2, <1>4
  <2> QED
    BY <1>2, <1>3, <2>1, <2>2, <2>3
<1>5. ASSUME x < c - BlockSize PROVE q + 1 < l
  <2>1. q + 1 = l => c = b + BlockSize
    BY <1>1, <1>2, MulInt
  <2>2. c # b + BlockSize
    BY <1>2, <1>5
  <2> QED
    BY <1>2, <1>3, <2>1, <2>2
<1> QED
  BY <1>1, <1>4, <1>5

\* Blocks that are kept keep their bytes.
LEMMA KeptBytes ==
  ASSUME NEW s, IsArray(s), NEW t, \A b \in 1 .. Len(s.chain) : t.chain[b] = s.chain[b],
         NEW i \in Nat, i < BlockSize * Len(s.chain)
  PROVE  ByteAt(t, i) = ByteAt(s, i)
<1>1. Len(s.chain) \in Nat
  BY ArrayFields
<1>2. i \div BlockSize + 1 \in 1 .. Len(s.chain)
  BY <1>1, BlockRange
<1> QED
  BY <1>2 DEF ByteAt

\* A write that needs new blocks begins in the last one.
LEMMA GrowsAtEnd ==
  ASSUME NEW m \in Nat, NEW s, Holds(s, m), Seated(s), NEW n \in Nat,
         s.pos = m \/ s.pos + n <= m, n <= BlockSize \/ ~Inside(s.pos), n > s.cap - s.pos
  PROVE  s.pos = m /\ s.cur = Len(s.chain)
<1>1. PICK p, c, l : p = s.pos /\ c = s.cap /\ l = Len(s.chain)
  OBVIOUS
<1>2. /\ p \in Nat /\ c \in Int /\ l \in Nat /\ c = BlockSize * l /\ m < c /\ c < m + 2 * BlockSize
      /\ p <= m /\ BlockSize \in Nat \ {0}
  BY <1>1, LenProperties, ArrayFields, ByteArrayAssumption DEF Holds
<1>3. p = m /\ n > c - p /\ (n <= BlockSize \/ p % BlockSize = 0)
  BY <1>1, <1>2 DEF Inside
<1>4. p >= c - BlockSize
  <2>1. CASE n <= BlockSize
    BY <1>2, <1>3, <2>1
  <2>2. CASE p % BlockSize = 0
    <3>1. PICK q, b : q = p \div BlockSize /\ b = BlockSize * q
      OBVIOUS
    <3>2. q \in Int /\ b \in Int /\ p = b + 0
      BY <1>2, <2>2, <3>1, DivMod, MulInt
    <3>3. p = b
      BY <3>2
    <3>4. q + 1 < l => BlockSize * (q + 1) + BlockSize <= c
      BY <1>2, <3>2, MulSucc
    <3>5. BlockSize * (q + 1) = b + BlockSize
      BY <3>1, <3>2, MulInt
    <3>6. ~(b + BlockSize + BlockSize <= c)
      BY <1>2, <1>3, <3>2, <3>3
    <3>7. l <= q + 1
      BY <1>2, <3>2, <3>4, <3>5, <3>6
    <3>8. l < q + 1 => c + BlockSize <= b + BlockSize
      BY <1>2, <3>2, <3>5, MulSucc
    <3>9. l = q + 1
      BY <1>2, <1>3, <3>2, <3>3, <3>7, <3>8
    <3>10. c = b + BlockSize
      BY <1>2, <3>5, <3>9
    <3> QED
      BY <1>2, <3>2, <3>3, <3>10
  <2> QED
    BY <1>3, <2>1, <2>2
<1>5. p < c
  BY <1>2
<1>6. p \div BlockSize + 1 = l
  BY <1>2, <1>4, <1>5, LastBlock
<1> QED
  BY <1>1, <1>3, <1>6 DEF Seated

\* t is s with d written from its position on, and holds k bytes.
Wrote(t, s, d, k) ==
  /\ k \in Nat /\ Holds(t, k) /\ t.pos = s.pos + Len(d)
  /\ ~Inside(t.pos) => Seated(t)
  /\ \A i \in 0 .. k - 1 :
        ByteAt(t, i) = IF i \in s.pos .. (s.pos + Len(d) - 1) THEN d[i - s.pos + 1]
                       ELSE ByteAt(s, i)

\* A proper write of something to m bytes leaves k.
LEMMA WriteFacts ==
  ASSUME NEW m \in Nat, NEW s, Holds(s, m), Seated(s), NEW d \in Seq(Nat), Len(d) > 0,
         s.pos = m \/ s.pos + Len(d) <= m, Len(d) <= BlockSize \/ ~Inside(s.pos),
         NEW k, k = IF s.pos + Len(d) <= m THEN m ELSE s.pos + Len(d)
  PROVE  Wrote(DoWrite(s, d), s, d, k)
<1>1. PICK p, n, c, e : p = s.pos /\ n = Len(d) /\ c = s.cap /\ e = p + n
  OBVIOUS
<1>2. /\ IsArray(s) /\ ~s.err /\ p \in Nat /\ c \in Int /\ c = BlockSize * Len(s.chain)
      /\ Len(s.chain) \in Nat /\ m < c /\ c < m + 2 * BlockSize /\ p <= m /\ m <= s.total
      /\ s.total \in Int /\ n \in Nat \ {0} /\ e \in Nat /\ p < e /\ BlockSize \in Nat \ {0}
  BY <1>1, LenProperties, ArrayFields, ByteArrayAssumption DEF Holds
<1>3. k \in Nat /\ m <= k /\ e <= k /\ (k = m \/ k = e) /\ (p = m \/ e <= m)
  BY <1>1, <1>2
<1>3a. p + n - 1 = e - 1 /\ s.pos + Len(d) = e /\ s.pos + Len(d) - 1 = e - 1
  <2>1. \A y, z \in Int : y + z - 1 = (y + z) - 1
    OBVIOUS
  <2>2. p \in Int /\ n \in Int
    BY <1>2
  <2>3. p + n - 1 = (p + n) - 1
    BY <2>1, <2>2
  <2> QED
    BY <1>1, <2>3
<1>4. PICK s1 : s1 = DoAllocate(s, n)
  OBVIOUS
<1>5. PICK c1, l1 : c1 = s1.cap /\ l1 = Len(s1.chain)
  OBVIOUS
<1>6. /\ IsArray(s1) /\ s1.cur = s.cur /\ s1.pos = p /\ s1.total = s.total /\ ~s1.err
      /\ c1 = BlockSize * l1 /\ c1 \in Int /\ l1 \in Nat /\ e <= c1 /\ m < c1
      /\ c1 < k + 2 * BlockSize
      /\ \A i \in 0 .. m - 1 : ByteAt(s1, i) = ByteAt(s, i)
  <2>1. CASE n <= c - p
    <3>1. s1 = s
      BY <1>1, <1>2, <1>4, <2>1, AllocateFacts
    <3>2. c1 = c /\ l1 = Len(s.chain)
      BY <1>1, <1>5, <3>1
    <3>3. e <= c1 /\ c1 < k + 2 * BlockSize
      <4>1. \A y, z, w \in Int : z <= w - y => y + z <= w
        OBVIOUS
      <4>2. p \in Int /\ n \in Int /\ c \in Int
        BY <1>2
      <4>3. e <= c
        BY <1>1, <2>1, <4>1, <4>2
      <4> QED
        BY <1>2, <1>3, <3>2, <4>3
    <3> QED
      BY <1>1, <1>2, <3>1, <3>2, <3>3
  <2>2. CASE ~(n <= c - p)
    <3>1. n > c - p
      BY <1>2, <2>2
    <3>2. p = m /\ s.cur = Len(s.chain)
      <4>1. n \in Nat /\ (s.pos = m \/ s.pos + n <= m) /\ (n <= BlockSize \/ ~Inside(s.pos))
            /\ n > s.cap - s.pos
        BY <1>1, <1>2, <3>1
      <4> QED
        BY <1>1, <4>1, GrowsAtEnd
    <3>3. /\ IsArray(s1) /\ s1.cur = s.cur /\ s1.pos = s.pos /\ s1.total = s.total
          /\ s1.err = s.err /\ s1.cap = BlockSize * Len(s1.chain)
          /\ s.pos + n <= s1.cap /\ s1.cap < s.pos + n + BlockSize
          /\ \A i \in 1 .. Len(s.chain) : s1.chain[i] = s.chain[i]
      <4>1. n \in Nat /\ n > s.cap - s.pos
        BY <1>1, <1>2, <3>1
      <4>2. IsArray(s) /\ s.cap = BlockSize * Len(s.chain) /\ s.cur = Len(s.chain)
        BY <1>1, <1>2, <3>2
      <4> QED
        BY <1>4, <4>1, <4>2, AllocateFacts
    <3>4. c1 \in Int /\ l1 \in Nat /\ e <= c1 /\ c1 < e + BlockSize
      BY <1>1, <1>5, <3>3, ArrayFields
    <3>5. m < c1 /\ c1 < k + 2 * BlockSize
      BY <1>2, <1>3, <3>2, <3>4
    <3>6. ASSUME NEW i \in 0 .. m - 1 PROVE ByteAt(s1, i) = ByteAt(s, i)
      <4>1. i \in Nat /\ i < BlockSize * Len(s.chain)
        BY <1>2
      <4> QED
        BY <1>2, <3>3, <4>1, KeptBytes
    <3> QED
      BY <1>1, <1>2, <1>5, <3>3, <3>4, <3>5, <3>6
  <2> QED
    BY <2>1, <2>2
<1>7. PICK s2, x : s2 = Copy(s1, d) /\ x = (e - 1) \div BlockSize + 1
  OBVIOUS
<1>8. /\ IsArray(s2) /\ s2.cur = x /\ s2.pos = e
      /\ s2.total = s.total /\ s2.cap = c1 /\ ~s2.err /\ Len(s2.chain) = l1
      /\ \A i \in 0 .. c1 - 1 :
            ByteAt(s2, i) = IF i \in p .. (e - 1) THEN d[i - p + 1] ELSE ByteAt(s1, i)
  <2>1. Seated(s1)
    BY <1>1, <1>6 DEF Seated
  <2>2. s1.pos \in Nat /\ s1.cap = BlockSize * Len(s1.chain) /\ s1.pos + Len(d) <= s1.cap
    BY <1>1, <1>2, <1>5, <1>6
  <2>3. /\ IsArray(s2) /\ s2.cur = (s1.pos + Len(d) - 1) \div BlockSize + 1
        /\ s2.pos = s1.pos + Len(d)
        /\ s2.total = s1.total /\ s2.cap = s1.cap /\ s2.err = s1.err
        /\ Len(s2.chain) = Len(s1.chain)
        /\ \A i \in 0 .. s1.cap - 1 :
              ByteAt(s2, i) = IF i \in s1.pos .. (s1.pos + Len(d) - 1) THEN d[i - s1.pos + 1]
                              ELSE ByteAt(s1, i)
    BY <1>6, <1>7, <2>1, <2>2, CopyFacts
  <2>4. s1.pos = p /\ s1.pos + Len(d) = e /\ s1.pos + Len(d) - 1 = e - 1 /\ s1.cap = c1
    BY <1>1, <1>5, <1>6, <1>3a
  <2>5. /\ s2.cur = x /\ s2.pos = e /\ s2.total = s.total /\ s2.cap = c1 /\ ~s2.err
        /\ Len(s2.chain) = l1
    BY <1>5, <1>6, <1>7, <2>3, <2>4
  <2>6. \A i \in 0 .. c1 - 1 :
          ByteAt(s2, i) = IF i \in p .. (e - 1) THEN d[i - p + 1] ELSE ByteAt(s1, i)
    BY <2>3, <2>4
  <2> QED
    BY <2>3, <2>5, <2>6
<1>9. PICK v : v = IF e >= s.total THEN e ELSE s.total
  OBVIOUS
<1>10. v \in Int /\ k <= v
  BY <1>2, <1>3, <1>9
<1>11. PICK u : u = [s2 EXCEPT !.total = v]
  OBVIOUS
<1>12. /\ IsArray(u) /\ u.cur = x /\ u.pos = e /\ u.cap = c1 /\ ~u.err /\ u.chain = s2.chain
       /\ u.total = v
  <2>1. PICK S : s2 \in Arrays(S)
    BY <1>8 DEF IsArray
  <2>2. u \in Arrays(S) /\ u.cur = s2.cur /\ u.pos = s2.pos /\ u.cap = s2.cap /\ u.err = s2.err
        /\ u.chain = s2.chain /\ u.total = v
    BY <1>10, <1>11, <2>1 DEF Arrays
  <2> QED
    BY <1>8, <2>2 DEF IsArray
<1>13. PICK s3, l3 : s3 = DoAllocate(u, BlockSize) /\ l3 = Len(s3.chain)
  OBVIOUS
<1>14. /\ IsArray(s3) /\ s3.cur = x /\ s3.pos = e /\ s3.total = v /\ ~s3.err
       /\ s3.cap = BlockSize * l3 /\ k < s3.cap /\ s3.cap < k + 2 * BlockSize /\ x < l3
       /\ l3 \in Nat /\ \A i \in 0 .. k - 1 : ByteAt(s3, i) = ByteAt(s2, i)
  <2>1. e - 1 \in Nat /\ e - 1 < c1 /\ c1 = BlockSize * l1 /\ l1 \in Nat
    BY <1>2, <1>6
  <2>2. u.cap = BlockSize * Len(u.chain) /\ BlockSize \in Nat
    BY <1>2, <1>6, <1>8, <1>12
  <2>3. CASE BlockSize <= c1 - e
    <3>1. s3 = u
      BY <1>12, <1>13, <2>2, <2>3, AllocateFacts
    <3>2. e - 1 < c1 - BlockSize
      BY <1>2, <1>6, <2>3
    <3>3. x < l1
      BY <1>7, <2>1, <3>2, LastBlock
    <3>4. k < c1
      BY <1>2, <1>3, <1>6, <2>3
    <3>5. \A i \in 0 .. k - 1 : ByteAt(s3, i) = ByteAt(s2, i)
      BY <1>12, <3>1 DEF ByteAt
    <3> QED
      BY <1>6, <1>8, <1>12, <1>13, <3>1, <3>3, <3>4, <3>5
  <2>4. CASE ~(BlockSize <= c1 - e)
    <3>1. BlockSize > c1 - e /\ e - 1 >= c1 - BlockSize
      BY <1>2, <1>6, <2>4
    <3>2. x = l1
      BY <1>7, <2>1, <3>1, LastBlock
    <3>3. BlockSize > u.cap - u.pos /\ u.cur = Len(u.chain)
      BY <1>8, <1>12, <3>1, <3>2
    <3>4. /\ IsArray(s3) /\ s3.cur = u.cur /\ s3.pos = u.pos /\ s3.total = u.total
          /\ s3.err = u.err /\ s3.cap = BlockSize * Len(s3.chain)
          /\ u.pos + BlockSize <= s3.cap /\ s3.cap < u.pos + BlockSize + BlockSize
          /\ Len(s3.chain) > Len(u.chain)
          /\ \A i \in 1 .. Len(u.chain) : s3.chain[i] = u.chain[i]
      BY <1>12, <1>13, <2>2, <3>3, AllocateFacts
    <3>5. e + BlockSize <= s3.cap /\ s3.cap < e + BlockSize + BlockSize /\ l1 < l3 /\ s3.cap \in Int
          /\ l3 \in Nat
      BY <1>8, <1>12, <1>13, <3>4, ArrayFields
    <3>6. c1 < s3.cap
      BY <1>2, <1>6, <3>1, <3>5
    <3>7. k < s3.cap /\ s3.cap < k + 2 * BlockSize /\ k <= c1
      <4>1. k = m \/ k = e
        BY <1>3
      <4>2. k <= c1
        BY <1>2, <1>6, <4>1
      <4>3. k < s3.cap
        BY <1>3, <1>6, <3>5, <3>6, <4>2
      <4>4. e + BlockSize + BlockSize <= k + 2 * BlockSize
        BY <1>2, <1>3
      <4> QED
        BY <1>2, <1>3, <3>5, <4>2, <4>3, <4>4
    <3>8. ASSUME NEW i \in 0 .. k - 1 PROVE ByteAt(s3, i) = ByteAt(s2, i)
      <4>1. i \in Nat /\ i < BlockSize * Len(u.chain)
        BY <1>3, <1>6, <1>12, <2>2, <3>7
      <4>2. ByteAt(s3, i) = ByteAt(u, i)
        BY <1>12, <3>4, <4>1, KeptBytes
      <4> QED
        BY <1>12, <4>2 DEF ByteAt
    <3> QED
      BY <1>12, <1>13, <3>2, <3>4, <3>5, <3>7, <3>8
  <2> QED
    BY <2>3, <2>4
<1>15. x \in Int
  <2>1. e - 1 \in Int
    BY <1>2
  <2> QED
    BY <1>7, <2>1, DivMod
<1>16. PICK t : t = [s3 EXCEPT !.cur = x + 1]
  OBVIOUS
<1>17. /\ IsArray(t) /\ t.cur = x + 1 /\ t.pos = e /\ t.total = v /\ ~t.err /\ t.cap = s3.cap
       /\ t.chain = s3.chain
  <2>1. x + 1 \in Int
    BY <1>15
  <2>2. PICK S : s3 \in Arrays(S)
    BY <1>14 DEF IsArray
  <2>3. t \in Arrays(S) /\ t.cur = x + 1 /\ t.pos = s3.pos /\ t.total = s3.total
        /\ t.err = s3.err /\ t.cap = s3.cap /\ t.chain = s3.chain
    BY <1>16, <2>1, <2>2 DEF Arrays
  <2> QED
    BY <1>14, <2>3 DEF IsArray
<1>18. DoWrite(s, d) = t
  <2>1. BlockOf(s1, n - 1) = x
    <3>1. n - 1 \in Nat /\ p + (n - 1) = e - 1
      BY <1>2, <1>3a
    <3>2. s1.pos \in Nat /\ Seated(s1)
      BY <1>1, <1>2, <1>6 DEF Seated
    <3>3. BlockOf(s1, n - 1) = (s1.pos + (n - 1)) \div BlockSize + 1
      BY <3>1, <3>2, SeatedBlock
    <3> QED
      BY <1>6, <1>7, <3>1, <3>3
  <2>2. x <= l1
    <3>1. e - 1 \in Nat /\ e - 1 < c1 /\ c1 = BlockSize * l1 /\ l1 \in Nat
      BY <1>2, <1>6
    <3>2. x \in 1 .. l1
      BY <1>7, <3>1, BlockRange
    <3> QED
      BY <3>2
  <2>3. ~(BlockOf(s1, n - 1) > Len(s1.chain)) /\ s3.cur # Len(s3.chain)
    BY <1>5, <1>6, <1>13, <1>14, <1>15, <2>1, <2>2
  <2>4. d # <<>> /\ ~s.err
    BY <1>1, <1>2, EmptySeq
  <2>5. u = [s2 EXCEPT !.total = IF s2.pos >= @ THEN s2.pos ELSE @]
    BY <1>8, <1>9, <1>11
  <2>6. t = [s3 EXCEPT !.cur = @ + 1]
    BY <1>14, <1>16
  <2> QED
    BY <1>1, <1>4, <1>7, <1>13, <2>3, <2>4, <2>5, <2>6 DEF DoWrite
<1>19. Holds(t, k)
  BY <1>2, <1>3, <1>10, <1>13, <1>14, <1>17 DEF Holds
<1>20. ~Inside(e) => Seated(t)
  <2>1. ASSUME ~Inside(e) PROVE x + 1 = e \div BlockSize + 1
    <3>1. PICK q, b : q = e \div BlockSize /\ b = BlockSize * q
      OBVIOUS
    <3>2. q \in Int /\ b \in Int /\ e = b + 0
      BY <1>2, <2>1, <3>1, DivMod, MulInt DEF Inside
    <3>3. PICK y : y = BlockSize * (q - 1)
      OBVIOUS
    <3>4. q - 1 \in Int /\ q - 1 + 1 = q
      BY <3>2
    <3>5. y \in Int /\ b = y + BlockSize
      BY <3>1, <3>3, <3>4, MulInt
    <3>6. y <= e - 1 /\ e - 1 < y + BlockSize /\ e - 1 \in Int
      BY <1>2, <3>2, <3>5
    <3>7. (e - 1) \div BlockSize = q - 1
      BY <3>3, <3>4, <3>6, BlockEdges
    <3> QED
      BY <1>7, <3>1, <3>2, <3>7
  <2> QED
    BY <1>17, <2>1 DEF Seated
<1>21. ASSUME NEW i \in 0 .. k - 1
       PROVE  ByteAt(t, i) = IF i \in p .. (e - 1) THEN d[i - p + 1] ELSE ByteAt(s, i)
  <2>1. ByteAt(t, i) = ByteAt(s2, i)
    BY <1>14, <1>17 DEF ByteAt
  <2>2. i \in 0 .. c1 - 1 /\ (i \notin p .. (e - 1) => i \in 0 .. m - 1)
    <3>1. i \in Int /\ 0 <= i /\ i < k
      BY <1>3
    <3>2. k <= c1
      BY <1>2, <1>3, <1>6
    <3>3. i < c1
      BY <1>3, <1>6, <3>1, <3>2
    <3>4. ASSUME ~(i < m) PROVE i \in p .. (e - 1)
      <4>1. k = e /\ p = m
        BY <1>2, <1>3, <3>1, <3>4
      <4> QED
        BY <1>2, <3>1, <3>4, <4>1
    <3> QED
      BY <1>6, <3>1, <3>3, <3>4
  <2> QED
    BY <1>6, <1>8, <2>1, <2>2
<1> QED
  BY <1>1, <1>3, <1>17, <1>18, <1>19, <1>20, <1>21, <1>3a DEF Wrote

\* g is f with d put over it from behind q on, inside of f or at its end.
Spliced(g, f, d, q, k) ==
    /\ g \in Seq(Nat) /\ Len(g) = k
    /\ \A i \in 1..k : g[i] = IF i \in (q + 1)..(q + Len(d)) THEN d[i - q] ELSE f[i]

\* What Over makes of f.
LEMMA SpliceFacts ==
    ASSUME NEW f \in Seq(Nat), NEW d \in Seq(Nat), NEW q \in 0..Len(f),
           q = Len(f) \/ q + Len(d) <= Len(f),
           NEW k, k = IF q + Len(d) <= Len(f) THEN Len(f) ELSE q + Len(d)
    PROVE  Spliced(Over(f, q, d), f, d, q, k)
<1>1. PICK l, n, z, e : l = Len(f) /\ n = Len(d) /\ z = 0 /\ e = q + n
  OBVIOUS
<1>2. /\ l \in Nat /\ n \in Nat /\ z \in Nat /\ q \in Nat /\ q <= l /\ e \in Nat /\ e = q + n
      /\ q = l \/ e <= l
      /\ k = IF e <= l THEN l ELSE e
  BY <1>1, LenProperties
<1> DEFINE x == SubSeq(f, 1, q)
           y == SubSeq(f, e + 1, l)
<1>3. x \in Seq(Nat) /\ Len(x) = q /\ \A i \in 1..q : x[i] = f[i]
  <2>1. q \in z..Len(f) /\ q - z = q /\ \A i \in 1..q : z + i = i
    BY <1>1, <1>2
  <2>2. /\ SubSeq(f, z + 1, q) \in Seq(Nat) /\ Len(SubSeq(f, z + 1, q)) = q - z
        /\ \A i \in 1 .. q - z : SubSeq(f, z + 1, q)[i] = f[z + i]
    BY <1>2, <2>1, PartFacts
  <2>3. SubSeq(f, z + 1, q) = x
    BY <1>1
  <2> HIDE DEF x
  <2> QED
    BY <2>1, <2>2, <2>3
<1>4. /\ y \in Seq(Nat) /\ Len(y) = (IF e <= l THEN l - e ELSE 0)
      /\ e <= l => \A i \in 1..(l - e) : y[i] = f[e + i]
  <2>1. CASE e <= l
    <3>1. l \in e..Len(f)
      BY <1>1, <1>2, <2>1
    <3> QED
      BY <1>2, <2>1, <3>1, PartFacts
  <2>2. CASE ~(e <= l)
    <3>1. e + 1 \in Int /\ l \in Int /\ l < e + 1
      BY <1>2, <2>2
    <3>2. y = <<>>
      BY <3>1, SubSeqEmpty
    <3> HIDE DEF y
    <3> QED
      BY <2>2, <3>2, EmptySeq
  <2> QED
    BY <2>1, <2>2
<1> HIDE DEF x, y
<1> DEFINE v == x \o d
           g == v \o y
<1>5. /\ v \in Seq(Nat) /\ Len(v) = e
      /\ \A i \in 1..e : v[i] = IF i <= q THEN x[i] ELSE d[i - q]
  <2>1. /\ v \in Seq(Nat) /\ Len(v) = Len(x) + Len(d)
        /\ \A i \in 1..(Len(x) + Len(d)) : v[i] = IF i <= Len(x) THEN x[i] ELSE d[i - Len(x)]
    BY <1>3, ConcatProperties
  <2> HIDE DEF v
  <2> QED
    BY <1>1, <1>2, <1>3, <2>1
<1> HIDE DEF v
<1>6. /\ g \in Seq(Nat) /\ Len(g) = e + Len(y)
      /\ \A i \in 1..(e + Len(y)) : g[i] = IF i <= e THEN v[i] ELSE y[i - e]
  <2>1. /\ g \in Seq(Nat) /\ Len(g) = Len(v) + Len(y)
        /\ \A i \in 1..(Len(v) + Len(y)) : g[i] = IF i <= Len(v) THEN v[i] ELSE y[i - Len(v)]
    BY <1>4, <1>5, ConcatProperties
  <2> HIDE DEF g
  <2> QED
    BY <1>5, <2>1
<1> HIDE DEF g
<1>7. e + Len(y) = k
  <2>1. CASE e <= l
    <3>1. Len(y) = l - e /\ k = l
      BY <1>2, <1>4, <2>1
    <3>2. e + (l - e) = l
      BY <1>2
    <3> QED
      BY <3>1, <3>2
  <2>2. CASE ~(e <= l)
    <3>1. Len(y) = 0 /\ k = e
      BY <1>2, <1>4, <2>2
    <3>2. e + 0 = e
      BY <1>2
    <3> QED
      BY <3>1, <3>2
  <2> QED
    BY <2>1, <2>2
<1>8. ASSUME NEW i \in 1..k
      PROVE  g[i] = IF i \in (q + 1)..e THEN d[i - q] ELSE f[i]
  <2>1. i \in Nat \ {0} /\ i <= k
    BY <1>2
  <2>2. CASE i <= q
    <3>1. i <= e /\ i \in 1..e /\ i \in 1..q /\ i \notin (q + 1)..e
      BY <1>2, <2>1, <2>2
    <3> QED
      BY <1>3, <1>5, <1>6, <1>7, <2>2, <3>1
  <2>3. CASE ~(i <= q) /\ i <= e
    <3>1. i \in 1..e /\ i \in (q + 1)..e
      BY <1>2, <2>1, <2>3
    <3> QED
      BY <1>5, <1>6, <1>7, <2>3, <3>1
  <2>4. CASE ~(i <= e)
    <3>1. e <= l /\ i - e \in 1..(l - e) /\ e + (i - e) = i /\ i \notin (q + 1)..e
      BY <1>2, <2>1, <2>4
    <3> QED
      BY <1>4, <1>6, <1>7, <2>4, <3>1
  <2> QED
    BY <2>2, <2>3, <2>4
<1>9. Over(f, q, d) = g
  BY <1>1 DEF Over, g, v, x, y
<1> HIDE DEF g
<1> QED
  BY <1>1, <1>6, <1>7, <1>8, <1>9 DEF Spliced

\* The array s holds the bytes of f, each at its place.
Stored(s, f) ==
  /\ f \in Seq(Nat) /\ Holds(s, Len(f))
  /\ \A i \in 0 .. Len(f) - 1 : ByteAt(s, i) = f[i + 1]

\* A proper write stores what it should.
LEMMA WriteStored ==
  ASSUME NEW s, NEW f, Stored(s, f), Seated(s), NEW d \in Seq(Nat), Len(d) > 0, Proper(f, s.pos, d)
  PROVE  /\ Stored(DoWrite(s, d), Over(f, s.pos, d))
         /\ DoWrite(s, d).pos = s.pos + Len(d)
         /\ ~Inside(s.pos + Len(d)) => Seated(DoWrite(s, d))
<1>1. PICK m, n, p : m = Len(f) /\ n = Len(d) /\ p = s.pos
  OBVIOUS
<1>2. /\ m \in Nat /\ n \in Nat /\ p \in 0 .. m /\ f \in Seq(Nat) /\ Holds(s, m)
      /\ p = m \/ p + n <= m
      /\ n <= BlockSize \/ ~Inside(p)
  BY <1>1, LenProperties DEF Stored, Holds, Proper
<1>3. PICK k : k = IF p + n <= m THEN m ELSE p + n
  OBVIOUS
<1>4. PICK t, g : t = DoWrite(s, d) /\ g = Over(f, p, d)
  OBVIOUS
<1>5. Wrote(t, s, d, k)
  BY <1>1, <1>2, <1>3, <1>4, WriteFacts
<1>6. Spliced(g, f, d, p, k)
  <2>1. p \in 0 .. Len(f) /\ (p = Len(f) \/ p + Len(d) <= Len(f))
        /\ k = IF p + Len(d) <= Len(f) THEN Len(f) ELSE p + Len(d)
    BY <1>1, <1>2, <1>3
  <2> QED
    BY <1>2, <1>4, <2>1, SpliceFacts
<1>7. /\ k \in Nat /\ Holds(t, k) /\ t.pos = p + n /\ (~Inside(t.pos) => Seated(t))
      /\ \A i \in 0 .. k - 1 :
            ByteAt(t, i) = IF i \in p .. (p + n - 1) THEN d[i - p + 1] ELSE ByteAt(s, i)
  BY <1>1, <1>5 DEF Wrote
<1>8. /\ g \in Seq(Nat) /\ Len(g) = k
      /\ \A i \in 1 .. k : g[i] = IF i \in (p + 1) .. (p + n) THEN d[i - p] ELSE f[i]
  BY <1>1, <1>6 DEF Spliced
<1>9. ASSUME NEW i \in 0 .. k - 1 PROVE ByteAt(t, i) = g[i + 1]
  <2>1. /\ i + 1 \in 1 .. k /\ (i \in p .. (p + n - 1) <=> i + 1 \in (p + 1) .. (p + n))
        /\ i - p + 1 = i + 1 - p
    BY <1>2, <1>7
  <2>2. i \notin p .. (p + n - 1) => i \in 0 .. m - 1
    BY <1>2, <1>3, <1>7
  <2>3. \A x \in 0 .. m - 1 : ByteAt(s, x) = f[x + 1]
    BY <1>1 DEF Stored
  <2>4. PICK y : y = i + 1
    OBVIOUS
  <2>5. g[y] = IF i \in p .. (p + n - 1) THEN d[y - p] ELSE f[y]
    BY <1>8, <2>1, <2>4
  <2>6. CASE i \in p .. (p + n - 1)
    <3>1. ByteAt(t, i) = d[i - p + 1] /\ g[y] = d[y - p]
      BY <1>7, <2>5, <2>6
    <3>2. y - p = i - p + 1
      BY <1>2, <1>7, <2>4
    <3> QED
      BY <2>4, <3>1, <3>2
  <2>7. CASE i \notin p .. (p + n - 1)
    BY <1>7, <2>2, <2>3, <2>4, <2>5, <2>7
  <2> QED
    BY <2>6, <2>7
<1>10. Stored(t, g)
  BY <1>7, <1>8, <1>9 DEF Stored
<1> QED
  BY <1>1, <1>4, <1>7, <1>10

\* PartFacts for bytes.
LEMMA NatPart ==
  \A f \in Seq(Nat), p \in Nat : \A e \in p .. Len(f) :
    /\ SubSeq(f, p + 1, e) \in Seq(Nat) /\ Len(SubSeq(f, p + 1, e)) = e - p
    /\ \A i \in 1 .. e - p : SubSeq(f, p + 1, e)[i] = f[p + i]
BY PartFacts

\* A read gives what is stored, and leaves m_cur at the position.
LEMMA ReadStored ==
  ASSUME NEW s, NEW f, Stored(s, f), Seated(s), NEW n \in Nat, s.pos + n <= Len(f)
  PROVE  /\ CanRead(s, n) /\ Stored(DoRead(s, n), f) /\ Seated(DoRead(s, n))
         /\ DoRead(s, n).pos = s.pos + n
         /\ ReadBytes(s, n) = SubSeq(f, s.pos + 1, s.pos + n)
<1>1. PICK m, p, l, e : m = Len(f) /\ p = s.pos /\ l = Len(s.chain) /\ e = s.pos + n
  OBVIOUS
<1>2. /\ f \in Seq(Nat) /\ m \in Nat /\ p \in Nat /\ e \in Nat /\ e <= m /\ l \in Nat
      /\ IsArray(s) /\ ~s.err /\ s.cap = BlockSize * l /\ s.cap \in Int /\ m < s.cap
      /\ s.cap < m + 2 * BlockSize /\ s.total \in Int /\ m <= s.total
      /\ \A i \in 0 .. m - 1 : ByteAt(s, i) = f[i + 1]
  BY <1>1, LenProperties, ArrayFields DEF Stored, Holds
<1>2a. p \in Nat /\ m \in Nat /\ p + n <= m /\ \A j \in 1 .. n : p + j \in 1 .. m
  <2>1. \A x, y, z \in Nat : x + y <= z => \A j \in 1 .. y : x + j \in 1 .. z
    OBVIOUS
  <2>2. p \in Nat /\ m \in Nat /\ p + n <= m
    BY <1>1, <1>2
  <2> QED
    BY <2>1, <2>2
<1>3. \A j \in Nat : BlockOf(s, j) = (p + j) \div BlockSize + 1
  BY <1>1, <1>2, SeatedBlock
<1>4. PICK b : b = e \div BlockSize + 1
  OBVIOUS
<1>5. BlockOf(s, n) = b /\ b \in 1 .. l
  <2>1. e < BlockSize * l
    BY <1>2
  <2> QED
    BY <1>1, <1>2, <1>3, <1>4, <2>1, BlockRange
<1>6. CanRead(s, n)
  <2>1. n <= s.total - p
    BY <1>1, <1>2
  <2>2. b <= l
    BY <1>2, <1>5
  <2> QED
    BY <1>1, <1>5, <2>1, <2>2 DEF CanRead
<1>7. PICK t : t = DoRead(s, n)
  OBVIOUS
<1>8. /\ IsArray(t) /\ t.cur = b /\ t.pos = e /\ t.chain = s.chain
      /\ t.total = s.total /\ t.cap = s.cap /\ t.err = s.err
  <2>1. PICK S : s \in Arrays(S)
    BY <1>2 DEF IsArray
  <2>2. t = [s EXCEPT !.cur = b, !.pos = e]
    BY <1>1, <1>5, <1>7 DEF DoRead
  <2>3. b \in Int /\ e \in Int
    BY <1>2, <1>5
  <2>4. t \in Arrays(S) /\ t.cur = b /\ t.pos = e /\ t.chain = s.chain
        /\ t.total = s.total /\ t.cap = s.cap /\ t.err = s.err
    BY <2>1, <2>2, <2>3 DEF Arrays
  <2> QED
    BY <2>4 DEF IsArray
<1>9. Stored(t, f) /\ Seated(t)
  <2>1. e \in 0 .. m
    BY <1>2
  <2>2. Holds(t, m)
    BY <1>1, <1>2, <1>8, <2>1 DEF Holds
  <2>3. \A i \in 0 .. m - 1 : ByteAt(t, i) = f[i + 1]
    BY <1>2, <1>8 DEF ByteAt
  <2> QED
    BY <1>1, <1>2, <1>4, <1>8, <2>2, <2>3 DEF Stored, Seated
<1> DEFINE r == ReadBytes(s, n)
           g == SubSeq(f, p + 1, e)
<1>10. g \in Seq(Nat) /\ Len(g) = n /\ \A j \in 1 .. n : g[j] = f[p + j]
  <2>1. e \in p .. Len(f) /\ e - p = n
    BY <1>1, <1>2
  <2>2. /\ g \in Seq(Nat) /\ Len(g) = e - p /\ \A j \in 1 .. e - p : g[j] = f[p + j]
    <3>1. f \in Seq(Nat) /\ p \in Nat
      BY <1>2
    <3> QED
      BY <2>1, <3>1, NatPart, Zenon
  <2> HIDE DEF g
  <2> QED
    BY <2>1, <2>2
<1>11. ASSUME NEW j \in 1 .. n
       PROVE  s.chain[BlockOf(s, j - 1)][(s.pos + j - 1) % BlockSize] = f[p + j]
  <2>1. PICK i : i = p + j - 1
    OBVIOUS
  <2>2. j - 1 \in Nat /\ i = p + (j - 1) /\ i \in 0 .. m - 1 /\ i + 1 = p + j
    <3>1. \A x \in Nat, y \in 1 .. n : y - 1 \in Nat /\ x + y - 1 = x + (y - 1) /\ x + y - 1 + 1 = x + y
                                     /\ x + y - 1 >= 0
      OBVIOUS
    <3>2. j - 1 \in Nat /\ i = p + (j - 1) /\ i + 1 = p + j /\ i >= 0 /\ i \in Int
      BY <1>2a, <2>1, <3>1
    <3>3. i + 1 \in 1 .. m
      BY <1>2a, <3>2
    <3> QED
      BY <1>2a, <3>2, <3>3
  <2>3. BlockOf(s, j - 1) = i \div BlockSize + 1
    BY <1>3, <2>2
  <2>4. s.pos + j - 1 = i
    BY <1>1, <2>1
  <2>5. ByteAt(s, i) = f[p + j]
    BY <1>2, <2>2
  <2> QED
    BY <2>3, <2>4, <2>5 DEF ByteAt
<1>12. r = [j \in 1 .. n |-> f[p + j]]
  BY <1>11 DEF ReadBytes
<1>13. \A j \in 1 .. n : f[p + j] \in Nat
  BY <1>1, <1>2, <1>2a, ElementOfSeq
<1>14. r \in Seq(Nat) /\ Len(r) = n /\ \A j \in 1 .. n : r[j] = f[p + j]
  <2>1. r \in [1 .. n -> Nat] /\ \A j \in 1 .. n : r[j] = f[p + j]
    BY <1>12, <1>13
  <2> HIDE DEF r
  <2> QED
    BY <2>1
<1> HIDE DEF r, g
<1>15. r = g
  BY <1>10, <1>14, SeqEqual
<1> QED
  BY <1>1, <1>6, <1>7, <1>8, <1>9, <1>15 DEF r, g

\* What the client can ask to write.
LEMMA DataFacts == \A d \in Data : d \in Seq(Nat) /\ (d # <<>> => Len(d) > 0)
<1> SUFFICES ASSUME NEW d \in Data PROVE d \in Seq(Nat) /\ (d # <<>> => Len(d) > 0)
  OBVIOUS
<1>1. PICK n \in 0 .. MaxData : d \in [1 .. n -> Bytes]
  BY DEF Data
<1>2. n \in Nat /\ d \in [1 .. n -> Nat]
  <2>1. n \in Nat
    BY <1>1, ByteArrayAssumption
  <2>2. Bytes \subseteq Nat
    BY ByteArrayAssumption
  <2> QED
    BY <1>1, <2>1, <2>2
<1>3. d \in Seq(Nat)
  BY <1>2
<1>4. d # <<>> => Len(d) \in Nat \ {0}
  BY <1>3, EmptySeq
<1> QED
  BY <1>3, <1>4

\* The array of a careful client holds the file, its reads were right, and
\* m_cur is at the position unless a setPosition is due.
BufInv == careful => Stored(a, file) /\ ~misread /\ (~due => Seated(a))

\* The constructor and clear leave one block for no bytes.
LEMMA OneBlock ==
  ASSUME NEW s, NEW x, NEW y \in Nat,
         s = [chain |-> <<x>>, cur |-> 1, pos |-> 0, total |-> y, cap |-> BlockSize, err |-> FALSE]
  PROVE  Stored(s, <<>>) /\ Seated(s)
<1>1. <<x>> \in Seq({x}) /\ Len(<<x>>) = 1 /\ BlockSize \in Nat \ {0} /\ BlockSize * 1 = BlockSize
  BY ByteArrayAssumption
<1>2. IsArray(s)
  <2>1. s \in Arrays({x})
    BY <1>1 DEF Arrays
  <2> QED
    BY <2>1 DEF IsArray
<1>3. <<>> \in Seq(Nat) /\ Len(<<>>) = 0
  BY EmptySeq
<1>4. s.cap = BlockSize * Len(s.chain) /\ s.cap = BlockSize /\ s.pos = 0 /\ s.total = y /\ ~s.err
      /\ s.cur = 1
  BY <1>1
<1>5. Holds(s, 0)
  BY <1>1, <1>2, <1>4 DEF Holds
<1>6. 0 \div BlockSize = 0
  <2>1. 0 \in Int /\ 0 <= 0 /\ 0 < BlockSize /\ 0 = BlockSize * 0 + 0
    BY <1>1
  <2> QED
    BY <2>1, DivUnique
<1>7. Seated(s)
  BY <1>4, <1>6 DEF Seated
<1> QED
  BY <1>3, <1>5, <1>7 DEF Stored

\* writeInt8 to writeDouble.
LEMMA WriteFixedStep ==
  ASSUME BufInv, NEW d \in Data, d # <<>>, WriteFixed(d), careful' PROVE BufInv'
<1>1. /\ careful /\ ~due /\ Proper(file, a.pos, d) /\ a' = DoWrite(a, d)
      /\ file' = Over(file, a.pos, d) /\ due' = Inside(a.pos + Len(d)) /\ misread' = misread
  BY DEF WriteFixed
<1>2. Stored(a, file) /\ ~misread /\ Seated(a)
  BY <1>1 DEF BufInv
<1>3. d \in Seq(Nat) /\ Len(d) > 0
  BY DataFacts
<1>4. /\ Stored(DoWrite(a, d), Over(file, a.pos, d))
      /\ ~Inside(a.pos + Len(d)) => Seated(DoWrite(a, d))
  BY <1>1, <1>2, <1>3, WriteStored
<1>5. Stored(a', file')
  BY <1>1, <1>4
<1>6. ~due' => Seated(a')
  BY <1>1, <1>4
<1> QED
  BY <1>1, <1>2, <1>5, <1>6 DEF BufInv, Stored, Seated, Holds, IsArray, Arrays, ByteAt

\* writeStringU16 to writeStringV64.
LEMMA WriteStringStep ==
  ASSUME BufInv, NEW d \in Data, WriteString(d), careful' PROVE BufInv'
<1>1. PICK w, f, s : w = <<Len(d)>> /\ f = Over(file, a.pos, w) /\ s = DoWrite(a, w)
  OBVIOUS
<1>2. /\ careful /\ ~due /\ (d = <<>> \/ (~Inside(a.pos + 1) /\ Proper(f, a.pos + 1, d)))
      /\ a' = DoWrite(s, d) /\ file' = Over(f, a.pos + 1, d)
      /\ due' = Inside(a.pos + 1 + Len(d)) /\ misread' = misread
  BY <1>1 DEF WriteString
<1>3. Stored(a, file) /\ ~misread /\ Seated(a)
  BY <1>2 DEF BufInv
<1>4. d \in Seq(Nat) /\ (d # <<>> => Len(d) > 0) /\ Len(d) \in Nat
  BY DataFacts, LenProperties
<1>5. w \in Seq(Nat) /\ Len(w) = 1
  BY <1>1, <1>4
<1>6. /\ Len(file) \in Nat /\ a.pos \in 0 .. Len(file)
  BY <1>3, LenProperties DEF Stored, Holds
<1>7. Proper(file, a.pos, w) /\ Len(w) > 0
  BY <1>5, <1>6, ByteArrayAssumption DEF Proper
<1>8. Stored(s, f) /\ s.pos = a.pos + 1 /\ (~Inside(a.pos + 1) => Seated(s))
  BY <1>1, <1>3, <1>5, <1>7, WriteStored
<1>9. CASE d = <<>>
  <2>1. Len(d) = 0 /\ a.pos + 1 + Len(d) = a.pos + 1
    BY <1>6, <1>9
  <2>2. a' = s
    BY <1>2, <1>9 DEF DoWrite
  <2>3. f \in Seq(Nat) /\ Len(f) \in Nat /\ a.pos + 1 \in 0 .. Len(f)
    BY <1>8, LenProperties DEF Stored, Holds
  <2>4. Over(f, a.pos + 1, d) = f
    <3>1. PICK c, k : c = a.pos + 1 /\ k = Len(f)
      OBVIOUS
    <3>0. c \in 0 .. Len(f) /\ c \in Int /\ c + Len(d) = c /\ c <= Len(f)
      <4>1. c \in 0 .. Len(f) /\ c \in Int /\ c <= Len(f)
        BY <2>3, <3>1
      <4> QED
        BY <2>1, <4>1
    <3>2. (c = Len(f) \/ c + Len(d) <= Len(f))
          /\ k = IF c + Len(d) <= Len(f) THEN Len(f) ELSE c + Len(d)
      BY <3>0, <3>1
    <3>3. Spliced(Over(f, c, d), f, d, c, k)
      <4>1. f \in Seq(Nat) /\ d \in Seq(Nat)
        BY <1>4, <2>3
      <4> QED
        BY <3>0, <3>2, <4>1, SpliceFacts
    <3>4. PICK g : g = Over(f, c, d)
      OBVIOUS
    <3>5. /\ g \in Seq(Nat) /\ Len(g) = Len(f)
          /\ \A i \in 1 .. Len(f) : g[i] = IF i \in (c + 1) .. (c + Len(d)) THEN d[i - c] ELSE f[i]
      BY <3>1, <3>3, <3>4 DEF Spliced
    <3>6. \A i \in 1 .. Len(f) : i \notin (c + 1) .. (c + Len(d))
      BY <3>0
    <3>7. \A i \in 1 .. Len(f) : g[i] = f[i]
      BY <3>5, <3>6
    <3>8. g = f
      BY <2>3, <3>5, <3>7, SeqEqual
    <3> QED
      BY <3>1, <3>4, <3>8
  <2>5. Stored(a', file') /\ (~due' => Seated(a')) /\ ~misread'
    BY <1>2, <1>3, <1>8, <2>1, <2>2, <2>4
  <2> QED
    BY <2>5 DEF BufInv, Stored, Seated, Holds, IsArray, Arrays, ByteAt
<1>10. CASE d # <<>>
  <2>1. Seated(s) /\ Proper(f, s.pos, d) /\ Len(d) > 0
    BY <1>2, <1>4, <1>8, <1>10
  <2>2. /\ Stored(DoWrite(s, d), Over(f, s.pos, d))
        /\ ~Inside(s.pos + Len(d)) => Seated(DoWrite(s, d))
    BY <1>4, <1>8, <2>1, WriteStored
  <2>3. Stored(a', file') /\ (~due' => Seated(a')) /\ ~misread'
    BY <1>2, <1>3, <1>8, <2>2
  <2> QED
    BY <2>3 DEF BufInv, Stored, Seated, Holds, IsArray, Arrays, ByteAt
<1> QED
  BY <1>9, <1>10

\* readInt8 to readDouble.
LEMMA ReadFixedStep ==
  ASSUME BufInv, NEW n \in Nat, ReadFixed(n), careful' PROVE BufInv'
<1>1. careful /\ ~due /\ a.pos + n <= Len(file) /\ file' = file /\ due' = due
  BY DEF ReadFixed
<1>2. Stored(a, file) /\ ~misread /\ Seated(a)
  BY <1>1 DEF BufInv
<1>3. /\ CanRead(a, n) /\ Stored(DoRead(a, n), file) /\ Seated(DoRead(a, n))
      /\ ReadBytes(a, n) = SubSeq(file, a.pos + 1, a.pos + n)
  BY <1>1, <1>2, ReadStored
<1>4. a' = DoRead(a, n) /\ ~misread'
  BY <1>2, <1>3 DEF ReadFixed
<1>5. Stored(a', file') /\ Seated(a') /\ ~misread'
  BY <1>1, <1>3, <1>4
<1> QED
  BY <1>5 DEF BufInv, Stored, Seated, Holds, IsArray, Arrays, ByteAt

\* readStringU16 to readStringV64.
LEMMA ReadStringStep == ASSUME BufInv, ReadString, careful' PROVE BufInv'
<1>1. PICK p, n : p = a.pos /\ n = file[p + 1]
  OBVIOUS
<1>2. careful /\ ~due /\ p < Len(file) /\ p + 1 + n <= Len(file) /\ file' = file /\ due' = due
  BY <1>1 DEF ReadString
<1>3. Stored(a, file) /\ ~misread /\ Seated(a)
  BY <1>2 DEF BufInv
<1>4. file \in Seq(Nat) /\ Len(file) \in Nat /\ p \in Nat /\ n \in Nat
  <2>1. file \in Seq(Nat) /\ Len(file) \in Nat /\ p \in Nat
    BY <1>1, <1>3, LenProperties DEF Stored, Holds
  <2>2. p + 1 \in 1 .. Len(file)
    BY <1>2, <2>1
  <2> QED
    BY <1>1, <2>1, <2>2, ElementOfSeq
<1>5. PICK s : s = DoRead(a, 1)
  OBVIOUS
<1>6. /\ CanRead(a, 1) /\ Stored(s, file) /\ Seated(s) /\ s.pos = p + 1
      /\ ReadBytes(a, 1) = SubSeq(file, p + 1, p + 1)
  <2>1. 1 \in Nat /\ a.pos + 1 <= Len(file)
    BY <1>1, <1>2, <1>4
  <2> QED
    BY <1>1, <1>3, <1>5, <2>1, ReadStored
<1>7. ReadBytes(a, 1)[1] = n
  <2>1. p + 1 \in p .. Len(file) /\ (p + 1) - p = 1
    BY <1>2, <1>4
  <2>2. \A i \in 1 .. (p + 1) - p : SubSeq(file, p + 1, p + 1)[i] = file[p + i]
    BY <1>4, <2>1, NatPart, Zenon
  <2>3. SubSeq(file, p + 1, p + 1)[1] = file[p + 1]
    BY <2>1, <2>2
  <2> QED
    BY <1>1, <1>6, <2>3
<1>8. /\ CanRead(s, n) /\ Stored(DoRead(s, n), file) /\ Seated(DoRead(s, n))
      /\ ReadBytes(s, n) = SubSeq(file, s.pos + 1, s.pos + n)
  BY <1>2, <1>4, <1>6, ReadStored
<1>9. s.pos + 1 = a.pos + 2 /\ s.pos + n = a.pos + 1 + file[a.pos + 1]
  BY <1>1, <1>4, <1>6
<1>10. a' = DoRead(s, n) /\ ~misread'
  <2>1. ~(~CanRead(a, 1) \/ n \notin Nat \/ ~CanRead(s, n))
    BY <1>4, <1>6, <1>8
  <2> QED
    BY <1>3, <1>5, <1>7, <1>8, <1>9, <2>1 DEF ReadString
<1>11. Stored(a', file') /\ Seated(a') /\ ~misread'
  BY <1>2, <1>8, <1>10
<1> QED
  BY <1>11 DEF BufInv, Stored, Seated, Holds, IsArray, Arrays, ByteAt

\* setPosition.
LEMMA SetPositionStep ==
  ASSUME BufInv, NEW v, SetPosition(v), careful' PROVE BufInv'
<1>1. PICK m, b, l, z : m = Len(file) /\ b = v \div BlockSize + 1 /\ l = Len(a.chain)
                        /\ z = IF v >= a.total THEN v ELSE a.total
  OBVIOUS
<1>2. /\ careful /\ file' = file /\ misread' = misread /\ v \in 0 .. m
      /\ a' = IF v > a.cap \/ b > l THEN [a EXCEPT !.err = TRUE]
              ELSE [a EXCEPT !.pos = v, !.cur = b, !.total = z]
  BY <1>1 DEF SetPosition
<1>3. Stored(a, file) /\ ~misread
  BY <1>2 DEF BufInv
<1>4. /\ m \in Nat /\ v \in Nat /\ v <= m /\ l \in Nat /\ IsArray(a) /\ ~a.err
      /\ a.cap = BlockSize * l /\ a.cap \in Int /\ m < a.cap /\ a.cap < m + 2 * BlockSize
      /\ m <= a.total /\ a.total \in Int
  BY <1>1, <1>2, <1>3, LenProperties, ArrayFields DEF Stored, Holds
<1>5. b \in 1 .. l
  <2>1. v < BlockSize * l
    BY <1>4
  <2> QED
    BY <1>1, <1>4, <2>1, BlockRange
<1>6. ~(v > a.cap \/ b > l) /\ z \in Int /\ m <= z /\ b \in Int /\ v \in Int
  BY <1>1, <1>4, <1>5
<1>7. PICK t : t = [a EXCEPT !.pos = v, !.cur = b, !.total = z]
  OBVIOUS
<1>8. /\ IsArray(t) /\ t.pos = v /\ t.cur = b /\ t.total = z /\ t.cap = a.cap
      /\ t.chain = a.chain /\ t.err = a.err
  <2>1. PICK S : a \in Arrays(S)
    BY <1>4 DEF IsArray
  <2>2. /\ t \in Arrays(S) /\ t.pos = v /\ t.cur = b /\ t.total = z /\ t.cap = a.cap
        /\ t.chain = a.chain /\ t.err = a.err
    BY <1>6, <1>7, <2>1 DEF Arrays
  <2> QED
    BY <2>2 DEF IsArray
<1>9. Stored(t, file) /\ Seated(t)
  <2>1. Holds(t, m)
    BY <1>1, <1>2, <1>4, <1>6, <1>8 DEF Holds
  <2>2. \A i \in 0 .. m - 1 : ByteAt(t, i) = file[i + 1]
    BY <1>1, <1>3, <1>8 DEF Stored, ByteAt
  <2> QED
    BY <1>1, <1>3, <1>8, <2>1, <2>2 DEF Stored, Seated
<1>10. a' = t
  BY <1>2, <1>6, <1>7
<1>11. Stored(a', file') /\ Seated(a') /\ ~misread'
  BY <1>2, <1>3, <1>9, <1>10
<1> QED
  BY <1>11 DEF BufInv, Stored, Seated, Holds, IsArray, Arrays, ByteAt

\* clear.
LEMMA ClearStep == ASSUME Clear PROVE BufInv'
<1>1. PICK x, t : x = a.chain[1] /\ t = a'
  OBVIOUS
<1>2. /\ t = [chain |-> SubSeq(a.chain, 1, 1), cur |-> 1, pos |-> 0, total |-> 0,
              cap |-> BlockSize, err |-> FALSE]
      /\ file' = <<>> /\ ~misread'
  BY <1>1 DEF Clear
<1>3. SubSeq(a.chain, 1, 1) = <<x>>
  <2>1. PICK o, g : o = 1 /\ g = SubSeq(a.chain, 1, 1)
    OBVIOUS
  <2>2. o \in Int /\ \A i \in o .. o : a.chain[i] \in {x}
    BY <1>1, <2>1
  <2>3. /\ SubSeq(a.chain, o, o) \in Seq({x})
        /\ Len(SubSeq(a.chain, o, o)) = IF o <= o THEN o - o + 1 ELSE 0
    BY <2>2, SubSeqProperties
  <2>4. g \in Seq({x}) /\ Len(g) = 1
    BY <2>1, <2>3
  <2>5. g[1] = x
    BY <2>4
  <2>6. <<x>> \in Seq({x}) /\ Len(<<x>>) = 1 /\ <<x>>[1] = x
    OBVIOUS
  <2>7. g = <<x>>
    BY <2>4, <2>5, <2>6, SeqEqual
  <2> QED
    BY <2>1, <2>7
<1>4. Stored(t, <<>>) /\ Seated(t)
  BY <1>2, <1>3, OneBlock
<1>5. Stored(a', file') /\ Seated(a') /\ ~misread'
  BY <1>1, <1>2, <1>4
<1> QED
  BY <1>5 DEF BufInv, Stored, Seated, Holds, IsArray, Arrays, ByteAt

\* Every step keeps a careful client's array.
LEMMA BufStep == BufInv /\ [Next]_vars => BufInv'
<1> SUFFICES ASSUME BufInv, [Next]_vars PROVE BufInv'
  OBVIOUS
<1>1. CASE ~careful'
  BY <1>1 DEF BufInv
<1>2. CASE careful'
  <2>1. ASSUME NEW d \in Data \ {<<>>}, WriteFixed(d) PROVE BufInv'
    BY <1>2, <2>1, WriteFixedStep
  <2>2. ASSUME NEW d \in Data, WriteString(d) PROVE BufInv'
    BY <1>2, <2>2, WriteStringStep
  <2>3. ASSUME NEW n \in 1 .. MaxData, ReadFixed(n) PROVE BufInv'
    <3>1. n \in Nat
      BY ByteArrayAssumption
    <3> QED
      BY <1>2, <2>3, <3>1, ReadFixedStep
  <2>4. ASSUME NEW v, SetPosition(v) PROVE BufInv'
    BY <1>2, <2>4, SetPositionStep
  <2>5. CASE ReadString
    BY <1>2, <2>5, ReadStringStep
  <2>6. CASE Clear
    BY <2>6, ClearStep
  <2>7. CASE UNCHANGED vars
    BY <2>7 DEF vars, BufInv, Stored, Seated, Holds, IsArray, Arrays, ByteAt
  <2> QED
    BY <2>1, <2>2, <2>3, <2>4, <2>5, <2>6, <2>7 DEF Next, Thrown
<1> QED
  BY <1>1, <1>2

\* Every byte is looked for where it is, and no read failed.
LEMMA BufPlace == ASSUME BufInv PROVE BytesAtPlace /\ ReadsBack
<1>1. ASSUME careful PROVE ReadsBack
  BY <1>1 DEF BufInv, ReadsBack, Stored, Holds
<1>2. ASSUME careful, NEW i \in DOMAIN file
      PROVE  /\ (i - 1) \div BlockSize + 1 <= Len(a.chain)
             /\ a.chain[(i - 1) \div BlockSize + 1][(i - 1) % BlockSize] = file[i]
  <2>1. Stored(a, file)
    BY <1>2 DEF BufInv
  <2>2. /\ file \in Seq(Nat) /\ Len(file) \in Nat /\ DOMAIN file = 1 .. Len(file)
        /\ a.cap = BlockSize * Len(a.chain) /\ Len(file) < a.cap /\ Len(a.chain) \in Nat
        /\ a.cap \in Int
    BY <2>1, LenProperties, ArrayFields DEF Stored, Holds
  <2>3. PICK k : k = i - 1
    OBVIOUS
  <2>4. k \in Nat /\ k \in 0 .. Len(file) - 1 /\ k + 1 = i /\ k < BlockSize * Len(a.chain)
    <3>1. k \in Nat /\ k \in 0 .. Len(file) - 1 /\ k + 1 = i /\ k < Len(file)
      BY <2>2, <2>3
    <3> QED
      BY <2>2, <3>1
  <2>5. k \div BlockSize + 1 \in 1 .. Len(a.chain)
    BY <2>2, <2>4, BlockRange
  <2>6. ByteAt(a, k) = file[i]
    BY <2>1, <2>4 DEF Stored
  <2>7. k \div BlockSize + 1 <= Len(a.chain)
    BY <2>2, <2>5
  <2> QED
    BY <2>3, <2>6, <2>7 DEF ByteAt
<1>3. BytesAtPlace
  BY <1>2 DEF BytesAtPlace
<1> QED
  BY <1>1, <1>3 DEF ReadsBack

\* The constructor.
LEMMA BufInit == ASSUME Init PROVE BufInv
<1>1. /\ a = [chain |-> <<NewBlock>>, cur |-> 1, pos |-> 0, total |-> BlockSize,
              cap |-> BlockSize, err |-> FALSE]
      /\ file = <<>> /\ ~misread
  BY DEF Init
<1>2. BlockSize \in Nat
  BY ByteArrayAssumption
<1>3. Stored(a, file) /\ Seated(a)
  BY <1>1, <1>2, OneBlock
<1> QED
  BY <1>1, <1>3 DEF BufInv

(* ByteArray.cpp 453-513: whatever the size of the blocks, what a careful  *)
(* client has written is where a walk from the first block looks for it.   *)
THEOREM BytesAtPlaceHolds == Spec => []BytesAtPlace
<1>1. Init => BufInv
  BY BufInit
<1>2. BufInv => BytesAtPlace
  BY BufPlace
<1> QED
  BY <1>1, <1>2, BufStep, PTL DEF Spec

(* ByteArray.cpp 453-513, 548-567: whatever the size of the blocks, a      *)
(* careful client reads what was written, values and strings, and never    *)
(* meets "broken data", "broken bytearray" or an early end.                *)
THEOREM ReadsBackHolds == Spec => []ReadsBack
<1>1. Init => BufInv
  BY BufInit
<1>2. BufInv => ReadsBack
  BY BufPlace
<1> QED
  BY <1>1, <1>2, BufStep, PTL DEF Spec
=============================================================================
