--------------------------- MODULE ProcesserProofs ---------------------------
(***************************************************************************)
(* For any number of processers and fibers: no fiber ever executes on two  *)
(* processers, swapIn resumes only complete contexts, every fiber is       *)
(* always in exactly one place, and no wake-up is lost.  Without callbacks *)
(* m_totalFibers counts the live fibers, so that neither a processer nor   *)
(* the reactor leaves before the last of them has ended.                   *)
(***************************************************************************)
EXTENDS Scheduler, SeqFacts, FiniteSetTheorems

-----------------------------------------------------------------------------
(* The inductive invariant                                                 *)

\* p has a fiber in hand.
HasCur(p) == pc[p] \in {"isHold", "isReady", "isExec", "setReady", "swapIn",
                        "run", "jump", "swapped"}

\* p alone may touch the fiber's _state and context.
Exclusive(p) == pc[p] \in {"setReady", "swapIn", "run", "jump", "swapped"}

CurInv == \A p \in Procs : cur[p] \in Fibers <=> HasCur(p)

CallInv ==
  \A c \in Callers :
    /\ call[c].step # "idle" => call[c].fib \in Fibers
    /\ call[c].step = "idle" => call[c] = NoCall
    /\ c \in Procs /\ call[c].step # "idle" => pc[c] = "run"

StateInv ==
  \A p \in Procs :
    /\ pc[p] = "setReady" => state[cur[p]] # "EXEC"
    /\ pc[p] = "swapIn" => state[cur[p]] = "READY"
    /\ pc[p] = "run" => state[cur[p]] = "EXEC"
    /\ pc[p] \in {"jump", "swapped"} =>
         state[cur[p]] \in {"READY", "EXEC", "TERM", "EXCEPT"}
    /\ pc[p] \in {"setReady", "swapIn"} => cur[p] \in saved

\* A context that is not saved belongs to a fiber on some stack, and EXEC
\* lasts until the processer that ran the fiber has seen it jump.
SavedInv ==
  /\ \A f \in Fibers : f \notin saved =>
       \E p \in Procs : pc[p] \in {"run", "jump"} /\ cur[p] = f
  /\ \A f \in Fibers : state[f] = "EXEC" =>
       \E p \in Procs : pc[p] \in {"run", "jump", "swapped"} /\ cur[p] = f

ExclusiveInv ==
  \A p, q \in Procs : Exclusive(p) /\ Exclusive(q) /\ cur[p] = cur[q] => p = q

Kind == {"fresh", "held", "timed", "done", "que", "cur", "call"}

Queued(f, p) == InSeq(f, que[p]) \/ InSeq(f, loot[p])
Carried(f, c) == call[c].fib = f /\ call[c].step \in {"count", "push"}
InHand(f, p) == Owns(p) /\ cur[p] = f

\* Fiber f is in the place of kind k and number i, and in no other.
PlacedAt(f, k, i) ==
  /\ k \in {"que", "cur"} => i \in Procs
  /\ k = "call" => i \in Callers
  /\ f \in fresh <=> k = "fresh"
  /\ f \in held  <=> k = "held"
  /\ f \in timed <=> k = "timed"
  /\ Finished(f) <=> k = "done"
  /\ \A p \in Procs : Queued(f, p) <=> k = "que" /\ i = p
  /\ \A p \in Procs : InHand(f, p) <=> k = "cur" /\ i = p
  /\ \A c \in Callers : Carried(f, c) <=> k = "call" /\ i = c

QueueInv ==
  \A p \in Procs : /\ NoDup(que[p]) /\ NoDup(loot[p])
                   /\ \A f \in Fibers : ~(InSeq(f, que[p]) /\ InSeq(f, loot[p]))
                   /\ pc[p] # "store" => loot[p] = <<>>

PlaceInv == \A f \in Fibers : \E k \in Kind, i \in Int : PlacedAt(f, k, i)

Inv == /\ TypeOK /\ CurInv /\ CallInv /\ StateInv /\ SavedInv
       /\ ExclusiveInv /\ QueueInv /\ PlaceInv

-----------------------------------------------------------------------------
\* fetchFibers never takes more than the queue holds.
LEMMA StealCountRange ==
  ASSUME NEW load \in Int, NEW n \in Nat
  PROVE  StealCount(load, n) \in 0 .. n
BY DEF StealCount

\* Nothing is in an empty work queue.
LEMMA EmptyFacts ==
  \A f : ~InSeq(f, <<>>) /\ NoDup(<<>>)
BY DEF InSeq, NoDup

\* The initial states satisfy the invariant.
LEMMA InitInv == Init => Inv
<1> SUFFICES ASSUME Init PROVE Inv
  OBVIOUS
<1>0. NoFiber \notin Fibers /\ N \in Nat \ {0}
  BY ConstantsAssumption
<1>1. TypeOK
  BY ConstantsAssumption
  DEF Init, TypeOK, Procs, Callers, FiberState, ProcPC, CallStep, CallKind, NoCall
<1>2. CurInv /\ CallInv /\ StateInv /\ SavedInv /\ ExclusiveInv
  BY <1>0 DEF Init, CurInv, HasCur, CallInv, NoCall, StateInv, SavedInv,
              ExclusiveInv, Exclusive
<1>3. QueueInv
  BY EmptyFacts DEF Init, QueueInv
<1>4. PlaceInv
  <2>1. \A f \in Fibers : /\ ~Finished(f)
                          /\ \A p \in Procs : ~Queued(f, p) /\ ~InHand(f, p)
                          /\ \A c \in Callers : ~Carried(f, c)
    BY <1>0, EmptyFacts DEF Init, Finished, Queued, InHand, Owns, Carried, NoCall
  <2>2. \A f \in Fibers : PlacedAt(f, "fresh", 0)
    BY <2>1 DEF Init, PlacedAt
  <2>3. QED BY <2>2 DEF PlaceInv, Kind
<1>5. QED BY <1>1, <1>2, <1>3, <1>4 DEF Inv

\* What a step leaves of a fiber's place.
SameFor(f) ==
  /\ f \in fresh' <=> f \in fresh
  /\ f \in held' <=> f \in held
  /\ f \in timed' <=> f \in timed
  /\ Finished(f)' <=> Finished(f)
  /\ \A p \in Procs : Queued(f, p)' <=> Queued(f, p)
  /\ \A p \in Procs : InHand(f, p)' <=> InHand(f, p)
  /\ \A c \in Callers : Carried(f, c)' <=> Carried(f, c)

\* A step that leaves every fiber but f in its place, and puts f in (k, i).
LEMMA MovePlace ==
  ASSUME PlaceInv, NEW f \in Fibers, NEW k \in Kind, NEW i \in Int,
         PlacedAt(f, k, i)', \A g \in Fibers \ {f} : SameFor(g)
  PROVE  PlaceInv'
<1> SUFFICES ASSUME NEW g \in Fibers PROVE (\E l \in Kind, j \in Int : PlacedAt(g, l, j))'
  BY DEF PlaceInv
<1>1. CASE g = f BY <1>1
<1>2. CASE g # f
  <2>1. PICK l \in Kind, j \in Int : PlacedAt(g, l, j)
    BY DEF PlaceInv
  <2>2. SameFor(g)
    BY <1>2
  <2>3. PlacedAt(g, l, j)'
    BY <2>1, <2>2 DEF PlacedAt, SameFor
  <2>4. QED BY <2>3
<1>3. QED BY <1>1, <1>2

\* A step that moves no fiber.
LEMMA KeepPlace ==
  ASSUME PlaceInv, \A g \in Fibers : SameFor(g)
  PROVE  PlaceInv'
<1> SUFFICES ASSUME NEW g \in Fibers PROVE (\E l \in Kind, j \in Int : PlacedAt(g, l, j))'
  BY DEF PlaceInv
<1>1. PICK l \in Kind, j \in Int : PlacedAt(g, l, j)
  BY DEF PlaceInv
<1>2. PlacedAt(g, l, j)'
  BY <1>1 DEF PlacedAt, SameFor
<1>3. QED BY <1>2

-----------------------------------------------------------------------------
(* Types                                                                   *)

\* Every step of run() preserves types; cur[p] is a fiber where it is put
\* back (CurInv).
LEMMA LoopTypeOK ==
  ASSUME TypeOK, CurInv, NEW p \in Procs, LoopStep(p)
  PROVE  TypeOK'
<1> USE DEF TypeOK, Goto, ProcPC, fiberVars, procVars, sharedVars, schedVars, wakeVars
<1>1. CASE Fetch(p)
  <2>1. CASE que[p] # <<>>
    <3>1. PICK h \in Fibers, t \in Seq(Fibers) : h = Head(que[p]) /\ t = Tail(que[p])
      BY <2>1, HeadTailProperties
    <3>2. /\ cur' = [cur EXCEPT ![p] = h] /\ que' = [que EXCEPT ![p] = t]
          /\ pc' = [pc EXCEPT ![p] = "isHold"]
          /\ UNCHANGED <<fiberVars, victim, loot, payLoad, sem, stopping,
                         schedVars, wakeVars, call>>
      BY <1>1, <2>1, <3>1 DEF Fetch
    <3>3. QED BY <3>2
  <2>2. CASE que[p] = <<>>
    BY <1>1, <2>2 DEF Fetch
  <2>3. QED BY <2>1, <2>2
<1>2. CASE CheckHold(p) BY <1>2 DEF CheckHold, CheckState
<1>3. CASE CheckReady(p) BY <1>3 DEF CheckReady, CheckState
<1>4. CASE CheckExec(p) \/ SwappedReady(p)
  <2>1. cur[p] \in Fibers
    BY <1>4 DEF CheckExec, SwappedReady, CurInv, HasCur
  <2>2. PICK s \in Seq(Fibers) : s = Append(que[p], cur[p])
    <3>1. que[p] \in Seq(Fibers)
      OBVIOUS
    <3>2. Append(que[p], cur[p]) \in Seq(Fibers)
      BY <2>1, <3>1, AppendFacts
    <3>3. QED BY <3>2
  <2>3. CASE PutBack(p)
    <3>1. que' = [que EXCEPT ![p] = s] /\ cur' = [cur EXCEPT ![p] = NoFiber]
      BY <2>2, <2>3 DEF PutBack
    <3>2. /\ pc' \in [Procs -> ProcPC]
          /\ UNCHANGED <<fiberVars, victim, loot, payLoad, sem, stopping,
                         schedVars, wakeVars, call>>
      BY <1>4 DEF CheckExec, SwappedReady
    <3>3. QED BY <3>1, <3>2
  <2>4. CASE ~PutBack(p)
    <3>1. pc' = [pc EXCEPT ![p] = "setReady"] /\ UNCHANGED <<que, cur>>
      BY <1>4, <2>4 DEF CheckExec, SwappedReady
    <3>2. UNCHANGED <<fiberVars, victim, loot, payLoad, sem, stopping,
                         schedVars, wakeVars, call>>
      BY <1>4 DEF CheckExec, SwappedReady
    <3>3. QED BY <3>1, <3>2
  <2>5. QED BY <2>3, <2>4
<1>5. CASE SetReady(p) BY <1>5 DEF SetReady, FiberState
<1>6. CASE SwapIn(p) BY <1>6 DEF SwapIn, FiberState
<1>7. CASE Jump(p) BY <1>7 DEF Jump, CurInv, HasCur
<1>8. CASE SwappedExec(p) BY <1>8 DEF SwappedExec, FiberState
<1>9. CASE SwappedDone(p) BY <1>9 DEF SwappedDone
<1>10. CASE Unload(p) BY <1>10 DEF Unload
<1>11. CASE Uncount(p) BY <1>11 DEF Uncount
<1>12. CASE Balance(p) BY <1>12 DEF Balance
<1>13. CASE Steal(p)
  <2> DEFINE n == StealCount(payLoad[victim[p]], Len(que[p]))
             a == SubSeq(que[p], 1, n)
             b == SubSeq(que[p], n + 1, Len(que[p]))
  <2>1. payLoad[victim[p]] \in Int /\ que[p] \in Seq(Fibers) /\ Len(que[p]) \in Nat
    BY LenProperties
  <2>2. n \in 0 .. Len(que[p])
    BY <2>1, StealCountRange
  <2> HIDE DEF n
  <2>3. a \in Seq(Fibers) /\ b \in Seq(Fibers)
    BY <2>1, <2>2, CutSeq
  <2> HIDE DEF a, b
  <2>4. /\ loot' = [loot EXCEPT ![p] = a] /\ que' = [que EXCEPT ![p] = b]
        /\ payLoad' = [payLoad EXCEPT ![p] = @ - n]
        /\ victim' = [victim EXCEPT ![p] = p] /\ pc' = [pc EXCEPT ![p] = "store"]
        /\ UNCHANGED <<fiberVars, cur, sem, stopping, schedVars, wakeVars, call>>
    BY <1>13 DEF Steal, n, a, b
  <2>5. n \in Int
    BY <2>1, <2>2
  <2>6. QED BY <2>3, <2>4, <2>5
<1>14. CASE Store(p)
  <2>1. que[p] \in Seq(Fibers) /\ loot[p] \in Seq(Fibers) /\ <<>> \in Seq(Fibers)
    OBVIOUS
  <2>2. que[p] \o loot[p] \in Seq(Fibers) /\ Len(loot[p]) \in Nat
    BY <2>1, ConcatProperties, LenProperties
  <2>3. PICK s \in Seq(Fibers) : s = que[p] \o loot[p]
    BY <2>2
  <2>4. PICK k \in Nat : k = Len(loot[p])
    BY <2>2
  <2>5. /\ que' = [que EXCEPT ![p] = s] /\ payLoad' = [payLoad EXCEPT ![p] = @ + k]
        /\ loot' = [loot EXCEPT ![p] = <<>>] /\ pc' \in [Procs -> ProcPC]
        /\ UNCHANGED <<fiberVars, cur, victim, sem, stopping, schedVars,
                       wakeVars, call>>
    BY <1>14, <2>3, <2>4 DEF Store
  <2>6. QED BY <2>1, <2>5
<1>15. CASE CheckTotal(p) BY <1>15 DEF CheckTotal, StopRead
<1>16. CASE CheckEmpty(p) BY <1>16 DEF CheckEmpty, StopRead
<1>17. CASE ExitCheck1(p) BY <1>17 DEF ExitCheck1, StopRead
<1>18. CASE ExitCheck2(p) BY <1>18 DEF ExitCheck2
<1>19. CASE WaitForNotify(p) BY <1>19, ConstantsAssumption DEF WaitForNotify
<1> QED BY <1>1, <1>2, <1>3, <1>4, <1>5, <1>6, <1>7, <1>8, <1>9, <1>10, <1>11,
          <1>12, <1>13, <1>14, <1>15, <1>16, <1>17, <1>18, <1>19 DEF LoopStep

\* A fiber that gives up its processer (yield, end, block, sleep) keeps types.
LEMMA LeaveTypeOK ==
  ASSUME TypeOK, CurInv, NEW p \in Procs, LeaveStep(p)
  PROVE  TypeOK'
<1> USE DEF TypeOK, Goto, ProcPC, Running, CurInv, HasCur, FiberState, fiberVars,
            procVars, sharedVars, schedVars, wakeVars
<1>1. CASE YieldToReady(p) BY <1>1 DEF YieldToReady
<1>2. CASE Finish(p) BY <1>2 DEF Finish
<1>3. CASE BlockHeld(p) BY <1>3 DEF BlockHeld
<1>4. CASE Sleep(p) BY <1>4 DEF Sleep
<1> QED BY <1>1, <1>2, <1>3, <1>4 DEF LeaveStep

-----------------------------------------------------------------------------
(* Two processers never both own the fiber they hold.                      *)

\* No fiber is in the hand of two processers: a fiber has one place.
LEMMA InHandUnique ==
  ASSUME PlaceInv, NEW p \in Procs, NEW q \in Procs, NEW f \in Fibers,
         InHand(f, p), InHand(f, q)
  PROVE  p = q
BY DEF PlaceInv, PlacedAt

\* While p checks a fiber that is not EXEC, nobody else may touch it, and its
\* context is saved: the reason the loop of lines 175-184 is safe.
LEMMA CheckedIsFree ==
  ASSUME Inv, NEW p \in Procs, pc[p] \in {"isHold", "isReady", "isExec"},
         state[cur[p]] # "EXEC"
  PROVE  /\ cur[p] \in saved
         /\ \A q \in Procs : Exclusive(q) => cur[q] # cur[p]
<1>0. cur[p] \in Fibers /\ cur[p] # NoFiber
  BY ConstantsAssumption DEF Inv, CurInv, HasCur
<1>1. InHand(cur[p], p)
  BY <1>0 DEF InHand, Owns
<1>2. ASSUME NEW q \in Procs, Exclusive(q), cur[q] = cur[p] PROVE FALSE
  <2>1. state[cur[q]] # "EXEC"
    BY <1>2
  <2>2. InHand(cur[p], q)
    BY <1>0, <1>2, <2>1 DEF InHand, Owns
  <2>3. p = q
    BY <1>0, <1>1, <2>2, InHandUnique DEF Inv
  <2>4. QED BY <1>2, <2>3 DEF Exclusive
<1>3. cur[p] \in saved
  BY <1>0, <1>2 DEF Inv, SavedInv, Exclusive
<1>4. QED BY <1>2, <1>3

\* The steps of run() between two fibers.
QuietLoop(p) ==
  \/ Unload(p) \/ Uncount(p) \/ Balance(p) \/ Steal(p) \/ Store(p)
  \/ CheckTotal(p) \/ CheckEmpty(p) \/ ExitCheck1(p) \/ ExitCheck2(p)
  \/ WaitForNotify(p)

HandPC == {"isHold", "isReady", "isExec", "setReady", "swapIn", "run", "jump", "swapped"}

\* The steps between two fibers touch no fiber and take none into the hand.
LEMMA QuietEffect ==
  ASSUME NEW p \in Procs, QuietLoop(p)
  PROVE  /\ pc[p] \notin HandPC
         /\ \E t \in ProcPC \ HandPC : pc' = [pc EXCEPT ![p] = t]
         /\ UNCHANGED <<state, saved, cur, call, fresh, held, timed>>
<1> USE DEF Goto, ProcPC, HandPC, fiberVars, procVars, sharedVars, schedVars, wakeVars
<1>1. CASE Unload(p) BY <1>1 DEF Unload
<1>2. CASE Uncount(p) BY <1>2 DEF Uncount
<1>3. CASE Balance(p) BY <1>3 DEF Balance
<1>4. CASE Steal(p) BY <1>4 DEF Steal
<1>5. CASE Store(p) BY <1>5 DEF Store
<1>6. CASE CheckTotal(p) BY <1>6 DEF CheckTotal, StopRead
<1>7. CASE CheckEmpty(p) BY <1>7 DEF CheckEmpty, StopRead
<1>8. CASE ExitCheck1(p) BY <1>8 DEF ExitCheck1, StopRead
<1>9. CASE ExitCheck2(p) BY <1>9 DEF ExitCheck2
<1>10. CASE WaitForNotify(p) BY <1>10 DEF WaitForNotify
<1> QED BY <1>1, <1>2, <1>3, <1>4, <1>5, <1>6, <1>7, <1>8, <1>9, <1>10 DEF QuietLoop

\* What the threads know of the fibers they hold.
CoreInv == CurInv /\ CallInv /\ StateInv /\ SavedInv /\ ExclusiveInv

\* Every step of run() preserves what the threads know of their fibers.
LEMMA LoopCore ==
  ASSUME Inv, NEW p \in Procs, LoopStep(p)
  PROVE  CoreInv'
<1> USE DEF Goto, fiberVars, procVars, sharedVars, schedVars, wakeVars
<1>0. /\ TypeOK /\ CurInv /\ CallInv /\ StateInv /\ SavedInv /\ ExclusiveInv
      /\ NoFiber \notin Fibers /\ pc \in [Procs -> ProcPC]
      /\ state \in [Fibers -> FiberState] /\ cur \in [Procs -> Fibers \cup {NoFiber}]
  BY ConstantsAssumption DEF Inv, TypeOK
<1>1. CASE Fetch(p)
  <2>1. CASE que[p] # <<>>
    <3>1. PICK h \in Fibers : h = Head(que[p])
      BY <1>0, <2>1, HeadTailProperties DEF TypeOK
    <3>2. /\ cur' = [cur EXCEPT ![p] = h] /\ pc' = [pc EXCEPT ![p] = "isHold"]
          /\ pc[p] = "fetch" /\ UNCHANGED <<state, saved, call>>
      BY <1>1, <2>1, <3>1 DEF Fetch
    <3>3. QED BY <1>0, <3>2
          DEF CoreInv, CurInv, CallInv, StateInv, SavedInv, ExclusiveInv, HasCur, Exclusive
  <2>2. CASE que[p] = <<>>
    BY <1>0, <1>1, <2>2
    DEF Fetch, CoreInv, CurInv, CallInv, StateInv, SavedInv, ExclusiveInv, HasCur, Exclusive
  <2>3. QED BY <2>1, <2>2
<1>2. CASE CheckHold(p) \/ CheckReady(p) \/ (CheckExec(p) /\ pc'[p] = "setReady")
  <2>1. PICK t \in {"isReady", "isExec", "setReady"} :
          /\ pc' = [pc EXCEPT ![p] = t] /\ UNCHANGED <<state, saved, call, cur>>
          /\ pc[p] \in {"isHold", "isReady", "isExec"}
          /\ t = "setReady" => state[cur[p]] # "EXEC"
    BY <1>0, <1>2 DEF CheckHold, CheckReady, CheckState, CheckExec
  <2>2. t = "setReady" => /\ cur[p] \in saved
                          /\ \A q \in Procs : Exclusive(q) => cur[q] # cur[p]
    BY <2>1, CheckedIsFree
  <2>3. QED BY <1>0, <2>1, <2>2
        DEF CoreInv, CurInv, CallInv, StateInv, SavedInv, ExclusiveInv, HasCur, Exclusive
<1>3. CASE CheckExec(p) /\ pc'[p] # "setReady"
  <2>1. /\ pc' = [pc EXCEPT ![p] = "fetch"] /\ cur' = [cur EXCEPT ![p] = NoFiber]
        /\ pc[p] = "isExec" /\ UNCHANGED <<state, saved, call>>
    BY <1>0, <1>3 DEF CheckExec, PutBack
  <2>2. QED BY <1>0, <2>1
        DEF CoreInv, CurInv, CallInv, StateInv, SavedInv, ExclusiveInv, HasCur, Exclusive
<1>4. CASE SetReady(p)
  BY <1>0, <1>4
  DEF SetReady, CoreInv, CurInv, CallInv, StateInv, SavedInv, ExclusiveInv, HasCur, Exclusive
<1>5. CASE SwapIn(p)
  BY <1>0, <1>5
  DEF SwapIn, CoreInv, CurInv, CallInv, StateInv, SavedInv, ExclusiveInv, HasCur, Exclusive
<1>6. CASE Jump(p)
  BY <1>0, <1>6
  DEF Jump, CoreInv, CurInv, CallInv, StateInv, SavedInv, ExclusiveInv, HasCur, Exclusive
<1>7. CASE SwappedReady(p)
  <2>1. /\ pc' = [pc EXCEPT ![p] = "fetch"] /\ cur' = [cur EXCEPT ![p] = NoFiber]
        /\ pc[p] = "swapped" /\ state[cur[p]] = "READY" /\ UNCHANGED <<state, saved, call>>
    BY <1>7 DEF SwappedReady, PutBack
  <2>2. QED BY <1>0, <2>1
        DEF CoreInv, CurInv, CallInv, StateInv, SavedInv, ExclusiveInv, HasCur, Exclusive
<1>8. CASE SwappedExec(p)
  BY <1>0, <1>8
  DEF SwappedExec, CoreInv, CurInv, CallInv, StateInv, SavedInv, ExclusiveInv, HasCur, Exclusive
<1>9. CASE SwappedDone(p)
  BY <1>0, <1>9
  DEF SwappedDone, CoreInv, CurInv, CallInv, StateInv, SavedInv, ExclusiveInv, HasCur, Exclusive
<1>10. CASE QuietLoop(p)
  <2>1. PICK t \in ProcPC : /\ pc' = [pc EXCEPT ![p] = t] /\ t \notin HandPC
                           /\ UNCHANGED <<state, saved, cur, call>>
    BY <1>10, QuietEffect
  <2>2. pc[p] \notin HandPC
    BY <1>10, QuietEffect
  <2>3. QED BY <1>0, <2>1, <2>2
        DEF CoreInv, CurInv, CallInv, StateInv, SavedInv, ExclusiveInv, HasCur, Exclusive, HandPC
<1> QED BY <1>1, <1>2, <1>3, <1>4, <1>5, <1>6, <1>7, <1>8, <1>9, <1>10
        DEF LoopStep, QuietLoop

\* So does a fiber that gives up its processer: only its own _state changes.
LEMMA LeaveCore ==
  ASSUME Inv, NEW p \in Procs, LeaveStep(p)
  PROVE  CoreInv'
<1> USE DEF Goto, fiberVars, procVars, sharedVars, schedVars, wakeVars
<1>0. /\ TypeOK /\ CurInv /\ CallInv /\ StateInv /\ SavedInv /\ ExclusiveInv
      /\ NoFiber \notin Fibers /\ pc \in [Procs -> ProcPC]
      /\ state \in [Fibers -> FiberState] /\ cur \in [Procs -> Fibers \cup {NoFiber}]
  BY ConstantsAssumption DEF Inv, TypeOK
<1>1. /\ pc' = [pc EXCEPT ![p] = "jump"] /\ pc[p] = "run" /\ call[p].step = "idle"
      /\ UNCHANGED <<saved, cur, call>>
      /\ \E s \in {"READY", "TERM", "EXCEPT", "EXEC"} : state' = [state EXCEPT ![cur[p]] = s]
  <2>1. state[cur[p]] = "EXEC" /\ pc[p] = "run" /\ cur[p] \in Fibers
    BY <1>0 DEF StateInv, LeaveStep, YieldToReady, Finish, BlockHeld, Sleep, CurInv, HasCur
  <2>2. state = [state EXCEPT ![cur[p]] = "EXEC"]
    BY <1>0, <2>1
  <2>3. CASE YieldToReady(p) BY <2>3 DEF YieldToReady, Running, NoCall
  <2>4. CASE Finish(p)
    <3>1. PICK s \in {"EXCEPT", "TERM"} : s = IF cur[p] \in Throwing THEN "EXCEPT" ELSE "TERM"
      OBVIOUS
    <3>2. state' = [state EXCEPT ![cur[p]] = s]
      BY <2>4, <3>1 DEF Finish
    <3>3. /\ pc' = [pc EXCEPT ![p] = "jump"] /\ pc[p] = "run" /\ call[p].step = "idle"
          /\ UNCHANGED <<saved, cur, call>>
      BY <2>4 DEF Finish, Running, NoCall
    <3>4. QED BY <3>2, <3>3
  <2>5. CASE BlockHeld(p) BY <2>2, <2>5 DEF BlockHeld, Running, NoCall
  <2>6. CASE Sleep(p) BY <2>2, <2>6 DEF Sleep, Running, NoCall
  <2>7. QED BY <2>3, <2>4, <2>5, <2>6 DEF LeaveStep
<1>2. QED BY <1>0, <1>1 DEF CoreInv, CurInv, CallInv, StateInv, SavedInv, ExclusiveInv, HasCur, Exclusive

\* A thread that hands over a fiber touches none of this but its own call.
LEMMA CallCore ==
  ASSUME Inv, NEW c \in Callers, NEW r \in [step : CallStep, fib : Fibers \cup {NoFiber},
                                          tgt : Procs, kind : CallKind],
         call' = [call EXCEPT ![c] = r],
         r.step # "idle" => r.fib \in Fibers, r.step = "idle" => r = NoCall,
         c \in Procs => pc[c] = "run", UNCHANGED <<state, saved, pc, cur>>
  PROVE  CoreInv'
BY DEF Inv, TypeOK, CoreInv, CurInv, CallInv, StateInv, SavedInv, ExclusiveInv, HasCur, Exclusive

\* The start of a hand-over records the fiber in the caller's call.
LEMMA BeginEffect ==
  ASSUME TypeOK, NEW c \in Callers, NEW f \in Fibers, NEW k \in CallKind, Begin(c, f, k)
  PROVE  \E r \in [step : {"count", "push"}, fib : Fibers, tgt : Procs, kind : CallKind] :
           r.fib = f /\ call' = [call EXCEPT ![c] = r]
BY DEF Begin

\* A hand-over keeps its fiber and target until it is over.
LEMMA AdvanceEffect ==
  ASSUME TypeOK, CallInv, NEW c \in Callers, NEW from \in CallStep \ {"idle"},
         NEW to \in CallStep, Advance(c, from, to)
  PROVE  \E r \in [step : CallStep, fib : Fibers \cup {NoFiber}, tgt : Procs, kind : CallKind] :
           /\ call' = [call EXCEPT ![c] = r] /\ r.step = to
           /\ to # "idle" => r.fib = call[c].fib /\ r.tgt = call[c].tgt
           /\ to = "idle" => r = NoCall
           /\ call[c].fib \in Fibers /\ call[c].tgt \in Procs
           /\ c \in Procs => pc[c] = "run"
<1> DEFINE r == IF to = "idle" THEN NoCall ELSE [call[c] EXCEPT !.step = to]
<1>1. call[c] \in [step : CallStep, fib : Fibers \cup {NoFiber}, tgt : Procs, kind : CallKind]
  BY DEF TypeOK
<1>2. r \in [step : CallStep, fib : Fibers \cup {NoFiber}, tgt : Procs, kind : CallKind]
  BY <1>1, ConstantsAssumption DEF NoCall, CallStep, CallKind, Procs
<1>3. r.step = to
  BY <1>1 DEF NoCall
<1>4. call' = [call EXCEPT ![c] = r] /\ call[c].step = from
  BY DEF Advance
<1>5. QED BY <1>1, <1>2, <1>3, <1>4 DEF CallInv

-----------------------------------------------------------------------------
(* Places                                                                  *)

\* What is where excludes every other place.
LEMMA QueuedOnly ==
  ASSUME PlaceInv, NEW f \in Fibers, NEW p \in Procs, Queued(f, p)
  PROVE  PlacedAt(f, "que", p)
BY DEF PlaceInv, PlacedAt, Kind

\* A fiber in a processer's hand is nowhere else.
LEMMA InHandOnly ==
  ASSUME PlaceInv, NEW f \in Fibers, NEW p \in Procs, InHand(f, p)
  PROVE  PlacedAt(f, "cur", p)
BY DEF PlaceInv, PlacedAt, Kind

\* A fiber in a caller's argument, not yet pushed, is nowhere else.
LEMMA CarriedOnly ==
  ASSUME PlaceInv, NEW f \in Fibers, NEW c \in Callers, Carried(f, c)
  PROVE  PlacedAt(f, "call", c)
BY DEF PlaceInv, PlacedAt, Kind

\* Processers and callers are numbered, so a place is a kind and a number.
LEMMA ProcsInt == Procs \subseteq Int /\ Callers \subseteq Int
BY ConstantsAssumption DEF Procs, Callers

\* m_que->getFiber: from the queue into the processer's hand.
LEMMA FetchPlace ==
  ASSUME Inv, NEW p \in Procs, Fetch(p), que[p] # <<>>
  PROVE  QueueInv' /\ PlaceInv'
<1>0. /\ que \in [Procs -> Seq(Fibers)] /\ pc \in [Procs -> ProcPC]
      /\ cur \in [Procs -> Fibers \cup {NoFiber}] /\ NoFiber \notin Fibers
      /\ CurInv /\ QueueInv /\ PlaceInv
  BY ConstantsAssumption DEF Inv, TypeOK
<1>1. NoDup(que[p]) /\ que[p] \in Seq(Fibers)
  BY <1>0 DEF QueueInv
<1> PICK h \in Fibers, t \in Seq(Fibers) : h = Head(que[p]) /\ t = Tail(que[p])
  BY <1>1, TailFacts
<1>2. /\ InSeq(h, que[p]) /\ NoDup(t)
      /\ \A f : InSeq(f, t) <=> InSeq(f, que[p]) /\ f # h
  BY <1>1, TailFacts
<1>3. /\ cur' = [cur EXCEPT ![p] = h] /\ que' = [que EXCEPT ![p] = t]
      /\ pc[p] = "fetch" /\ pc' = [pc EXCEPT ![p] = "isHold"]
      /\ UNCHANGED <<state, loot, fresh, held, timed, call>>
  BY DEF Fetch, Goto, fiberVars, wakeVars
<1>4. loot[p] = <<>> /\ cur[p] = NoFiber
  BY <1>0, <1>3 DEF QueueInv, CurInv, HasCur
<1>5. \A f \in Fibers : ~InSeq(f, loot[p])
  BY <1>4, EmptyFacts
<1>6. QueueInv'
  BY <1>0, <1>2, <1>3, <1>4, <1>5 DEF QueueInv
<1>7. PlacedAt(h, "que", p)
  BY <1>0, <1>2, QueuedOnly DEF Queued
<1>8. PlacedAt(h, "cur", p)'
  <2>1. ~Finished(h)'
    BY <1>0, <1>3 DEF Finished
  <2>2. \A q \in Procs : ~Queued(h, q)'
    BY <1>0, <1>2, <1>3, <1>5, <1>7 DEF Queued, PlacedAt
  <2>3. \A q \in Procs : InHand(h, q)' <=> q = p
    BY <1>0, <1>2, <1>3, <1>7 DEF InHand, Owns, PlacedAt
  <2>4. \A c \in Callers : ~Carried(h, c)'
    BY <1>3, <1>7 DEF Carried, PlacedAt
  <2>5. QED BY <1>3, <1>7, <2>1, <2>2, <2>3, <2>4 DEF PlacedAt
<1>9. ASSUME NEW g \in Fibers \ {h} PROVE SameFor(g)
  <2>1. Finished(g)' <=> Finished(g)
    BY <1>0, <1>3, <1>4 DEF Finished
  <2>2. \A q \in Procs : Queued(g, q)' <=> Queued(g, q)
    BY <1>0, <1>2, <1>3 DEF Queued
  <2>3. \A q \in Procs : InHand(g, q)' <=> InHand(g, q)
    BY <1>0, <1>3, <1>4 DEF InHand, Owns
  <2>4. \A c \in Callers : Carried(g, c)' <=> Carried(g, c)
    BY <1>3 DEF Carried
  <2>5. QED BY <1>3, <2>1, <2>2, <2>3, <2>4 DEF SameFor
<1>10. PlaceInv'
  BY <1>0, <1>2, <1>8, <1>9, MovePlace, ProcsInt DEF Kind
<1>11. QED BY <1>6, <1>10

\* m_que->addFiber(fiber): from the processer's hand to its queue's end.
LEMMA PutBackPlace ==
  ASSUME Inv, NEW p \in Procs, PutBack(p), Owns(p), cur[p] \in Fibers,
         pc[p] \in {"isExec", "swapped"}, pc' = [pc EXCEPT ![p] = "fetch"],
         pc[p] = "swapped" => state[cur[p]] = "READY",
         pc[p] = "isExec" => state[cur[p]] = "EXEC",
         UNCHANGED <<state, loot, fresh, held, timed, call>>
  PROVE  QueueInv' /\ PlaceInv'
<1> PICK f \in Fibers : f = cur[p]
  OBVIOUS
<1>0. /\ que \in [Procs -> Seq(Fibers)] /\ pc \in [Procs -> ProcPC]
      /\ cur \in [Procs -> Fibers \cup {NoFiber}] /\ NoFiber \notin Fibers
      /\ CurInv /\ QueueInv /\ PlaceInv
  BY ConstantsAssumption DEF Inv, TypeOK
<1>1. PlacedAt(f, "cur", p)
  BY <1>0, InHandOnly DEF InHand
<1>2. ~InSeq(f, que[p]) /\ \A q \in Procs : ~Queued(f, q)
  BY <1>1 DEF PlacedAt, Queued
<1>3. NoDup(que[p]) /\ que[p] \in Seq(Fibers)
  BY <1>0 DEF QueueInv
<1>3a. Append(que[p], f) \in Seq(Fibers)
  BY <1>3, AppendFacts
<1> PICK s \in Seq(Fibers) : s = Append(que[p], f)
  BY <1>3a
<1>4. NoDup(s) /\ \A g : InSeq(g, s) <=> InSeq(g, que[p]) \/ g = f
  BY <1>2, <1>3, AppendFacts
<1>5. que' = [que EXCEPT ![p] = s] /\ cur' = [cur EXCEPT ![p] = NoFiber]
  BY DEF PutBack
<1>6. state[f] \notin {"TERM", "EXCEPT"}
  OBVIOUS
<1>7. loot[p] = <<>> /\ \A g \in Fibers : ~InSeq(g, loot[p])
  BY <1>0, EmptyFacts DEF QueueInv
<1>8. QueueInv'
  BY <1>0, <1>4, <1>5, <1>7 DEF QueueInv
<1>9. PlacedAt(f, "que", p)'
  <2>1. ~Finished(f)'
    BY <1>6 DEF Finished
  <2>2. \A q \in Procs : Queued(f, q)' <=> q = p
    BY <1>0, <1>2, <1>4, <1>5 DEF Queued
  <2>3. \A q \in Procs : ~InHand(f, q)'
    BY <1>0, <1>1, <1>5 DEF InHand, Owns, PlacedAt
  <2>4. \A c \in Callers : ~Carried(f, c)'
    BY <1>1 DEF Carried, PlacedAt
  <2>5. QED BY <1>1, <2>1, <2>2, <2>3, <2>4 DEF PlacedAt
<1>10. ASSUME NEW g \in Fibers \ {f} PROVE SameFor(g)
  <2>1. Finished(g)' <=> Finished(g)
    BY <1>0, <1>5 DEF Finished
  <2>2. \A q \in Procs : Queued(g, q)' <=> Queued(g, q)
    BY <1>0, <1>4, <1>5 DEF Queued
  <2>3. \A q \in Procs : InHand(g, q)' <=> InHand(g, q)
    BY <1>0, <1>5 DEF InHand, Owns
  <2>4. \A c \in Callers : Carried(g, c)' <=> Carried(g, c)
    BY DEF Carried
  <2>5. QED BY <2>1, <2>2, <2>3, <2>4 DEF SameFor
<1>11. PlaceInv'
  BY <1>0, <1>9, <1>10, MovePlace, ProcsInt DEF Kind
<1>12. QED BY <1>8, <1>11

\* A step of the processer that keeps its fiber in hand.
LEMMA HandPlace ==
  ASSUME Inv, NEW p \in Procs, NEW f \in Fibers, cur[p] = f, pc[p] \in HandPC,
         NEW t \in HandPC, NEW s \in FiberState,
         pc' = [pc EXCEPT ![p] = t], state' = [state EXCEPT ![f] = s],
         s = state[f] \/ Exclusive(p), Owns(p)' <=> Owns(p),
         UNCHANGED <<cur, que, loot, fresh, held, timed, call>>
  PROVE  QueueInv' /\ PlaceInv'
<1>0. /\ pc \in [Procs -> ProcPC] /\ state \in [Fibers -> FiberState]
      /\ ExclusiveInv /\ QueueInv /\ PlaceInv
  BY DEF Inv, TypeOK
<1>1. QueueInv'
  BY <1>0 DEF QueueInv, HandPC
<1>2. ASSUME NEW g \in Fibers PROVE SameFor(g)
  <2>1. Finished(g)' <=> Finished(g)
    BY <1>0 DEF Finished
  <2>2. \A q \in Procs : Queued(g, q)' <=> Queued(g, q)
    BY DEF Queued
  <2>3. \A q \in Procs : InHand(g, q)' <=> InHand(g, q)
    BY <1>0 DEF InHand, Owns, ExclusiveInv, Exclusive
  <2>4. \A c \in Callers : Carried(g, c)' <=> Carried(g, c)
    BY DEF Carried
  <2>5. QED BY <2>1, <2>2, <2>3, <2>4 DEF SameFor
<1>3. QED BY <1>0, <1>1, <1>2, KeepPlace

\* Registering with a waker: from the processer's hand to held or timed.
LEMMA RegisterPlace ==
  ASSUME Inv, NEW p \in Procs, BlockHeld(p) \/ Sleep(p)
  PROVE  QueueInv' /\ PlaceInv'
<1>0. /\ pc \in [Procs -> ProcPC] /\ cur \in [Procs -> Fibers \cup {NoFiber}]
      /\ NoFiber \notin Fibers /\ CurInv /\ StateInv /\ QueueInv /\ PlaceInv
  BY ConstantsAssumption DEF Inv, TypeOK
<1>1. /\ pc[p] = "run" /\ pc' = [pc EXCEPT ![p] = "jump"]
      /\ UNCHANGED <<state, cur, que, loot, fresh, call>>
  BY DEF BlockHeld, Sleep, Goto, fiberVars, sharedVars
<1> PICK f \in Fibers : f = cur[p]
  BY <1>0, <1>1 DEF CurInv, HasCur
<1>2. state[f] = "EXEC" /\ InHand(f, p)
  BY <1>0, <1>1 DEF StateInv, InHand, Owns
<1>3. PlacedAt(f, "cur", p)
  BY <1>0, <1>2, InHandOnly
<1> PICK k \in {"held", "timed"} :
      /\ held' = IF k = "held" THEN held \cup {f} ELSE held
      /\ timed' = IF k = "timed" THEN timed \cup {f} ELSE timed
  BY DEF BlockHeld, Sleep
<1>4. QueueInv'
  BY <1>0, <1>1 DEF QueueInv
<1>5. PlacedAt(f, k, 0)'
  <2>1. ~Finished(f)'
    BY <1>1, <1>2 DEF Finished
  <2>2. \A q \in Procs : ~Queued(f, q)' /\ ~InHand(f, q)'
    BY <1>0, <1>1, <1>2, <1>3 DEF Queued, InHand, Owns, PlacedAt
  <2>3. \A c \in Callers : ~Carried(f, c)'
    BY <1>1, <1>3 DEF Carried, PlacedAt
  <2>4. QED BY <1>1, <1>3, <2>1, <2>2, <2>3 DEF PlacedAt
<1>6. ASSUME NEW g \in Fibers \ {f} PROVE SameFor(g)
  <2>1. Finished(g)' <=> Finished(g)
    BY <1>1 DEF Finished
  <2>2. \A q \in Procs : Queued(g, q)' <=> Queued(g, q)
    BY <1>1 DEF Queued
  <2>3. \A q \in Procs : InHand(g, q)' <=> InHand(g, q)
    BY <1>0, <1>1 DEF InHand, Owns
  <2>4. \A c \in Callers : Carried(g, c)' <=> Carried(g, c)
    BY <1>1 DEF Carried
  <2>5. QED BY <1>1, <2>1, <2>2, <2>3, <2>4 DEF SameFor
<1>7. QED BY <1>0, <1>4, <1>5, <1>6, MovePlace DEF Kind

\* Letting go of a blocked fiber: it is already with its waker.
LEMMA SwappedExecPlace ==
  ASSUME Inv, NEW p \in Procs, SwappedExec(p)
  PROVE  QueueInv' /\ PlaceInv'
<1>0. /\ pc \in [Procs -> ProcPC] /\ cur \in [Procs -> Fibers \cup {NoFiber}]
      /\ state \in [Fibers -> FiberState]
      /\ NoFiber \notin Fibers /\ CurInv /\ ExclusiveInv /\ QueueInv /\ PlaceInv
  BY ConstantsAssumption DEF Inv, TypeOK
<1>1. /\ pc[p] = "swapped" /\ pc' = [pc EXCEPT ![p] = "unload"]
      /\ state[cur[p]] = "EXEC" /\ state' = [state EXCEPT ![cur[p]] = "HOLD"]
      /\ cur' = [cur EXCEPT ![p] = NoFiber]
      /\ UNCHANGED <<que, loot, fresh, held, timed, call>>
  BY DEF SwappedExec, Goto, sharedVars, wakeVars
<1> PICK f \in Fibers : f = cur[p]
  BY <1>0, <1>1 DEF CurInv, HasCur
<1>2. QueueInv'
  BY <1>0, <1>1 DEF QueueInv
<1>3. ASSUME NEW g \in Fibers PROVE SameFor(g)
  <2>1. Finished(g)' <=> Finished(g)
    BY <1>0, <1>1 DEF Finished
  <2>2. \A q \in Procs : Queued(g, q)' <=> Queued(g, q)
    BY <1>1 DEF Queued
  <2>3. \A q \in Procs : InHand(g, q)' <=> InHand(g, q)
    BY <1>0, <1>1 DEF InHand, Owns, ExclusiveInv, Exclusive
  <2>4. \A c \in Callers : Carried(g, c)' <=> Carried(g, c)
    BY <1>1 DEF Carried
  <2>5. QED BY <1>1, <2>1, <2>2, <2>3, <2>4 DEF SameFor
<1>4. QED BY <1>0, <1>2, <1>3, KeepPlace

\* Dropping a fiber that ran to its end: nobody else still refers to it.
LEMMA SwappedDonePlace ==
  ASSUME Inv, NEW p \in Procs, SwappedDone(p)
  PROVE  QueueInv' /\ PlaceInv'
<1>0. /\ pc \in [Procs -> ProcPC] /\ cur \in [Procs -> Fibers \cup {NoFiber}]
      /\ NoFiber \notin Fibers /\ CurInv /\ ExclusiveInv /\ QueueInv /\ PlaceInv
  BY ConstantsAssumption DEF Inv, TypeOK
<1>1. /\ pc[p] = "swapped" /\ pc' = [pc EXCEPT ![p] = "uncount"]
      /\ state[cur[p]] \in {"TERM", "EXCEPT"} /\ cur' = [cur EXCEPT ![p] = NoFiber]
      /\ UNCHANGED <<state, que, loot, fresh, held, timed, call>>
  BY DEF SwappedDone, Goto, sharedVars, wakeVars, fiberVars
<1> PICK f \in Fibers : f = cur[p]
  BY <1>0, <1>1 DEF CurInv, HasCur
<1>2. InHand(f, p)
  BY <1>0, <1>1 DEF InHand, Owns
<1>3. PlacedAt(f, "cur", p)
  BY <1>0, <1>2, InHandOnly
<1>4. QueueInv'
  BY <1>0, <1>1 DEF QueueInv
<1>5. PlacedAt(f, "done", 0)'
  <2>1. \A q \in Procs : cur[q] = f => q = p
    BY <1>0, <1>1, <1>3 DEF PlacedAt, InHand, Owns
  <2>2. Finished(f)'
    BY <1>0, <1>1, <2>1 DEF Finished
  <2>3. \A q \in Procs : ~Queued(f, q)' /\ ~InHand(f, q)'
    BY <1>0, <1>1, <1>3, <2>1 DEF Queued, InHand, Owns, PlacedAt
  <2>4. \A c \in Callers : ~Carried(f, c)'
    BY <1>1, <1>3 DEF Carried, PlacedAt
  <2>5. QED BY <1>1, <1>3, <2>2, <2>3, <2>4 DEF PlacedAt
<1>6. ASSUME NEW g \in Fibers \ {f} PROVE SameFor(g)
  <2>1. Finished(g)' <=> Finished(g)
    BY <1>0, <1>1 DEF Finished
  <2>2. \A q \in Procs : Queued(g, q)' <=> Queued(g, q)
    BY <1>1 DEF Queued
  <2>3. \A q \in Procs : InHand(g, q)' <=> InHand(g, q)
    BY <1>0, <1>1 DEF InHand, Owns
  <2>4. \A c \in Callers : Carried(g, c)' <=> Carried(g, c)
    BY <1>1 DEF Carried
  <2>5. QED BY <1>1, <2>1, <2>2, <2>3, <2>4 DEF SameFor
<1>7. QED BY <1>0, <1>4, <1>5, <1>6, MovePlace DEF Kind

\* Between two fibers: balance moves fibers between the queue and its list,
\* the other steps move none.
LEMMA QuietPlace ==
  ASSUME Inv, NEW p \in Procs, QuietLoop(p)
  PROVE  QueueInv' /\ PlaceInv'
<1>0. /\ pc \in [Procs -> ProcPC] /\ que \in [Procs -> Seq(Fibers)]
      /\ loot \in [Procs -> Seq(Fibers)] /\ cur \in [Procs -> Fibers \cup {NoFiber}]
      /\ payLoad \in [Procs -> Int] /\ victim \in [Procs -> Procs]
      /\ NoFiber \notin Fibers /\ CurInv /\ QueueInv /\ PlaceInv
  BY ConstantsAssumption DEF Inv, TypeOK
<1>1. /\ pc[p] \notin HandPC /\ UNCHANGED <<state, cur, call, fresh, held, timed>>
  BY QuietEffect
<1> PICK t \in ProcPC \ HandPC : pc' = [pc EXCEPT ![p] = t]
  BY QuietEffect
<1>2. cur[p] = NoFiber
  BY <1>0, <1>1 DEF CurInv, HasCur, HandPC
<1>3. NoDup(que[p]) /\ NoDup(loot[p]) /\ que[p] \in Seq(Fibers) /\ loot[p] \in Seq(Fibers)
  BY <1>0 DEF QueueInv
<1>4. QueueInv' /\ \A g \in Fibers, q \in Procs : Queued(g, q)' <=> Queued(g, q)
  <2>1. CASE Steal(p)
    <3>1. Len(que[p]) \in Nat /\ payLoad[victim[p]] \in Int
      BY <1>0, <1>3, LenProperties
    <3> PICK n \in 0 .. Len(que[p]) : n = StealCount(payLoad[victim[p]], Len(que[p]))
      BY <3>1, StealCountRange
    <3>2. SubSeq(que[p], 1, n) \in Seq(Fibers) /\ SubSeq(que[p], n + 1, Len(que[p])) \in Seq(Fibers)
      BY <1>3, CutSeq
    <3> PICK a \in Seq(Fibers), b \in Seq(Fibers) :
          a = SubSeq(que[p], 1, n) /\ b = SubSeq(que[p], n + 1, Len(que[p]))
      BY <3>2
    <3>3. /\ NoDup(a) /\ NoDup(b) /\ \A f : ~(InSeq(f, a) /\ InSeq(f, b))
          /\ \A f : InSeq(f, que[p]) <=> InSeq(f, a) \/ InSeq(f, b)
      BY <1>3, SplitFacts
    <3>4. /\ loot' = [loot EXCEPT ![p] = a] /\ que' = [que EXCEPT ![p] = b]
          /\ pc[p] = "steal" /\ pc'[p] = "store"
      BY <1>0, <2>1 DEF Steal, Goto
    <3>5. \A g \in Fibers : ~InSeq(g, loot[p])
      BY <1>0, <3>4, EmptyFacts DEF QueueInv
    <3>6. QueueInv'
      BY <1>0, <3>3, <3>4 DEF QueueInv
    <3>7. QED BY <1>0, <3>3, <3>4, <3>5, <3>6 DEF Queued
  <2>2. CASE Store(p)
    <3>1. ASSUME NEW f PROVE ~(InSeq(f, que[p]) /\ InSeq(f, loot[p]))
      <4>1. InSeq(f, que[p]) => f \in Fibers
        BY <1>3, ElementOfSeq DEF InSeq
      <4>2. QED BY <1>0, <4>1 DEF QueueInv
    <3>2. que[p] \o loot[p] \in Seq(Fibers)
      BY <1>3, <3>1, ConcatFacts
    <3> PICK s \in Seq(Fibers) : s = que[p] \o loot[p]
      BY <3>2
    <3>3. NoDup(s) /\ \A f : InSeq(f, s) <=> InSeq(f, que[p]) \/ InSeq(f, loot[p])
      BY <1>3, <3>1, ConcatFacts
    <3>4. que' = [que EXCEPT ![p] = s] /\ loot' = [loot EXCEPT ![p] = <<>>]
      BY <2>2 DEF Store
    <3>5. QueueInv'
      BY <1>0, <3>3, <3>4, EmptyFacts DEF QueueInv
    <3>6. QED BY <1>0, <3>3, <3>4, <3>5, EmptyFacts DEF Queued
  <2>3. CASE ~Steal(p) /\ ~Store(p)
    <3>1. UNCHANGED <<que, loot>>
      BY <2>3 DEF QuietLoop, Unload, Uncount, Balance, CheckTotal, CheckEmpty, StopRead,
         ExitCheck1, ExitCheck2, WaitForNotify, sharedVars, procVars
    <3>2. pc[p] # "store" /\ t # "store"
      BY <1>0, <2>3 DEF QuietLoop, Unload, Uncount, Balance, CheckTotal, CheckEmpty,
         StopRead, ExitCheck1, ExitCheck2, WaitForNotify, Goto
    <3>3. QED BY <1>0, <3>1, <3>2 DEF QueueInv, Queued
  <2>4. QED BY <2>1, <2>2, <2>3
<1>5. ASSUME NEW g \in Fibers PROVE SameFor(g)
  <2>1. Finished(g)' <=> Finished(g)
    BY <1>1 DEF Finished
  <2>2. \A q \in Procs : InHand(g, q)' <=> InHand(g, q)
    BY <1>0, <1>1, <1>2 DEF InHand, Owns
  <2>3. \A c \in Callers : Carried(g, c)' <=> Carried(g, c)
    BY <1>1 DEF Carried
  <2>4. QED BY <1>1, <1>4, <2>1, <2>2, <2>3 DEF SameFor
<1>6. QED BY <1>0, <1>4, <1>5, KeepPlace

\* Every step of run() leaves every fiber in exactly one place.
LEMMA LoopPlace ==
  ASSUME Inv, NEW p \in Procs, LoopStep(p)
  PROVE  QueueInv' /\ PlaceInv'
<1>0. /\ pc \in [Procs -> ProcPC] /\ cur \in [Procs -> Fibers \cup {NoFiber}]
      /\ state \in [Fibers -> FiberState] /\ NoFiber \notin Fibers
      /\ CurInv /\ StateInv /\ QueueInv /\ PlaceInv
  BY ConstantsAssumption DEF Inv, TypeOK
<1>1. CASE Fetch(p)
  <2>1. CASE que[p] # <<>> BY <1>1, <2>1, FetchPlace
  <2>2. CASE que[p] = <<>>
    <3>1. /\ pc[p] = "fetch" /\ pc' = [pc EXCEPT ![p] = "balance"]
          /\ UNCHANGED <<state, cur, que, loot, fresh, held, timed, call>>
      BY <1>1, <2>2 DEF Fetch, Goto, fiberVars, wakeVars
    <3>2. cur[p] = NoFiber
      BY <1>0, <3>1 DEF CurInv, HasCur
    <3>3. QueueInv'
      BY <1>0, <3>1 DEF QueueInv
    <3>4. ASSUME NEW g \in Fibers PROVE SameFor(g)
      BY <1>0, <3>1, <3>2 DEF SameFor, Finished, Queued, InHand, Owns, Carried
    <3>5. QED BY <1>0, <3>3, <3>4, KeepPlace
  <2>3. QED BY <2>1, <2>2
<1>2. CASE \/ CheckHold(p) \/ CheckReady(p) \/ (CheckExec(p) /\ pc'[p] = "setReady")
           \/ SetReady(p) \/ SwapIn(p) \/ Jump(p)
  <2> PICK f \in Fibers : f = cur[p]
    BY <1>0, <1>2 DEF CheckHold, CheckReady, CheckState, CheckExec, SetReady, SwapIn, Jump,
       Goto, CurInv, HasCur
  <2>1. state = [state EXCEPT ![f] = state[f]] /\ state[f] \in FiberState
    BY <1>0
  <2>2. UNCHANGED <<cur, que, loot, fresh, held, timed, call>> /\ pc[p] \in HandPC
    BY <1>0, <1>2 DEF CheckHold, CheckReady, CheckState, CheckExec, SetReady, SwapIn, Jump,
       Goto, HandPC, sharedVars, wakeVars
  <2>3. PICK t \in HandPC, s \in FiberState :
          /\ pc' = [pc EXCEPT ![p] = t] /\ state' = [state EXCEPT ![f] = s]
          /\ s = state[f] \/ Exclusive(p)
          /\ t \in {"jump", "swapped"} <=> pc[p] \in {"jump", "swapped"}
          /\ t \in {"jump", "swapped"} => s = state[f]
    <3>1. CASE CheckHold(p) \/ CheckReady(p) \/ (CheckExec(p) /\ pc'[p] = "setReady")
      <4>1. PICK t \in {"isReady", "isExec", "setReady"} : pc' = [pc EXCEPT ![p] = t]
        BY <1>0, <3>1 DEF CheckHold, CheckReady, CheckState, CheckExec, Goto
      <4>2. UNCHANGED state /\ pc[p] \in {"isHold", "isReady", "isExec"}
        BY <3>1 DEF CheckHold, CheckReady, CheckState, CheckExec, Goto, fiberVars
      <4>3. QED BY <2>1, <4>1, <4>2 DEF HandPC
    <3>2. CASE SetReady(p)
      BY <3>2 DEF SetReady, Goto, Exclusive, HandPC, FiberState
    <3>3. CASE SwapIn(p)
      BY <3>3 DEF SwapIn, Goto, Exclusive, HandPC, FiberState
    <3>4. CASE Jump(p)
      BY <2>1, <3>4 DEF Jump, Goto, HandPC
    <3>5. QED BY <1>2, <3>1, <3>2, <3>3, <3>4
  <2>4. Owns(p)' <=> Owns(p)
    BY <1>0, <2>2, <2>3 DEF Owns
  <2>5. QED BY <2>2, <2>3, <2>4, HandPlace
<1>3. CASE (CheckExec(p) /\ pc'[p] # "setReady") \/ SwappedReady(p)
  <2>1. /\ PutBack(p) /\ pc[p] \in {"isExec", "swapped"}
        /\ pc' = [pc EXCEPT ![p] = "fetch"]
        /\ pc[p] = "swapped" => state[cur[p]] = "READY"
        /\ pc[p] = "isExec" => state[cur[p]] = "EXEC"
        /\ UNCHANGED <<state, loot, fresh, held, timed, call>>
    BY <1>0, <1>3 DEF CheckExec, SwappedReady, Goto, fiberVars, wakeVars
  <2>2. cur[p] \in Fibers
    BY <1>0, <2>1 DEF CurInv, HasCur
  <2>3. Owns(p)
    BY <1>0, <2>1, <2>2 DEF Owns
  <2>4. QED BY <2>1, <2>2, <2>3, PutBackPlace
<1>4. CASE SwappedExec(p) BY <1>4, SwappedExecPlace
<1>5. CASE SwappedDone(p) BY <1>5, SwappedDonePlace
<1>6. CASE QuietLoop(p) BY <1>6, QuietPlace
<1> QED BY <1>1, <1>2, <1>3, <1>4, <1>5, <1>6 DEF LoopStep, QuietLoop

\* So does a fiber that yields, ends, blocks or goes to sleep.
LEMMA LeavePlace ==
  ASSUME Inv, NEW p \in Procs, LeaveStep(p)
  PROVE  QueueInv' /\ PlaceInv'
<1>0. /\ pc \in [Procs -> ProcPC] /\ cur \in [Procs -> Fibers \cup {NoFiber}]
      /\ NoFiber \notin Fibers /\ CurInv /\ state \in [Fibers -> FiberState]
  BY ConstantsAssumption DEF Inv, TypeOK
<1>1. CASE YieldToReady(p) \/ Finish(p)
  <2>1. /\ pc[p] = "run" /\ pc' = [pc EXCEPT ![p] = "jump"]
        /\ UNCHANGED <<cur, que, loot, fresh, held, timed, call>>
    BY <1>1 DEF YieldToReady, Finish, Goto, sharedVars, wakeVars
  <2> PICK f \in Fibers : f = cur[p]
    BY <1>0, <2>1 DEF CurInv, HasCur
  <2> PICK s \in {"READY", "TERM", "EXCEPT"} : state' = [state EXCEPT ![f] = s]
    <3>1. CASE YieldToReady(p) BY <3>1 DEF YieldToReady
    <3>2. CASE Finish(p)
      <4>1. PICK s \in {"EXCEPT", "TERM"} : s = IF f \in Throwing THEN "EXCEPT" ELSE "TERM"
        OBVIOUS
      <4>2. state' = [state EXCEPT ![f] = s]
        BY <3>2, <4>1 DEF Finish
      <4>3. QED BY <4>2
    <3>3. QED BY <1>1, <3>1, <3>2
  <2>2. Owns(p) /\ Owns(p)'
    BY <1>0, <2>1 DEF Owns
  <2>3. Exclusive(p) /\ pc[p] \in HandPC /\ "jump" \in HandPC /\ s \in FiberState
    BY <2>1 DEF Exclusive, HandPC, FiberState
  <2>4. QED BY <2>1, <2>2, <2>3, HandPlace
<1>2. CASE BlockHeld(p) \/ Sleep(p) BY <1>2, RegisterPlace
<1> QED BY <1>1, <1>2 DEF LeaveStep

-----------------------------------------------------------------------------
(* Handing a fiber over                                                    *)

CallRec == [step : CallStep, fib : Fibers \cup {NoFiber}, tgt : Procs, kind : CallKind]

\* A call begins: the fiber leaves its waker and is carried by the caller.
LEMMA BeginInv ==
  ASSUME Inv, NEW c \in Callers, NEW f \in Fibers, NEW k \in CallKind,
         Begin(c, f, k), CanCall(c), f \in fresh \cup held \cup timed,
         fresh' = fresh \ {f}, held' = held \ {f}, timed' = timed \ {f},
         UNCHANGED <<fiberVars, procVars, sharedVars, stopping, schedVars>>
  PROVE  Inv'
<1> USE DEF fiberVars, procVars, sharedVars, schedVars
<1>0. TypeOK /\ PlaceInv /\ QueueInv /\ call[c] = NoCall /\ call \in [Callers -> CallRec]
  BY DEF Inv, TypeOK, CanCall, CallRec
<1> PICK r \in [step : {"count", "push"}, fib : Fibers, tgt : Procs, kind : CallKind] :
      r.fib = f /\ call' = [call EXCEPT ![c] = r]
  BY <1>0, BeginEffect
<1>1. r \in CallRec /\ r.step \in {"count", "push"}
  BY DEF CallRec, CallStep
<1>2. TypeOK'
  BY <1>0, <1>1 DEF TypeOK, CallRec
<1>3. CoreInv'
  BY <1>1, CallCore DEF CallRec, CanCall
<1>4. QueueInv'
  BY <1>0 DEF QueueInv
<1>5. PICK l \in {"fresh", "held", "timed"}, i \in Int : PlacedAt(f, l, i)
  BY <1>0 DEF PlaceInv, PlacedAt, Kind
<1>6. PlacedAt(f, "call", c)'
  <2>1. ~Finished(f)' /\ \A q \in Procs : ~Queued(f, q)' /\ ~InHand(f, q)'
    BY <1>5 DEF PlacedAt, Finished, Queued, InHand, Owns
  <2>2. \A d \in Callers : Carried(f, d)' <=> d = c
    BY <1>0, <1>1, <1>5 DEF Carried, PlacedAt
  <2>3. QED BY <1>5, <2>1, <2>2 DEF PlacedAt
<1>7. ASSUME NEW g \in Fibers \ {f} PROVE SameFor(g)
  <2>1. \A d \in Callers : Carried(g, d)' <=> Carried(g, d)
    BY <1>0, <1>1 DEF Carried, NoCall
  <2>2. QED BY <2>1 DEF SameFor, Finished, Queued, InHand, Owns
<1>8. PlaceInv'
  BY <1>0, <1>6, <1>7, MovePlace, ProcsInt DEF Kind
<1>9. QED BY <1>2, <1>3, <1>4, <1>8 DEF Inv, CoreInv

\* So do addNewFiber, the activation of a held fiber and a timer that fires.
LEMMA CallBeginInv ==
  ASSUME Inv, NEW c \in Callers, NEW f \in Fibers,
         AddNewFiber(c, f) \/ ActivateFiber(c, f) \/ (c = ReactorT /\ ExpireTimer(f))
  PROVE  Inv'
<1>1. PICK l \in Kind, i \in Int : PlacedAt(f, l, i)
  BY DEF Inv, PlaceInv
<1>2. CASE AddNewFiber(c, f)
  <2>1. fresh' = fresh \ {f} /\ held' = held \ {f} /\ timed' = timed \ {f} /\ f \in fresh
    BY <1>1, <1>2 DEF AddNewFiber, PlacedAt
  <2>2. "new" \in CallKind
    BY DEF CallKind
  <2>3. QED BY <1>2, <2>1, <2>2, BeginInv DEF AddNewFiber
<1>3. CASE ActivateFiber(c, f)
  <2>1. fresh' = fresh \ {f} /\ held' = held \ {f} /\ timed' = timed \ {f} /\ f \in held
    BY <1>1, <1>3 DEF ActivateFiber, PlacedAt
  <2>2. "held" \in CallKind
    BY DEF CallKind
  <2>3. QED BY <1>3, <2>1, <2>2, BeginInv DEF ActivateFiber
<1>4. CASE c = ReactorT /\ ExpireTimer(f)
  <2>1. fresh' = fresh \ {f} /\ held' = held \ {f} /\ timed' = timed \ {f} /\ f \in timed
    BY <1>1, <1>4 DEF ExpireTimer, PlacedAt
  <2>2. "timer" \in CallKind
    BY DEF CallKind
  <2>3. QED BY <1>4, <2>1, <2>2, BeginInv DEF ExpireTimer
<1>5. QED BY <1>2, <1>3, <1>4

\* A timer's fiber goes from fresh to timed.
LEMMA ArmTimerInv ==
  ASSUME Inv, NEW c \in Callers, NEW f \in Fibers, ArmTimer(c, f)
  PROVE  Inv'
<1> USE DEF fiberVars, procVars, sharedVars, schedVars
<1>1. /\ f \in fresh /\ fresh' = fresh \ {f} /\ timed' = timed \cup {f}
      /\ UNCHANGED <<fiberVars, procVars, sharedVars, stopping, schedVars, held, call>>
  BY DEF ArmTimer
<1>2. TypeOK'
  BY <1>1 DEF Inv, TypeOK
<1>3. CoreInv' /\ QueueInv'
  BY <1>1 DEF Inv, CoreInv, CurInv, CallInv, StateInv, SavedInv, ExclusiveInv, QueueInv,
     HasCur, Exclusive
<1>4. PICK l \in Kind, i \in Int : PlacedAt(f, l, i)
  BY DEF Inv, PlaceInv
<1>5. PlacedAt(f, "timed", 0)'
  BY <1>1, <1>4 DEF PlacedAt, Finished, Queued, InHand, Owns, Carried
<1>6. ASSUME NEW g \in Fibers \ {f} PROVE SameFor(g)
  BY <1>1 DEF SameFor, Finished, Queued, InHand, Owns, Carried
<1>7. PlaceInv'
  BY <1>5, <1>6, MovePlace DEF Inv, Kind
<1>8. QED BY <1>2, <1>3, <1>7 DEF Inv, CoreInv

\* m_que->addFiber(fiber) by a caller: the fiber enters the target's queue.
LEMMA PushInv ==
  ASSUME Inv, NEW c \in Callers, PushFiber(c)
  PROVE  Inv'
<1> USE DEF fiberVars, procVars, schedVars, wakeVars
<1>0. TypeOK /\ CallInv /\ PlaceInv /\ QueueInv /\ call \in [Callers -> CallRec]
  BY DEF Inv, TypeOK, CallRec
<1>1. Advance(c, "push", "load") /\ call[c].step = "push"
  BY DEF PushFiber, Advance
<1> PICK r \in CallRec : /\ call' = [call EXCEPT ![c] = r] /\ r.step = "load"
                         /\ r.fib = call[c].fib /\ r.tgt = call[c].tgt
                         /\ call[c].fib \in Fibers /\ call[c].tgt \in Procs
                         /\ c \in Procs => pc[c] = "run"
  BY <1>0, <1>1, AdvanceEffect DEF CallRec, CallStep
<1> PICK f \in Fibers, t \in Procs : f = call[c].fib /\ t = call[c].tgt
  OBVIOUS
<1>2. PlacedAt(f, "call", c)
  BY <1>0, <1>1, CarriedOnly DEF Carried
<1>3. /\ ~InSeq(f, que[t]) /\ ~InSeq(f, loot[t]) /\ NoDup(que[t]) /\ que[t] \in Seq(Fibers)
  BY <1>0, <1>2 DEF PlacedAt, Queued, QueueInv, TypeOK
<1>4. Append(que[t], f) \in Seq(Fibers)
  BY <1>3, AppendFacts
<1> PICK s \in Seq(Fibers) : s = Append(que[t], f)
  BY <1>4
<1>5. NoDup(s) /\ \A g : InSeq(g, s) <=> InSeq(g, que[t]) \/ g = f
  BY <1>3, AppendFacts
<1>6. /\ que' = [que EXCEPT ![t] = s]
      /\ UNCHANGED <<fiberVars, procVars, payLoad, sem, stopping, schedVars, wakeVars>>
  BY DEF PushFiber
<1>7. TypeOK'
  BY <1>0, <1>6 DEF TypeOK, CallRec
<1>8. CoreInv'
  BY <1>6, CallCore DEF CallRec
<1>9. QueueInv'
  BY <1>0, <1>3, <1>5, <1>6 DEF QueueInv, TypeOK
<1>10. PlacedAt(f, "que", t)'
  <2>1. ~Finished(f)' /\ \A q \in Procs : ~InHand(f, q)'
    BY <1>2, <1>6 DEF PlacedAt, Finished, InHand, Owns
  <2>2. \A q \in Procs : Queued(f, q)' <=> q = t
    BY <1>0, <1>2, <1>5, <1>6 DEF Queued, PlacedAt, TypeOK
  <2>3. \A d \in Callers : ~Carried(f, d)'
    BY <1>0, <1>2 DEF Carried, PlacedAt
  <2>4. QED BY <1>2, <1>6, <2>1, <2>2, <2>3 DEF PlacedAt
<1>11. ASSUME NEW g \in Fibers \ {f} PROVE SameFor(g)
  <2>1. \A q \in Procs : Queued(g, q)' <=> Queued(g, q)
    BY <1>0, <1>5, <1>6 DEF Queued, TypeOK
  <2>2. \A d \in Callers : Carried(g, d)' <=> Carried(g, d)
    BY <1>0 DEF Carried
  <2>3. QED BY <1>6, <2>1, <2>2 DEF SameFor, Finished, InHand, Owns
<1>12. PlaceInv'
  BY <1>0, <1>10, <1>11, MovePlace, ProcsInt DEF Kind
<1>13. QED BY <1>7, <1>8, <1>9, <1>12 DEF Inv, CoreInv

\* The other steps of a call move nothing.
LEMMA QuietCallInv ==
  ASSUME Inv, NEW c \in Callers, CountNew(c) \/ AddLoad(c) \/ NotifyProc(c) \/ DelHold(c)
  PROVE  Inv'
<1> USE DEF fiberVars, procVars, sharedVars, schedVars, wakeVars
<1>0. TypeOK /\ CallInv /\ PlaceInv /\ QueueInv /\ call \in [Callers -> CallRec]
  BY DEF Inv, TypeOK, CallRec
<1>1. PICK from \in CallStep \ {"idle"}, to \in CallStep :
        /\ Advance(c, from, to)
        /\ to \in {"count", "push"} <=> from \in {"count", "push"}
  BY DEF CountNew, AddLoad, NotifyProc, DelHold, CallStep
<1>2. PICK r \in CallRec :
           /\ call' = [call EXCEPT ![c] = r] /\ r.step = to
           /\ to # "idle" => r.fib = call[c].fib /\ r.tgt = call[c].tgt
           /\ to = "idle" => r = NoCall
           /\ call[c].fib \in Fibers /\ call[c].tgt \in Procs
           /\ c \in Procs => pc[c] = "run"
  BY <1>0, <1>1, AdvanceEffect DEF CallRec
<1>3. call[c].step = from
  BY <1>1 DEF Advance
<1>4. UNCHANGED <<fiberVars, procVars, que, stopping, currentThread, wakeVars>>
  BY DEF CountNew, AddLoad, NotifyProc, DelHold
<1>5. payLoad' \in [Procs -> Int] /\ sem' \in [Procs -> 0 .. SemCap] /\ total' \in Int /\ hold' \in Int
  <2>1. CASE CountNew(c) BY <1>0, <2>1 DEF CountNew, TypeOK
  <2>2. CASE AddLoad(c) BY <1>0, <1>2, <2>2 DEF AddLoad, TypeOK
  <2>3. CASE NotifyProc(c)
    BY <1>0, <1>2, <2>3, ConstantsAssumption DEF NotifyProc, Post, TypeOK
  <2>4. CASE DelHold(c) BY <1>0, <2>4 DEF DelHold, TypeOK
  <2>5. QED BY <2>1, <2>2, <2>3, <2>4
<1>6. TypeOK'
  BY <1>0, <1>2, <1>4, <1>5 DEF TypeOK, CallRec
<1>7. CoreInv'
  BY <1>2, <1>4, CallCore DEF CallRec
<1>8. QueueInv'
  BY <1>0, <1>4 DEF QueueInv
<1>9. ASSUME NEW g \in Fibers PROVE SameFor(g)
  <2>1. \A d \in Callers : Carried(g, d)' <=> Carried(g, d)
    BY <1>0, <1>1, <1>2, <1>3 DEF Carried, NoCall
  <2>2. QED BY <1>4, <2>1 DEF SameFor, Finished, Queued, InHand, Owns
<1>10. QED BY <1>0, <1>6, <1>7, <1>8, <1>9, KeepPlace DEF Inv, CoreInv

-----------------------------------------------------------------------------
(* The theorems                                                            *)

\* stop() and the dispatcher only post, a stuttering step does nothing.
LEMMA OtherInv ==
  ASSUME Inv, (\E p \in Procs : StopProc(p) \/ DispatcherNotify(p)) \/ UNCHANGED vars
  PROVE  Inv'
<1> USE DEF vars, fiberVars, procVars, sharedVars, schedVars, wakeVars
<1>1. UNCHANGED <<fiberVars, procVars, que, payLoad, schedVars, wakeVars, call>>
  BY DEF StopProc, DispatcherNotify
<1>2. sem' \in [Procs -> 0 .. SemCap] /\ stopping' \in [Procs -> BOOLEAN]
  <2>1. ASSUME NEW p \in Procs, Post(p) PROVE sem' \in [Procs -> 0 .. SemCap]
    BY <2>1, ConstantsAssumption DEF Inv, TypeOK, Post
  <2>2. ASSUME NEW p \in Procs, StopProc(p) PROVE stopping' \in [Procs -> BOOLEAN]
    <3>1. stopping \in [Procs -> BOOLEAN] /\ stopping' = [stopping EXCEPT ![p] = TRUE]
      BY <2>2 DEF Inv, TypeOK, StopProc
    <3>2. QED BY <3>1, Zenon
  <2>3. sem \in [Procs -> 0 .. SemCap] /\ stopping \in [Procs -> BOOLEAN]
    BY DEF Inv, TypeOK
  <2>4. QED BY <2>1, <2>2, <2>3 DEF StopProc, DispatcherNotify
<1>3. TypeOK'
  BY <1>1, <1>2 DEF Inv, TypeOK
<1>4. CoreInv' /\ QueueInv'
  BY <1>1 DEF Inv, CoreInv, CurInv, CallInv, StateInv, SavedInv, ExclusiveInv, QueueInv,
     HasCur, Exclusive
<1>5. \A g \in Fibers : SameFor(g)
  BY <1>1 DEF SameFor, Finished, Queued, InHand, Owns, Carried
<1>6. QED BY <1>3, <1>4, <1>5, KeepPlace DEF Inv, CoreInv

\* Every step of the system preserves the invariant.
LEMMA NextInv == Inv /\ [Next]_vars => Inv'
<1> SUFFICES ASSUME Inv, [Next]_vars PROVE Inv'
  OBVIOUS
<1>1. ASSUME NEW p \in Procs, LoopStep(p) PROVE Inv'
  BY <1>1, LoopTypeOK, LoopCore, LoopPlace DEF Inv, CoreInv
<1>2. ASSUME NEW p \in Procs, LeaveStep(p) PROVE Inv'
  BY <1>2, LeaveTypeOK, LeaveCore, LeavePlace DEF Inv, CoreInv
<1>3. ASSUME NEW c \in Callers, CallBegin(c) PROVE Inv'
  BY <1>3, CallBeginInv, ArmTimerInv DEF CallBegin
<1>4. ASSUME NEW c \in Callers, CallStepOf(c) PROVE Inv'
  BY <1>4, PushInv, QuietCallInv DEF CallStepOf
<1>5. ASSUME NEW f \in Fibers, ExpireTimer(f) PROVE Inv'
  <2>1. ReactorT \in Callers
    BY ConstantsAssumption DEF ReactorT, Callers
  <2>2. QED BY <1>5, <2>1, CallBeginInv
<1>6. CASE (\E p \in Procs : StopProc(p) \/ DispatcherNotify(p)) \/ UNCHANGED vars
  BY <1>6, OtherInv
<1>7. QED BY <1>1, <1>2, <1>3, <1>4, <1>5, <1>6 DEF Next, ProcNext, AtRest

\* The inductive invariant holds in every reachable state: with any number of
\* processers and fibers, each thread's view of the fibers it holds is right.
THEOREM InvHolds == Spec => []Inv
BY InitInv, NextInv, PTL DEF Spec

\* Every queue, load, semaphore and call stays within its type, whatever the
\* number of processers and fibers.
THEOREM TypeCorrect == Spec => []TypeOK
<1>1. Inv => TypeOK BY DEF Inv
<1>2. QED BY <1>1, InvHolds, PTL

\* No fiber ever executes on two processers at once: the EXEC check of
\* Processer.cpp 175-184 suffices for any number of threads.
THEOREM OneRunnerHolds == Spec => []OneRunner
<1>1. Inv => OneRunner
  BY DEF Inv, ExclusiveInv, Exclusive, OneRunner, OnStack
<1>2. QED BY <1>1, InvHolds, PTL

\* swapIn only ever jumps to a completely saved context (Processer.cpp 192).
THEOREM ResumeSavedHolds == Spec => []ResumeSaved
<1>1. Inv => ResumeSaved
  BY DEF Inv, StateInv, ResumeSaved
<1>2. QED BY <1>1, InvHolds, PTL

\* PlacedAt is what OnePlace says.
LEMMA PlacedOnce ==
  ASSUME Inv, NEW f \in Fibers
  PROVE  \E x \in Places(f) : \A y \in Places(f) : y = x
<1>0. /\ que \in [Procs -> Seq(Fibers)] /\ loot \in [Procs -> Seq(Fibers)] /\ QueueInv
  BY DEF Inv, TypeOK
<1>1. \A p \in Procs : DOMAIN que[p] = 1 .. Len(que[p]) /\ DOMAIN loot[p] = 1 .. Len(loot[p])
  BY <1>0, LenProperties
<1> PICK k \in Kind, i \in Int : PlacedAt(f, k, i)
  BY DEF Inv, PlaceInv
<1>2. ASSUME NEW y
      PROVE  y \in Places(f) <=>
        \/ \E p \in Procs : \E j \in DOMAIN que[p] : y = <<"que", p, j>> /\ que[p][j] = f
        \/ \E p \in Procs : \E j \in DOMAIN loot[p] : y = <<"loot", p, j>> /\ loot[p][j] = f
        \/ \E p \in Procs : y = <<"cur", p, 0>> /\ InHand(f, p)
        \/ \E c \in Callers : y = <<"call", c, 0>> /\ Carried(f, c)
        \/ y = <<"fresh", 0, 0>> /\ f \in fresh
        \/ y = <<"held", 0, 0>> /\ f \in held
        \/ y = <<"timed", 0, 0>> /\ f \in timed
        \/ y = <<"done", 0, 0>> /\ Finished(f)
  <2>1. y \in SeqPlaces("que", que, f) <=>
          \E p \in Procs : \E j \in DOMAIN que[p] : y = <<"que", p, j>> /\ que[p][j] = f
    BY DEF SeqPlaces
  <2>2. y \in SeqPlaces("loot", loot, f) <=>
          \E p \in Procs : \E j \in DOMAIN loot[p] : y = <<"loot", p, j>> /\ loot[p][j] = f
    BY DEF SeqPlaces
  <2>3. y \in HandPlaces(f) <=> \E p \in Procs : y = <<"cur", p, 0>> /\ InHand(f, p)
    BY DEF HandPlaces, InHand
  <2>4. y \in CallPlaces(f) <=> \E c \in Callers : y = <<"call", c, 0>> /\ Carried(f, c)
    BY DEF CallPlaces, Carried
  <2>5. /\ y \in SetPlaces("fresh", fresh, f) <=> y = <<"fresh", 0, 0>> /\ f \in fresh
        /\ y \in SetPlaces("held", held, f) <=> y = <<"held", 0, 0>> /\ f \in held
        /\ y \in SetPlaces("timed", timed, f) <=> y = <<"timed", 0, 0>> /\ f \in timed
    BY DEF SetPlaces
  <2>6. y \in SetPlaces("done", {g \in Fibers : Finished(g)}, f)
          <=> y = <<"done", 0, 0>> /\ Finished(f)
    BY DEF SetPlaces
  <2>7. y \in Places(f) <=>
          \/ y \in SeqPlaces("que", que, f) \/ y \in SeqPlaces("loot", loot, f)
          \/ y \in HandPlaces(f) \/ y \in CallPlaces(f)
          \/ y \in SetPlaces("fresh", fresh, f) \/ y \in SetPlaces("held", held, f)
          \/ y \in SetPlaces("timed", timed, f)
          \/ y \in SetPlaces("done", {g \in Fibers : Finished(g)}, f)
    BY Zenon DEF Places
  <2>8. QED BY <2>1, <2>2, <2>3, <2>4, <2>5, <2>6, <2>7, Zenon
<1>3. \A p \in Procs : (\E j \in DOMAIN que[p] : que[p][j] = f) \/ (\E j \in DOMAIN loot[p] : loot[p][j] = f)
                         <=> k = "que" /\ i = p
  BY <1>1 DEF PlacedAt, Queued, InSeq
<1>4. \A p \in Procs : InHand(f, p) <=> k = "cur" /\ i = p
  BY DEF PlacedAt
<1>5. \A c \in Callers : Carried(f, c) <=> k = "call" /\ i = c
  BY DEF PlacedAt
<1>6. /\ f \in fresh <=> k = "fresh"
      /\ f \in held <=> k = "held"
      /\ f \in timed <=> k = "timed"
      /\ Finished(f) <=> k = "done"
  BY DEF PlacedAt
<1>7. CASE k = "que"
  <2> PICK p \in Procs : p = i
    BY <1>7 DEF PlacedAt
  <2>0. /\ NoDup(que[p]) /\ NoDup(loot[p]) /\ ~(InSeq(f, que[p]) /\ InSeq(f, loot[p]))
    BY <1>0 DEF QueueInv
  <2>1. CASE \E j \in DOMAIN que[p] : que[p][j] = f
    <3> PICK j \in DOMAIN que[p] : que[p][j] = f
      BY <2>1
    <3>1. \A l \in DOMAIN que[p] : que[p][l] = f => l = j
      BY <1>1, <2>0 DEF NoDup
    <3>2. \A l \in DOMAIN loot[p] : loot[p][l] # f
      BY <1>1, <2>0 DEF InSeq
    <3>3. <<"que", p, j>> \in Places(f)
      BY <1>2
    <3>4. ASSUME NEW y \in Places(f) PROVE y = <<"que", p, j>>
      BY <1>2, <1>3, <1>4, <1>5, <1>6, <1>7, <3>1, <3>2
    <3>5. QED BY <3>3, <3>4
  <2>2. CASE ~\E j \in DOMAIN que[p] : que[p][j] = f
    <3>0. PICK j \in DOMAIN loot[p] : loot[p][j] = f
      BY <1>3, <1>7, <2>2
    <3>1. \A l \in DOMAIN loot[p] : loot[p][l] = f => l = j
      BY <1>1, <2>0, <3>0 DEF NoDup
    <3>3. <<"loot", p, j>> \in Places(f)
      BY <1>2, <3>0
    <3>4. ASSUME NEW y \in Places(f) PROVE y = <<"loot", p, j>>
      BY <1>2, <1>3, <1>4, <1>5, <1>6, <1>7, <2>2, <3>1
    <3>5. QED BY <3>3, <3>4
  <2>3. QED BY <2>1, <2>2
<1>8. CASE k \in {"cur", "call"}
  <2>1. <<k, i, 0>> \in Places(f)
    BY <1>2, <1>4, <1>5, <1>8 DEF PlacedAt
  <2>2. ASSUME NEW y \in Places(f) PROVE y = <<k, i, 0>>
    BY <1>2, <1>3, <1>4, <1>5, <1>6, <1>8
  <2>3. QED BY <2>1, <2>2
<1>9. CASE k \in {"fresh", "held", "timed", "done"}
  <2>1. <<k, 0, 0>> \in Places(f)
    BY <1>2, <1>6, <1>9
  <2>2. ASSUME NEW y \in Places(f) PROVE y = <<k, 0, 0>>
    BY <1>2, <1>3, <1>4, <1>5, <1>6, <1>9
  <2>3. QED BY <2>1, <2>2
<1>10. QED BY <1>7, <1>8, <1>9 DEF Kind

\* No interleaving of blocking, waking, yielding and balancing loses a fiber
\* or queues it twice.
THEOREM OnePlaceHolds == Spec => []OnePlace
<1>1. Inv => OnePlace
  BY PlacedOnce DEF OnePlace
<1>2. QED BY <1>1, InvHolds, PTL

-----------------------------------------------------------------------------
(* No notify is lost                                                       *)

\* From the moment p has seen its queue empty until it sleeps.
IdlePC == {"balance", "steal", "store", "check1", "empty1", "hold1", "wait"}

Notified(p) ==
  \/ sem[p] > 0
  \/ \E c \in Callers : call[c].tgt = p /\ call[c].step \in {"load", "post"}

WakeInv == \A p \in Procs : pc[p] \in IdlePC /\ que[p] # <<>> => Notified(p)

\* A cut of an empty queue is empty.
LEMMA CutEmpty ==
  ASSUME NEW S, NEW s \in Seq(S), NEW n \in 0 .. Len(s), SubSeq(s, n + 1, Len(s)) # <<>>
  PROVE  s # <<>>
<1>1. CASE s = <<>>
  <2>1. Len(s) = 0 /\ n = 0
    BY <1>1
  <2>2. SubSeq(s, n + 1, Len(s)) = <<>>
    BY <1>1, <2>1
  <2>3. QED BY <2>2
<1>2. QED BY <1>1

\* No step of run() loses a wake-up: it looks at its queue before it waits.
LEMMA LoopWake ==
  ASSUME Inv, WakeInv, NEW p \in Procs, LoopStep(p)
  PROVE  WakeInv'
<1> USE DEF Goto, fiberVars, procVars, sharedVars, schedVars, wakeVars
<1>0. /\ pc \in [Procs -> ProcPC] /\ que \in [Procs -> Seq(Fibers)]
      /\ loot \in [Procs -> Seq(Fibers)] /\ sem \in [Procs -> 0 .. SemCap]
      /\ payLoad \in [Procs -> Int] /\ victim \in [Procs -> Procs]
  BY DEF Inv, TypeOK
<1>1. /\ UNCHANGED call
      /\ \A q \in Procs \ {p} : pc'[q] = pc[q] /\ que'[q] = que[q] /\ sem'[q] = sem[q]
  BY <1>0 DEF LoopStep, Fetch, CheckHold, CheckReady, CheckState, CheckExec, PutBack,
     SetReady, SwapIn, Jump, SwappedReady, SwappedExec, SwappedDone, Unload, Uncount,
     Balance, Steal, Store, CheckTotal, CheckEmpty, StopRead, ExitCheck1, ExitCheck2,
     WaitForNotify
<1>2. \A q \in Procs \ {p} : pc[q] \in IdlePC /\ que'[q] # <<>> => Notified(q)'
  BY <1>1 DEF WakeInv, Notified
<1>3. pc'[p] \in IdlePC /\ que'[p] # <<>> =>
        pc[p] \in IdlePC /\ que[p] # <<>> /\ sem'[p] = sem[p]
  <2>1. CASE Steal(p)
    <3>1. Len(que[p]) \in Nat /\ payLoad[victim[p]] \in Int /\ que[p] \in Seq(Fibers)
      BY <1>0, LenProperties
    <3> PICK n \in 0 .. Len(que[p]) : n = StealCount(payLoad[victim[p]], Len(que[p]))
      BY <3>1, StealCountRange
    <3>2. que'[p] = SubSeq(que[p], n + 1, Len(que[p])) /\ pc[p] = "steal" /\ sem' = sem
      BY <1>0, <2>1 DEF Steal
    <3>3. QED BY <3>1, <3>2, CutEmpty DEF IdlePC
  <2>2. CASE Store(p)
    <3>1. CASE loot[p] = <<>>
      <4>1. que[p] \o loot[p] = que[p]
        BY <1>0, <3>1
      <4>2. que'[p] = que[p] /\ pc[p] = "store" /\ sem' = sem
        BY <1>0, <2>2, <4>1 DEF Store
      <4>3. QED BY <4>2 DEF IdlePC
    <3>2. CASE loot[p] # <<>>
      <4>1. pc'[p] = "fetch"
        BY <1>0, <2>2, <3>2 DEF Store
      <4>2. QED BY <4>1 DEF IdlePC
    <3>3. QED BY <3>1, <3>2
  <2>3. CASE Fetch(p)
    BY <1>0, <2>3 DEF Fetch, IdlePC
  <2>4. CASE CheckHold(p) \/ CheckReady(p) \/ CheckExec(p) \/ SetReady(p) \/ SwapIn(p)
             \/ Jump(p) \/ SwappedReady(p) \/ SwappedExec(p) \/ SwappedDone(p)
    BY <1>0, <2>4 DEF CheckHold, CheckReady, CheckState, CheckExec, SetReady, SwapIn, Jump,
       SwappedReady, SwappedExec, SwappedDone, IdlePC
  <2>5. CASE Unload(p) \/ Uncount(p) \/ Balance(p)
    BY <1>0, <2>5 DEF Unload, Uncount, Balance, IdlePC
  <2>6. CASE CheckTotal(p) \/ CheckEmpty(p) \/ ExitCheck1(p) \/ ExitCheck2(p) \/ WaitForNotify(p)
    BY <1>0, <2>6 DEF CheckTotal, CheckEmpty, StopRead, ExitCheck1, ExitCheck2,
       WaitForNotify, IdlePC
  <2>7. QED BY <2>1, <2>2, <2>3, <2>4, <2>5, <2>6 DEF LoopStep
<1>4. pc'[p] \in IdlePC /\ que'[p] # <<>> => Notified(p)'
  BY <1>1, <1>3 DEF WakeInv, Notified
<1>5. QED BY <1>1, <1>2, <1>4 DEF WakeInv

\* Neither does a fiber that leaves its processer or the dispatcher's notify.
LEMMA OtherWake ==
  ASSUME Inv, WakeInv,
         \/ \E p \in Procs : LeaveStep(p) \/ StopProc(p) \/ DispatcherNotify(p)
         \/ \E c \in Callers : CallBegin(c) \/ CountNew(c) \/ DelHold(c)
         \/ \E f \in Fibers : ExpireTimer(f)
         \/ UNCHANGED vars
  PROVE  WakeInv'
<1> USE DEF Goto, vars, fiberVars, procVars, sharedVars, schedVars, wakeVars
<1>0. /\ pc \in [Procs -> ProcPC] /\ sem \in [Procs -> 0 .. SemCap]
      /\ call \in [Callers -> CallRec] /\ SemCap \in Nat
  BY ConstantsAssumption DEF Inv, TypeOK, CallRec
<1>1. UNCHANGED que /\ \A p \in Procs : pc'[p] \in IdlePC => pc[p] \in IdlePC
  BY <1>0 DEF LeaveStep, YieldToReady, Finish, BlockHeld, Sleep, StopProc, DispatcherNotify,
     CallBegin, AddNewFiber, ArmTimer, ActivateFiber, CountNew, DelHold, ExpireTimer, IdlePC
<1>2. \A p \in Procs : sem[p] > 0 => sem'[p] > 0
  <2>1. UNCHANGED sem \/ \E p \in Procs : Post(p)
    BY DEF LeaveStep, YieldToReady, Finish, BlockHeld, Sleep, StopProc, DispatcherNotify,
       CallBegin, AddNewFiber, ArmTimer, ActivateFiber, CountNew, DelHold, ExpireTimer
  <2>2. QED BY <1>0, <2>1 DEF Post
<1>3. \A c \in Callers : call[c].step \in {"load", "post"} => call'[c] = call[c]
  <2>1. \/ UNCHANGED call
        \/ \E c \in Callers : \E r \in CallRec :
                                    /\ call' = [call EXCEPT ![c] = r]
                                    /\ call[c].step \notin {"load", "post"}
    <3>1. CASE UNCHANGED vars \/ \E p \in Procs : LeaveStep(p) \/ StopProc(p) \/ DispatcherNotify(p)
      BY <3>1 DEF LeaveStep, YieldToReady, Finish, BlockHeld, Sleep, StopProc, DispatcherNotify
    <3>2. ASSUME NEW c \in Callers, CountNew(c) \/ DelHold(c)
          PROVE  \E r \in CallRec : call' = [call EXCEPT ![c] = r] /\ call[c].step \notin {"load", "post"}
      <4>1. PICK from \in CallStep \ {"idle"}, to \in CallStep :
              Advance(c, from, to) /\ from \notin {"load", "post"}
        BY <3>2 DEF CountNew, DelHold, CallStep
      <4>2. call[c].step = from
        BY <4>1 DEF Advance
      <4>3. \E r \in CallRec : call' = [call EXCEPT ![c] = r]
        BY <4>1, AdvanceEffect DEF Inv, CallRec
      <4>4. call[c].step \notin {"load", "post"}
        BY <4>1, <4>2
      <4>5. QED BY <4>3, <4>4
    <3>3. ASSUME NEW c \in Callers, NEW f \in Fibers, NEW k \in CallKind,
                 Begin(c, f, k), CanCall(c)
          PROVE  \E r \in CallRec : call' = [call EXCEPT ![c] = r] /\ call[c].step \notin {"load", "post"}
      <4>1. \E r \in CallRec : call' = [call EXCEPT ![c] = r]
        BY <3>3, BeginEffect DEF Inv, CallRec, CallStep
      <4>2. call[c].step = "idle"
        BY <3>3 DEF CanCall, NoCall
      <4>3. QED BY <4>1, <4>2
    <3>4. ReactorT \in Callers
      BY ConstantsAssumption DEF ReactorT, Callers
    <3>5. QED BY <3>1, <3>2, <3>3, <3>4
          DEF CallBegin, AddNewFiber, ArmTimer, ActivateFiber, ExpireTimer, CallKind
  <2>2. QED BY <1>0, <2>1
<1>4. QED BY <1>1, <1>2, <1>3 DEF WakeInv, Notified

\* push, then ++m_payLoad, then post: the call is the pending notify until
\* the post has happened.
LEMMA CallWake ==
  ASSUME Inv, WakeInv, NEW c \in Callers, PushFiber(c) \/ AddLoad(c) \/ NotifyProc(c)
  PROVE  WakeInv'
<1> USE DEF fiberVars, procVars, schedVars, wakeVars
<1>0. /\ que \in [Procs -> Seq(Fibers)] /\ sem \in [Procs -> 0 .. SemCap] /\ TypeOK /\ CallInv
      /\ call \in [Callers -> CallRec] /\ SemCap \in Nat \ {0} /\ call[c].tgt \in Procs
  BY ConstantsAssumption DEF Inv, TypeOK, CallRec
<1> PICK t \in Procs : t = call[c].tgt
  BY <1>0
<1>1. PICK from \in {"push", "load", "post"}, to \in CallStep :
             /\ Advance(c, from, to)
             /\ from # "post" => to \in {"load", "post"} /\ UNCHANGED sem
             /\ from = "post" => Post(t) /\ UNCHANGED que
  BY DEF PushFiber, AddLoad, NotifyProc, CallStep
<1>2. PICK r \in CallRec : /\ call' = [call EXCEPT ![c] = r] /\ r.step = to
                           /\ to # "idle" => r.tgt = t
  BY <1>0, <1>1, AdvanceEffect DEF CallRec, CallStep
<1>3. UNCHANGED pc /\ \A p \in Procs \ {t} : que'[p] = que[p]
  BY <1>0 DEF PushFiber, AddLoad, NotifyProc
<1>4. Notified(t)'
  <2>1. CASE from = "post"
    BY <1>0, <1>1, <2>1 DEF Post, Notified
  <2>2. CASE from # "post"
    <3>1. call'[c].tgt = t /\ call'[c].step \in {"load", "post"}
      BY <1>0, <1>1, <1>2, <2>2
    <3>2. QED BY <3>1 DEF Notified
  <2>3. QED BY <2>1, <2>2
<1>5. ASSUME NEW p \in Procs, p # t, Notified(p) PROVE Notified(p)'
  <2>1. sem'[p] = sem[p]
    BY <1>0, <1>1, <1>5 DEF Post
  <2>2. \A d \in Callers : call[d].tgt = p => call'[d] = call[d]
    BY <1>0, <1>2, <1>5
  <2>3. QED BY <1>5, <2>1, <2>2 DEF Notified
<1>6. QED BY <1>3, <1>4, <1>5 DEF WakeInv

\* Whenever a processer sleeps with work in its queue, a notify is pending:
\* no interleaving of addFiber with run() loses a wakeup.
THEOREM NoLostWakeupHolds == Spec => []NoLostWakeup
<1>1. Init => WakeInv
  BY DEF Init, WakeInv
<1>2. Inv /\ WakeInv /\ [Next]_vars => WakeInv'
  BY LoopWake, OtherWake, CallWake DEF Next, ProcNext, CallStepOf, AtRest
<1>3. WakeInv => NoLostWakeup
  BY DEF WakeInv, NoLostWakeup, IdlePC, Notified
<1>4. QED BY <1>1, <1>2, <1>3, InvHolds, PTL DEF Spec

-----------------------------------------------------------------------------
(* Counting the fibers                                                     *)

\* addNewFiber(f) has begun and has not counted f yet.
Uncounted(f) == \E c \in Callers : call[c].fib = f /\ call[c].step = "count"

\* The fibers m_totalFibers counts, and the processers that still have to take
\* one off that has ended.
Counted == {f \in Fibers \ fresh : ~Finished(f) /\ ~Uncounted(f)}
Leaving == {p \in Procs : pc[p] = "uncount"}

CountInv == IsFiniteSet(Counted) /\ total = Cardinality(Counted) + Cardinality(Leaving)

\* Of the threads outside the processers only the owner adds new fibers, and
\* it has done so when it stops a processer.
CallerInv ==
  /\ call[ReactorT].step # "count"
  /\ (\E p \in Procs : stopping[p]) => call[Main] = NoCall

ExitPC == {"empty1", "hold1", "empty2", "hold2", "exited"}

\* A processer goes past the test of m_totalFibers when no fiber is left.
ExitInv == \A p \in Procs : pc[p] \in ExitPC => stopping[p] /\ AllFinished

\* There are N processers.
LEMMA LeavingFinite == IsFiniteSet(Leaving)
<1>1. IsFiniteSet(Procs)
  BY FS_Interval, ConstantsAssumption DEF Procs
<1>2. Leaving \in SUBSET Procs
  BY DEF Leaving
<1> QED
  BY <1>1, <1>2, FS_Subset

\* A processer that lets go of a fiber that has not ended, or takes one up,
\* changes nothing about which fibers have ended.
LEMMA LoopFinished ==
  ASSUME Inv, NEW p \in Procs, LoopStep(p), ~SwappedDone(p)
  PROVE  \A f \in Fibers : Finished(f)' <=> Finished(f)
<1> USE DEF Goto, fiberVars, procVars, sharedVars, schedVars, wakeVars
<1>0. /\ cur \in [Procs -> Fibers \cup {NoFiber}] /\ state \in [Fibers -> FiberState]
      /\ NoFiber \notin Fibers /\ CurInv /\ que \in [Procs -> Seq(Fibers)]
  BY ConstantsAssumption DEF Inv, TypeOK
<1>1. CASE UNCHANGED <<state, cur>>
  BY <1>1 DEF Finished
<1>2. CASE /\ cur[p] \in Fibers /\ cur' = [cur EXCEPT ![p] = NoFiber]
           /\ \/ state' = state /\ state[cur[p]] \in {"EXEC", "READY"}
              \/ state' = [state EXCEPT ![cur[p]] = "HOLD"]
  BY <1>0, <1>2 DEF Finished
<1>3. CASE /\ cur[p] \in Fibers /\ cur' = cur
           /\ \E s \in FiberState : state' = [state EXCEPT ![cur[p]] = s]
  BY <1>0, <1>3 DEF Finished
<1>4. CASE Fetch(p)
  <2>1. CASE que[p] # <<>>
    <3>1. /\ Head(que[p]) \in Fibers /\ cur' = [cur EXCEPT ![p] = Head(que[p])]
          /\ state' = state /\ pc[p] = "fetch"
      BY <1>0, <1>4, <2>1, HeadTailProperties DEF Fetch
    <3>2. cur[p] = NoFiber
      BY <1>0, <3>1 DEF CurInv, HasCur
    <3>3. Queued(Head(que[p]), p)
      <4>1. Len(que[p]) \in Nat \ {0} /\ Head(que[p]) = que[p][1]
        BY <1>0, <2>1, EmptySeq
      <4> QED
        BY <4>1 DEF Queued, InSeq
    <3>4. ~Finished(Head(que[p]))
      BY <3>1, <3>3, QueuedOnly DEF Inv, PlacedAt
    <3> QED
      BY <1>0, <3>1, <3>2, <3>4 DEF Finished
  <2> QED
    BY <1>1, <1>4, <2>1 DEF Fetch
<1>5. CASE CheckHold(p) \/ CheckReady(p) \/ Jump(p)
  BY <1>1, <1>5 DEF CheckHold, CheckReady, CheckState, Jump
<1>6. CASE CheckExec(p)
  <2>1. cur[p] \in Fibers
    BY <1>0, <1>6 DEF CheckExec, CurInv, HasCur
  <2> QED
    BY <1>1, <1>2, <1>6, <2>1 DEF CheckExec, PutBack
<1>7. CASE SetReady(p) \/ SwapIn(p)
  <2>1. cur[p] \in Fibers
    BY <1>0, <1>7 DEF SetReady, SwapIn, CurInv, HasCur
  <2> QED
    BY <1>3, <1>7, <2>1 DEF SetReady, SwapIn, FiberState
<1>8. CASE SwappedReady(p) \/ SwappedExec(p)
  <2>1. cur[p] \in Fibers
    BY <1>0, <1>8 DEF SwappedReady, SwappedExec, CurInv, HasCur
  <2> QED
    BY <1>2, <1>8, <2>1 DEF SwappedReady, SwappedExec, PutBack
<1>9. CASE QuietLoop(p)
  BY <1>1, <1>9, QuietEffect
<1> QED
  BY <1>4, <1>5, <1>6, <1>7, <1>8, <1>9 DEF LoopStep, QuietLoop

\* A fiber that ends is still in its processer's hand.
LEMMA LeaveFinished ==
  ASSUME Inv, NEW p \in Procs, LeaveStep(p)
  PROVE  \A f \in Fibers : Finished(f)' <=> Finished(f)
<1>0. /\ cur \in [Procs -> Fibers \cup {NoFiber}] /\ state \in [Fibers -> FiberState]
      /\ NoFiber \notin Fibers /\ cur' = cur
  BY ConstantsAssumption DEF Inv, TypeOK, LeaveStep, YieldToReady, Finish, BlockHeld, Sleep
<1>1. \/ state' = state \/ state' = [state EXCEPT ![cur[p]] = "READY"]
      \/ \E s \in {"EXCEPT", "TERM"} : state' = [state EXCEPT ![cur[p]] = s]
  BY DEF LeaveStep, YieldToReady, Finish, BlockHeld, Sleep, fiberVars
<1> QED
  BY <1>0, <1>1 DEF Finished

\* The other threads touch no fiber's state.
LEMMA OtherFinished ==
  ASSUME \/ \E c \in Callers : CallBegin(c) \/ CallStepOf(c)
         \/ \E f \in Fibers : ExpireTimer(f)
         \/ \E p \in Procs : StopProc(p) \/ DispatcherNotify(p)
         \/ UNCHANGED vars
  PROVE  UNCHANGED <<state, cur, pc>>
BY DEF CallBegin, AddNewFiber, ArmTimer, ActivateFiber, ExpireTimer, CallStepOf, CountNew,
   PushFiber, AddLoad, NotifyProc, DelHold, StopProc, DispatcherNotify, vars, fiberVars, procVars

\* A fiber that has ended stays so.
LEMMA FinishedStays ==
  ASSUME Inv, [Next]_vars, NEW f \in Fibers, Finished(f)
  PROVE  Finished(f)'
<1>1. ASSUME NEW p \in Procs, SwappedDone(p) PROVE Finished(f)'
  BY <1>1, ConstantsAssumption DEF SwappedDone, fiberVars, Finished, Inv, TypeOK
<1>2. CASE UNCHANGED <<state, cur>>
  BY <1>2 DEF Finished
<1> QED
  BY <1>1, <1>2, LoopFinished, LeaveFinished, OtherFinished DEF Next, ProcNext, AtRest

\* What a thread that hands over a fiber changes of the calls.
LEMMA BeginCounted ==
  ASSUME Inv, NEW c \in Callers, NEW f \in Fibers, NEW k \in CallKind, Begin(c, f, k),
         call[c] = NoCall
  PROVE  \A g \in Fibers : Uncounted(g)' <=> Uncounted(g) \/ (g = f /\ k = "new")
<1>0. call \in [Callers -> [step : CallStep, fib : Fibers \cup {NoFiber}, tgt : Procs,
                            kind : CallKind]]
  BY DEF Inv, TypeOK
<1>1. PICK t \in Procs : call' = [call EXCEPT ![c] =
                 [step |-> IF k = "new" THEN "count" ELSE "push",
                  fib |-> f, tgt |-> t, kind |-> k]]
  BY DEF Begin
<1>2. /\ \A d \in Callers \ {c} : call'[d] = call[d]
      /\ call'[c].fib = f /\ call'[c].step = IF k = "new" THEN "count" ELSE "push"
  BY <1>0, <1>1
<1>3. call[c].step = "idle"
  BY DEF NoCall
<1> QED
  BY <1>2, <1>3 DEF Uncounted

\* Beginning to hand over a fiber counts none: a new one is on its way.
LEMMA BeginCount ==
  ASSUME CbFibers = {}, Inv, CountInv,
         (\E c \in Callers : CallBegin(c)) \/ (\E f \in Fibers : ExpireTimer(f))
  PROVE  CountInv'
<1>0. \A g \in Fibers : Finished(g)' <=> Finished(g)
  BY OtherFinished DEF Finished
<1>1. UNCHANGED <<total, pc>>
  BY DEF CallBegin, AddNewFiber, ArmTimer, ActivateFiber, ExpireTimer, schedVars, procVars
<1>2. ASSUME NEW c \in Callers, NEW f \in Fibers, NEW k \in {"timer", "held"}, Begin(c, f, k),
             CanCall(c), UNCHANGED fresh
      PROVE  Counted' = Counted
  <2>1. \A g \in Fibers : Uncounted(g)' <=> Uncounted(g)
    BY <1>2, BeginCounted DEF CanCall, CallKind
  <2> QED
    BY <1>0, <1>2, <2>1 DEF Counted
<1>3. ASSUME NEW c \in Callers, NEW f \in fresh, f \in Fibers, Begin(c, f, "new"),
             CanCall(c), fresh' = fresh \ {f}
      PROVE  Counted' = Counted
  <2>1. \A g \in Fibers : Uncounted(g)' <=> Uncounted(g) \/ g = f
    BY <1>3, BeginCounted DEF CanCall, CallKind
  <2> QED
    BY <1>0, <1>3, <2>1 DEF Counted
<1>4. Counted' = Counted
  <2>1. ReactorT \in Callers
    BY ConstantsAssumption DEF ReactorT, Callers
  <2> QED
    BY <1>2, <1>3, <2>1 DEF CallBegin, AddNewFiber, ArmTimer, ActivateFiber, ExpireTimer
<1> QED
  BY <1>1, <1>4 DEF CountInv, Leaving

\* ++m_totalFibers counts the fiber that is on its way, and no other step of a
\* hand-over counts.
LEMMA CallCount ==
  ASSUME Inv, CountInv, NEW c \in Callers, CallStepOf(c)
  PROVE  CountInv'
<1>0. /\ call \in [Callers -> [step : CallStep, fib : Fibers \cup {NoFiber}, tgt : Procs,
                              kind : CallKind]]
      /\ TypeOK /\ CallInv /\ PlaceInv /\ total \in Int
  BY DEF Inv, TypeOK
<1>1. \A g \in Fibers : Finished(g)' <=> Finished(g)
  BY OtherFinished DEF Finished
<1>2. UNCHANGED <<fresh, pc>>
  BY DEF CallStepOf, CountNew, PushFiber, AddLoad, NotifyProc, DelHold, wakeVars, procVars
<1>3. CASE CountNew(c)
  <2>1. PICK r \in [step : CallStep, fib : Fibers \cup {NoFiber}, tgt : Procs, kind : CallKind] :
          call' = [call EXCEPT ![c] = r] /\ r.step = "push" /\ call[c].fib \in Fibers
    BY <1>0, <1>3, AdvanceEffect DEF CountNew, CallStep
  <2>2. call[c].step = "count" /\ total' = total + 1
    BY <1>3 DEF CountNew, Advance
  <2> PICK f \in Fibers : f = call[c].fib
    BY <2>1
  <2>3. PlacedAt(f, "call", c)
    BY <1>0, <2>1, <2>2, CarriedOnly DEF Carried
  <2>4. f \notin fresh /\ ~Finished(f) /\ \A d \in Callers : Carried(f, d) => d = c
    BY <2>3 DEF PlacedAt
  <2>5. f \notin Counted
    BY <2>2 DEF Counted, Uncounted
  <2>6. \A d \in Callers \ {c} : call'[d] = call[d]
    BY <1>0, <2>1
  <2>7. call'[c].step = "push"
    BY <1>0, <2>1
  <2>8. ~Uncounted(f)'
    BY <2>4, <2>6, <2>7 DEF Uncounted, Carried
  <2>9. \A g \in Fibers \ {f} : Uncounted(g)' <=> Uncounted(g)
    BY <2>2, <2>6, <2>7 DEF Uncounted
  <2>10. Counted' = Counted \cup {f}
    BY <1>1, <1>2, <2>1, <2>4, <2>8, <2>9 DEF Counted
  <2>11. Leaving' = Leaving
    BY <1>2 DEF Leaving
  <2>12. IsFiniteSet(Leaving)
    BY LeavingFinite
  <2>13. IsFiniteSet(Counted') /\ Cardinality(Counted') = Cardinality(Counted) + 1
    BY <2>5, <2>10, FS_AddElement DEF CountInv
  <2>14. Cardinality(Counted) \in Nat /\ Cardinality(Leaving) \in Nat
    BY <2>12, FS_CardinalityType DEF CountInv
  <2> QED
    BY <2>2, <2>11, <2>13, <2>14 DEF CountInv
<1>4. CASE PushFiber(c) \/ AddLoad(c) \/ NotifyProc(c) \/ DelHold(c)
  <2>1. PICK from \in {"push", "load", "post", "unhold"}, to \in {"load", "post", "unhold", "idle"} :
          Advance(c, from, to)
    BY <1>4 DEF PushFiber, AddLoad, NotifyProc, DelHold
  <2>2. PICK r \in [step : CallStep, fib : Fibers \cup {NoFiber}, tgt : Procs, kind : CallKind] :
          call' = [call EXCEPT ![c] = r] /\ r.step = to
    BY <1>0, <2>1, AdvanceEffect DEF CallStep
  <2>3. call[c].step # "count" /\ call'[c].step # "count"
    BY <1>0, <2>1, <2>2 DEF Advance
  <2>4. \A d \in Callers \ {c} : call'[d] = call[d]
    BY <1>0, <2>2
  <2>5. Counted' = Counted
    BY <1>1, <1>2, <2>3, <2>4 DEF Counted, Uncounted
  <2>6. total' = total
    BY <1>4 DEF PushFiber, AddLoad, NotifyProc, DelHold, schedVars
  <2> QED
    BY <1>2, <2>5, <2>6 DEF CountInv, Leaving
<1> QED
  BY <1>3, <1>4 DEF CallStepOf

\* A fiber that has ended is taken off the count by the processer that ran it.
LEMMA LoopCount ==
  ASSUME Inv, CountInv, NEW p \in Procs, LoopStep(p)
  PROVE  CountInv'
<1> USE DEF Goto, fiberVars, procVars, sharedVars, schedVars, wakeVars
<1>0. /\ pc \in [Procs -> ProcPC] /\ cur \in [Procs -> Fibers \cup {NoFiber}]
      /\ state \in [Fibers -> FiberState] /\ total \in Int
      /\ NoFiber \notin Fibers /\ CurInv /\ PlaceInv
  BY ConstantsAssumption DEF Inv, TypeOK
<1>1. UNCHANGED <<call, fresh>>
  BY DEF LoopStep, Fetch, CheckHold, CheckReady, CheckState, CheckExec, SetReady, SwapIn,
     Jump, SwappedReady, SwappedExec, SwappedDone, Unload, Uncount, Balance, Steal, Store,
     CheckTotal, CheckEmpty, StopRead, ExitCheck1, ExitCheck2, WaitForNotify
<1>2. /\ IsFiniteSet(Leaving)
      /\ Cardinality(Leaving) \in Nat /\ Cardinality(Counted) \in Nat
  BY LeavingFinite, FS_CardinalityType DEF CountInv
<1>3. CASE SwappedDone(p)
  <2>1. /\ pc[p] = "swapped" /\ pc' = [pc EXCEPT ![p] = "uncount"]
        /\ state[cur[p]] \in {"TERM", "EXCEPT"} /\ cur' = [cur EXCEPT ![p] = NoFiber]
        /\ UNCHANGED <<state, total>>
    BY <1>3 DEF SwappedDone
  <2>2. PICK f \in Fibers : f = cur[p]
    BY <1>0, <2>1 DEF CurInv, HasCur
  <2>3. PlacedAt(f, "cur", p)
    BY <1>0, <2>1, <2>2, InHandOnly DEF InHand, Owns
  <2>4. Finished(f)'
    <3>1. \A q \in Procs : cur[q] = f => q = p
      BY <1>0, <2>1, <2>2, <2>3 DEF PlacedAt, InHand, Owns
    <3> QED
      BY <1>0, <2>1, <2>2, <3>1 DEF Finished
  <2>5. f \in Counted
    <3>1. f \notin fresh /\ ~Finished(f) /\ \A c \in Callers : ~Carried(f, c)
      BY <2>3 DEF PlacedAt
    <3> QED
      BY <3>1 DEF Counted, Uncounted, Carried
  <2>6. \A g \in Fibers \ {f} : Finished(g)' <=> Finished(g)
    BY <1>0, <2>1, <2>2 DEF Finished
  <2>7. Counted' = Counted \ {f}
    BY <1>1, <2>4, <2>6 DEF Counted, Uncounted
  <2>8. p \notin Leaving /\ Leaving' = Leaving \cup {p}
    BY <1>0, <2>1 DEF Leaving
  <2>9. IsFiniteSet(Counted') /\ Cardinality(Counted') = Cardinality(Counted) - 1
    BY <2>5, <2>7, FS_RemoveElement DEF CountInv
  <2>10. Cardinality(Leaving') = Cardinality(Leaving) + 1
    BY <1>2, <2>8, FS_AddElement
  <2> QED
    BY <1>2, <2>1, <2>9, <2>10 DEF CountInv
<1>4. CASE ~SwappedDone(p)
  <2>1. Counted' = Counted
    BY <1>1, <1>4, LoopFinished DEF Counted, Uncounted
  <2>2. CASE Uncount(p)
    <3>1. p \in Leaving /\ Leaving' = Leaving \ {p} /\ total' = total - 1
      BY <1>0, <2>2 DEF Leaving, Uncount
    <3>2. Cardinality(Leaving') = Cardinality(Leaving) - 1
      BY <1>2, <3>1, FS_RemoveElement
    <3> QED
      BY <1>2, <2>1, <3>1, <3>2 DEF CountInv
  <2>3. CASE ~Uncount(p)
    <3>1. /\ total' = total /\ pc[p] # "uncount"
          /\ \E t \in ProcPC \ {"uncount"} : pc' = [pc EXCEPT ![p] = t]
      BY <1>4, <2>3 DEF LoopStep, Fetch, CheckHold, CheckReady, CheckState, CheckExec,
         SetReady, SwapIn, Jump, SwappedReady, SwappedExec, Unload, Balance, Steal, Store,
         CheckTotal, CheckEmpty, StopRead, ExitCheck1, ExitCheck2, WaitForNotify, ProcPC
    <3>2. Leaving' = Leaving
      BY <1>0, <3>1 DEF Leaving
    <3> QED
      BY <2>1, <3>1, <3>2 DEF CountInv
  <2> QED
    BY <2>2, <2>3
<1> QED
  BY <1>3, <1>4

\* Every step keeps the count.
LEMMA CountStep ==
  ASSUME CbFibers = {}, Inv, CountInv, [Next]_vars
  PROVE  CountInv'
<1>1. ASSUME NEW p \in Procs, LeaveStep(p) PROVE CountInv'
  <2>1. Counted' = Counted
    <3>1. UNCHANGED <<call, fresh>>
      BY <1>1 DEF LeaveStep, YieldToReady, Finish, BlockHeld, Sleep, wakeVars
    <3> QED
      BY <1>1, <3>1, LeaveFinished DEF Counted, Uncounted
  <2>2. total' = total /\ pc[p] = "run" /\ pc' = [pc EXCEPT ![p] = "jump"]
    BY <1>1 DEF LeaveStep, YieldToReady, Finish, BlockHeld, Sleep, schedVars, Goto
  <2>3. Leaving' = Leaving
    BY <2>2 DEF Leaving, Inv, TypeOK
  <2> QED
    BY <2>1, <2>2, <2>3 DEF CountInv
<1>2. CASE (\E p \in Procs : StopProc(p) \/ DispatcherNotify(p)) \/ UNCHANGED vars
  <2>1. UNCHANGED <<state, cur, pc, call, fresh, total>>
    BY <1>2 DEF StopProc, DispatcherNotify, vars, fiberVars, procVars, schedVars, wakeVars
  <2> QED
    BY <2>1 DEF CountInv, Counted, Leaving, Finished, Uncounted
<1> QED
  BY <1>1, <1>2, LoopCount, BeginCount, CallCount DEF Next, ProcNext, AtRest

\* Only processers, the owner and the reactor's thread hand over fibers.
LEMMA CallersAre == /\ Callers = Procs \cup {Main, ReactorT}
                    /\ Main \notin Procs /\ ReactorT \notin Procs /\ Main # ReactorT
BY ConstantsAssumption DEF Callers, Procs, Main, ReactorT

\* A fiber that runs is live and counted.
LEMMA RunnerCounted ==
  ASSUME Inv, NEW p \in Procs, pc[p] = "run"
  PROVE  cur[p] \in Fibers \ fresh /\ ~Finished(cur[p]) /\ cur[p] \in Counted
<1>1. cur[p] \in Fibers /\ cur[p] # NoFiber
  BY ConstantsAssumption DEF Inv, CurInv, HasCur
<1>2. PlacedAt(cur[p], "cur", p)
  BY <1>1, InHandOnly DEF Inv, InHand, Owns
<1>3. cur[p] \notin fresh /\ ~Finished(cur[p]) /\ \A c \in Callers : ~Carried(cur[p], c)
  BY <1>2 DEF PlacedAt
<1> QED
  BY <1>1, <1>3 DEF Counted, Uncounted, Carried

\* m_totalFibers <= 0 tells that no fiber is left, if the owner is not in the
\* middle of adding one.
LEMMA CountZero ==
  ASSUME Inv, CountInv, total <= 0, call[Main] = NoCall, call[ReactorT].step # "count"
  PROVE  AllFinished
<1>1. Cardinality(Counted) \in Nat /\ Cardinality(Leaving) \in Nat
  BY LeavingFinite, FS_CardinalityType DEF CountInv
<1>2. Cardinality(Counted) = 0
  BY <1>1 DEF CountInv
<1>3. Counted = {}
  BY <1>2, FS_EmptySet DEF CountInv
<1>4. \A f \in Fibers : ~Uncounted(f)
  <2> SUFFICES ASSUME NEW f \in Fibers, NEW c \in Callers, call[c].step = "count" PROVE FALSE
    BY DEF Uncounted
  <2>1. c \in Procs
    BY CallersAre DEF NoCall
  <2>2. pc[c] = "run"
    BY <2>1 DEF Inv, CallInv
  <2> QED
    BY <1>3, <2>1, <2>2, RunnerCounted
<1> QED
  BY <1>3, <1>4 DEF AllFinished, Counted

\* When no fiber is left and the owner adds none, none is added.
LEMMA AllFinishedStays ==
  ASSUME Inv, AllFinished, [Next]_vars,
         \A f \in Fibers : ~AddNewFiber(Main, f) /\ ~ArmTimer(Main, f)
  PROVE  AllFinished'
<1>1. fresh' = fresh
  <2>1. ASSUME NEW c \in Callers, NEW f \in Fibers, AddNewFiber(c, f) \/ ArmTimer(c, f)
        PROVE  FALSE
    <3>1. c \in Procs /\ pc[c] = "run"
      BY <2>1, CallersAre DEF AddNewFiber, ArmTimer, CanCall
    <3> QED
      BY <3>1, RunnerCounted DEF AllFinished
  <2>2. ASSUME NEW c \in Callers, CallBegin(c) \/ CallStepOf(c) PROVE fresh' = fresh
    BY <2>1, <2>2 DEF CallBegin, ActivateFiber, CallStepOf, CountNew, PushFiber, AddLoad,
       NotifyProc, DelHold, wakeVars
  <2>3. ASSUME NEW p \in Procs, LoopStep(p) PROVE fresh' = fresh
    BY <2>3 DEF LoopStep, Fetch, CheckHold, CheckReady, CheckState, CheckExec, SetReady,
       SwapIn, Jump, SwappedReady, SwappedExec, SwappedDone, Unload, Uncount, Balance, Steal,
       Store, CheckTotal, CheckEmpty, StopRead, ExitCheck1, ExitCheck2, WaitForNotify, wakeVars
  <2>4. ASSUME NEW p \in Procs, LeaveStep(p) PROVE fresh' = fresh
    BY <2>4 DEF LeaveStep, YieldToReady, Finish, BlockHeld, Sleep, wakeVars
  <2>5. CASE \/ \E f \in Fibers : ExpireTimer(f)
             \/ \E p \in Procs : StopProc(p) \/ DispatcherNotify(p)
             \/ UNCHANGED vars
    BY <2>5 DEF ExpireTimer, StopProc, DispatcherNotify, vars, wakeVars
  <2> QED
    BY <2>2, <2>3, <2>4, <2>5 DEF Next, ProcNext, AtRest
<1> QED
  BY <1>1, FinishedStays DEF AllFinished

\* The calls of the threads outside the processers.
LEMMA CallerStep ==
  ASSUME Inv, CallerInv, [Next]_vars
  PROVE  CallerInv'
<1>0. call \in [Callers -> [step : CallStep, fib : Fibers \cup {NoFiber}, tgt : Procs,
                            kind : CallKind]]
  BY DEF Inv, TypeOK
<1>1. CASE UNCHANGED <<call, stopping>>
  BY <1>1 DEF CallerInv
<1>2. ASSUME NEW p \in Procs, StopProc(p) PROVE CallerInv'
  BY <1>2 DEF StopProc, CallerInv
<1>3. ASSUME NEW c \in Callers, CallStepOf(c) PROVE CallerInv'
  <2>1. PICK from \in CallStep \ {"idle"}, to \in CallStep \ {"count"} : Advance(c, from, to)
    BY <1>3 DEF CallStepOf, CountNew, PushFiber, AddLoad, NotifyProc, DelHold, CallStep
  <2>2. PICK r \in [step : CallStep, fib : Fibers \cup {NoFiber}, tgt : Procs, kind : CallKind] :
          call' = [call EXCEPT ![c] = r] /\ r.step = to
    BY <2>1, AdvanceEffect DEF Inv
  <2>3. UNCHANGED stopping
    BY <1>3 DEF CallStepOf, CountNew, PushFiber, AddLoad, NotifyProc, DelHold
  <2>4. call[c].step = from /\ call[c] # NoCall
    BY <2>1 DEF Advance, NoCall
  <2> QED
    BY <1>0, <2>2, <2>3, <2>4 DEF CallerInv
<1>4. ASSUME NEW c \in Callers, NEW f \in Fibers, NEW k \in CallKind, CanCall(c),
             c = ReactorT => k # "new", Begin(c, f, k), UNCHANGED stopping
      PROVE  CallerInv'
  <2>1. PICK t \in Procs : call' = [call EXCEPT ![c] =
                 [step |-> IF k = "new" THEN "count" ELSE "push",
                  fib |-> f, tgt |-> t, kind |-> k]]
    BY <1>4 DEF Begin
  <2>2. ReactorT \in Callers /\ Main \in Callers
    BY CallersAre
  <2>3. call'[ReactorT].step # "count"
    BY <1>0, <1>4, <2>1, <2>2 DEF CallerInv
  <2>4. c = Main => \A p \in Procs : ~stopping[p]
    BY <1>4 DEF CanCall
  <2>5. c # Main => call'[Main] = call[Main]
    BY <1>0, <2>1, <2>2
  <2> QED
    BY <1>4, <2>3, <2>4, <2>5 DEF CallerInv
<1>5. ASSUME NEW c \in Callers, CallBegin(c) PROVE CallerInv'
  BY <1>1, <1>4, <1>5 DEF CallBegin, AddNewFiber, ArmTimer, ActivateFiber, CallKind
<1>6. ASSUME NEW f \in Fibers, ExpireTimer(f) PROVE CallerInv'
  BY <1>4, <1>6, CallersAre DEF ExpireTimer, CallKind
<1>7. ASSUME NEW p \in Procs, LoopStep(p) PROVE UNCHANGED <<call, stopping>>
  BY <1>7 DEF LoopStep, Fetch, CheckHold, CheckReady, CheckState, CheckExec, SetReady,
     SwapIn, Jump, SwappedReady, SwappedExec, SwappedDone, Unload, Uncount, Balance, Steal,
     Store, CheckTotal, CheckEmpty, StopRead, ExitCheck1, ExitCheck2, WaitForNotify
<1>8. ASSUME NEW p \in Procs, LeaveStep(p) \/ DispatcherNotify(p) PROVE UNCHANGED <<call, stopping>>
  BY <1>8 DEF LeaveStep, YieldToReady, Finish, BlockHeld, Sleep, DispatcherNotify
<1>9. CASE UNCHANGED vars
  BY <1>1, <1>9 DEF vars
<1> QED
  BY <1>1, <1>2, <1>3, <1>5, <1>6, <1>7, <1>8, <1>9 DEF Next, ProcNext, AtRest

\* No processer is past its test before the fibers have ended, and nothing is
\* added once one is.
LEMMA ExitStep ==
  ASSUME Inv, CountInv, CallerInv, ExitInv, [Next]_vars
  PROVE  ExitInv'
<1> USE DEF Goto
<1>0. pc \in [Procs -> ProcPC] /\ stopping \in [Procs -> BOOLEAN]
  BY DEF Inv, TypeOK
<1>1. (\E p \in Procs : pc[p] \in ExitPC) => AllFinished'
  <2> SUFFICES ASSUME NEW p \in Procs, pc[p] \in ExitPC PROVE AllFinished'
    OBVIOUS
  <2>1. stopping[p] /\ AllFinished
    BY DEF ExitInv
  <2>2. \A f \in Fibers : ~AddNewFiber(Main, f) /\ ~ArmTimer(Main, f)
    BY <2>1 DEF AddNewFiber, ArmTimer, CanCall
  <2> QED
    BY <2>1, <2>2, AllFinishedStays
<1>2. ASSUME NEW p \in Procs, stopping[p] PROVE stopping'[p]
  <2>1. stopping' = stopping \/ \E q \in Procs : stopping' = [stopping EXCEPT ![q] = TRUE]
    <3>1. ASSUME NEW q \in Procs, LoopStep(q) PROVE UNCHANGED stopping
      BY <3>1 DEF LoopStep, Fetch, CheckHold, CheckReady, CheckState, CheckExec, SetReady,
         SwapIn, Jump, SwappedReady, SwappedExec, SwappedDone, Unload, Uncount, Balance,
         Steal, Store, CheckTotal, CheckEmpty, StopRead, ExitCheck1, ExitCheck2, WaitForNotify
    <3>2. ASSUME NEW q \in Procs, LeaveStep(q) \/ DispatcherNotify(q) PROVE UNCHANGED stopping
      BY <3>2 DEF LeaveStep, YieldToReady, Finish, BlockHeld, Sleep, DispatcherNotify
    <3>3. ASSUME NEW c \in Callers, CallBegin(c) \/ CallStepOf(c) PROVE UNCHANGED stopping
      BY <3>3 DEF CallBegin, AddNewFiber, ArmTimer, ActivateFiber, CallStepOf, CountNew,
         PushFiber, AddLoad, NotifyProc, DelHold
    <3>4. ASSUME NEW f \in Fibers, ExpireTimer(f) PROVE UNCHANGED stopping
      BY <3>4 DEF ExpireTimer
    <3> QED
      BY <3>1, <3>2, <3>3, <3>4 DEF Next, ProcNext, AtRest, StopProc, vars
  <2> QED
    BY <1>0, <1>2, <2>1, Zenon
<1>3. ASSUME NEW p \in Procs, pc'[p] \in ExitPC, pc[p] \notin ExitPC
      PROVE  stopping[p] /\ AllFinished'
  <2>1. LoopStep(p)
    <3>1. ASSUME NEW q \in Procs, LoopStep(q), q # p PROVE pc'[p] = pc[p]
      BY <1>0, <3>1 DEF LoopStep, Fetch, CheckHold, CheckReady, CheckState, CheckExec,
         SetReady, SwapIn, Jump, SwappedReady, SwappedExec, SwappedDone, Unload, Uncount,
         Balance, Steal, Store, CheckTotal, CheckEmpty, StopRead, ExitCheck1, ExitCheck2,
         WaitForNotify
    <3>2. ASSUME NEW q \in Procs, LeaveStep(q) PROVE pc'[p] = pc[p] \/ pc'[p] = "jump"
      BY <1>0, <3>2 DEF LeaveStep, YieldToReady, Finish, BlockHeld, Sleep
    <3> QED
      BY <1>3, <3>1, <3>2, OtherFinished DEF Next, ProcNext, AtRest, ExitPC
  <2>2. CheckTotal(p)
    <3>1. CASE Steal(p) \/ Store(p) \/ Fetch(p)
      BY <1>0, <1>3, <3>1 DEF Steal, Store, Fetch, ExitPC
    <3>2. CASE CheckHold(p) \/ CheckReady(p) \/ CheckExec(p) \/ SetReady(p) \/ SwapIn(p)
               \/ Jump(p) \/ SwappedReady(p) \/ SwappedExec(p) \/ SwappedDone(p)
      BY <1>0, <1>3, <3>2 DEF CheckHold, CheckReady, CheckState, CheckExec, SetReady, SwapIn,
         Jump, SwappedReady, SwappedExec, SwappedDone, ExitPC
    <3>3. CASE Unload(p) \/ Uncount(p) \/ Balance(p) \/ WaitForNotify(p)
      BY <1>0, <1>3, <3>3 DEF Unload, Uncount, Balance, WaitForNotify, ExitPC
    <3>4. CASE CheckEmpty(p) \/ ExitCheck1(p) \/ ExitCheck2(p)
      BY <1>0, <1>3, <3>4 DEF CheckEmpty, StopRead, ExitCheck1, ExitCheck2, ExitPC
    <3> QED
      BY <2>1, <3>1, <3>2, <3>3, <3>4 DEF LoopStep
  <2>3. stopping[p] /\ total <= 0
    BY <1>0, <1>3, <2>2 DEF CheckTotal, StopRead, ExitPC
  <2>4. AllFinished
    BY <2>3, CountZero DEF CallerInv
  <2>5. UNCHANGED <<state, cur, fresh>>
    BY <2>2 DEF CheckTotal, StopRead, fiberVars, wakeVars
  <2> QED
    BY <2>3, <2>4, <2>5 DEF AllFinished, Finished
<1> QED
  BY <1>1, <1>2, <1>3 DEF ExitInv

\* The invariants about counting and leaving together, without callbacks, which
\* are taken off the count although they were never counted.
LEMMA ExitHolds == ASSUME CbFibers = {} PROVE Spec => [](Inv /\ CountInv /\ CallerInv /\ ExitInv)
<1>1. Init => CountInv /\ CallerInv /\ ExitInv
  <2> SUFFICES ASSUME Init PROVE CountInv /\ CallerInv /\ ExitInv
    OBVIOUS
  <2>1. Counted = {} /\ Leaving = {}
    BY DEF Init, Counted, Leaving
  <2>2. CountInv
    BY <2>1, FS_EmptySet DEF Init, CountInv
  <2>3. CallerInv /\ ExitInv
    BY CallersAre DEF Init, CallerInv, ExitInv, ExitPC, NoCall
  <2> QED
    BY <2>2, <2>3
<1>2. Inv /\ CountInv /\ CallerInv /\ ExitInv /\ [Next]_vars => CountInv' /\ CallerInv' /\ ExitInv'
  BY CountStep, CallerStep, ExitStep
<1> QED
  BY <1>1, <1>2, InitInv, NextInv, PTL DEF Spec

\* Processer.cpp 218-240: in a program that adds no callbacks to timers or
\* events, run() returns only when every fiber that was added has finished.
THEOREM NoEarlyExitHolds == ASSUME CbFibers = {} PROVE Spec => []NoEarlyExit
<1>1. ExitInv => NoEarlyExit
  BY DEF ExitInv, NoEarlyExit, ExitPC, AllFinished
<1> QED
  BY <1>1, ExitHolds, PTL

-----------------------------------------------------------------------------
(* The scheduler's life around the processers                              *)

\* The threads of a Scheduler that starts, runs and stops behave as module
\* Processer says: its theorems hold for module Scheduler.
LEMMA SchedStep == [SchedNext]_schedulerVars => [Next]_vars
<1> SUFFICES ASSUME [SchedNext]_schedulerVars PROVE [Next]_vars
  OBVIOUS
<1>1. CASE RuntimeStep
  <2>1. Main \in Callers /\ ReactorT \in Callers /\ \A p \in Procs : p \in Callers
    BY CallersAre
  <2> QED
    BY <1>1, <2>1 DEF RuntimeStep, ReactorStep, Next, ProcNext, CallBegin
<1>2. CASE StopNext
  <2>1. owner.i \in Procs
    BY <1>2, ConstantsAssumption DEF StopNext, StopProc, Procs
  <2> QED
    BY <1>2, <2>1 DEF StopNext, Next
<1>3. CASE StopReactor \/ JoinNext \/ JoinReactor \/ JoinDispatcher \/ ReactorExit
           \/ DispatcherExit \/ SchedDone \/ UNCHANGED schedulerVars
  BY <1>3 DEF StopReactor, JoinNext, JoinReactor, JoinDispatcher, ReactorExit,
     DispatcherExit, SchedDone, schedulerVars
<1> QED
  BY <1>1, <1>2, <1>3 DEF SchedNext, OwnerStep

\* Scheduler.cpp 60-103: starting, stopping and joining the threads adds no
\* behaviour to them.
THEOREM SchedulerImplements == SchedSpec => Spec
<1>1. SchedInit => Init
  BY DEF SchedInit
<1> QED
  BY <1>1, SchedStep, PTL DEF SchedSpec, Spec

\* The owner has stopped adding fibers when it lets the reactor go, and the
\* reactor goes when none is left.
LifeInv ==
  /\ owner \in [at : {"up", "stop", "join", "joinReactor", "joinDispatcher", "done"}, i : Int]
  /\ rstop => owner.at # "up" /\ call[Main] = NoCall
  /\ rx = "exited" => rstop /\ AllFinished

\* Every step keeps it.
LEMMA LifeStep ==
  ASSUME CbFibers = {}, Inv, CountInv, CallerInv, LifeInv, [SchedNext]_schedulerVars
  PROVE  LifeInv'
<1>0. [Next]_vars
  BY SchedStep
<1>1. ASSUME RuntimeStep \/ StopNext PROVE LifeInv'
  <2>1. /\ UNCHANGED <<rstop, rx>> /\ (owner.at # "up" => owner'.at # "up")
        /\ owner' \in [at : {"up", "stop", "join", "joinReactor", "joinDispatcher", "done"}, i : Int]
    BY <1>1 DEF RuntimeStep, StopNext, lifeVars, LifeInv
  <2>2. ASSUME owner.at # "up", call[Main] = NoCall PROVE call'[Main] = NoCall
    <3>0. call \in [Callers -> [step : CallStep, fib : Fibers \cup {NoFiber}, tgt : Procs,
                                kind : CallKind]]
      BY DEF Inv, TypeOK
    <3>1. CASE UNCHANGED call
      BY <2>2, <3>1
    <3>2. ASSUME NEW c \in Callers \ {Main}, \E r : call' = [call EXCEPT ![c] = r]
          PROVE  call'[Main] = NoCall
      BY <2>2, <3>0, <3>2, CallersAre
    <3>3. ASSUME NEW c \in Callers, CallStepOf(c) PROVE call'[Main] = NoCall
      <4>1. call[c] # NoCall /\ \E r : call' = [call EXCEPT ![c] = r]
        BY <3>3 DEF CallStepOf, CountNew, PushFiber, AddLoad, NotifyProc, DelHold, Advance, NoCall
      <4> QED
        BY <2>2, <3>2, <4>1
    <3>4. ASSUME NEW c \in Callers \ {Main}, CallBegin(c) PROVE call'[Main] = NoCall
      BY <3>1, <3>2, <3>4 DEF CallBegin, AddNewFiber, ArmTimer, ActivateFiber, Begin
    <3>5. ASSUME NEW f \in Fibers, ExpireTimer(f) \/ ActivateFiber(ReactorT, f)
          PROVE  call'[Main] = NoCall
      BY <3>2, <3>5, CallersAre DEF ExpireTimer, ActivateFiber, Begin
    <3>6. ASSUME NEW p \in Procs, LoopStep(p) PROVE UNCHANGED call
      BY <3>6 DEF LoopStep, Fetch, CheckHold, CheckReady, CheckState, CheckExec, SetReady,
         SwapIn, Jump, SwappedReady, SwappedExec, SwappedDone, Unload, Uncount, Balance, Steal,
         Store, CheckTotal, CheckEmpty, StopRead, ExitCheck1, ExitCheck2, WaitForNotify
    <3>7. ASSUME NEW p \in Procs, LeaveStep(p) \/ DispatcherNotify(p) PROVE UNCHANGED call
      BY <3>7 DEF LeaveStep, YieldToReady, Finish, BlockHeld, Sleep, DispatcherNotify
    <3> QED
      BY <1>1, <2>2, <3>1, <3>3, <3>4, <3>5, <3>6, <3>7, CallersAre
      DEF RuntimeStep, ReactorStep, StopNext, StopProc
  <2>3. ASSUME owner.at # "up", call[Main] = NoCall, AllFinished PROVE AllFinished'
    <3>1. ASSUME NEW f \in Fibers PROVE ~AddNewFiber(Main, f) /\ ~ArmTimer(Main, f)
      <4>1. Main \in Callers /\ TypeOK
        BY CallersAre DEF Inv
      <4>2. Begin(Main, f, "new") => call'[Main].step # "idle"
        BY <4>1 DEF Begin, TypeOK
      <4>3. call'[Main].step = "idle"
        BY <2>2, <2>3 DEF NoCall
      <4> QED
        BY <4>2, <4>3 DEF AddNewFiber, ArmTimer
    <3> QED
      BY <1>0, <2>3, <3>1, AllFinishedStays
  <2> QED
    BY <2>1, <2>2, <2>3 DEF LifeInv
<1>2. CASE UNCHANGED vars
  <2>1. UNCHANGED <<call, total, hold>> /\ (AllFinished <=> AllFinished')
    BY <1>2 DEF vars, fiberVars, procVars, schedVars, wakeVars, AllFinished, Finished
  <2>2. CASE StopReactor
    <3>1. owner.at = "up" /\ call[Main] = NoCall /\ owner' = [at |-> "stop", i |-> 0] /\ rx' = rx
      BY <2>2 DEF StopReactor
    <3>2. rx # "exited"
      BY <3>1 DEF LifeInv
    <3> QED
      BY <2>1, <3>1, <3>2 DEF LifeInv
  <2>3. CASE JoinNext \/ JoinReactor \/ JoinDispatcher
    BY <2>1, <2>3 DEF JoinNext, JoinReactor, JoinDispatcher, LifeInv
  <2>4. CASE ReactorExit
    <3>1. rstop /\ total = 0 /\ UNCHANGED <<owner, rstop>>
      BY <2>4 DEF ReactorExit
    <3>2. AllFinished
      BY <3>1, CountZero DEF LifeInv, CallerInv
    <3> QED
      BY <2>1, <3>1, <3>2 DEF LifeInv
  <2>5. CASE DispatcherExit \/ SchedDone \/ UNCHANGED schedulerVars
    BY <2>1, <2>5 DEF DispatcherExit, SchedDone, schedulerVars, lifeVars, LifeInv
  <2> QED
    BY <1>1, <2>2, <2>3, <2>4, <2>5 DEF SchedNext, OwnerStep
<1>3. CASE StopReactor \/ JoinNext \/ JoinReactor \/ JoinDispatcher \/ ReactorExit
           \/ DispatcherExit \/ SchedDone \/ UNCHANGED schedulerVars
  BY <1>2, <1>3 DEF StopReactor, JoinNext, JoinReactor, JoinDispatcher, ReactorExit,
     DispatcherExit, SchedDone, schedulerVars
<1> QED
  BY <1>1, <1>3 DEF SchedNext, OwnerStep

\* Reactor.cpp 264-288: in a program that adds no callbacks to timers or
\* events, the reactor leaves its loop only when every fiber has ended.
THEOREM ReactorOutlivesFibersHolds ==
  ASSUME CbFibers = {} PROVE SchedSpec => []ReactorOutlivesFibers
<1>1. SchedInit => LifeInv
  BY DEF SchedInit, LifeInv
<1>2. SchedSpec => [](Inv /\ CountInv /\ CallerInv /\ ExitInv)
  BY SchedulerImplements, ExitHolds
<1>3. SchedSpec => []LifeInv
  BY <1>1, <1>2, LifeStep, PTL DEF SchedSpec
<1>4. LifeInv => ReactorOutlivesFibers
  BY DEF LifeInv, ReactorOutlivesFibers
<1> QED
  BY <1>3, <1>4, PTL
=============================================================================
