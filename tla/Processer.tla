------------------------------ MODULE Processer ------------------------------
(***************************************************************************)
(* The scheduling core of zhuyh: N Processer threads, each looping over    *)
(* its own WorkQueue (Processer::run), the fibers they resume              *)
(* (Fiber::swapIn, YieldToReady, YieldToHold, run) and every thread that   *)
(* hands a fiber to a processer (Scheduler::addNewFiber, activateFiber and *)
(* the reactor's trigger).                                                 *)
(*                                                                         *)
(* What makes this code hard: a fiber that blocks first registers itself   *)
(* with whoever will wake it and only then jumps off its stack.  Between   *)
(* the two it can be woken, queued on another processer and fetched there, *)
(* while it still runs here.  _state = EXEC until the home processer has   *)
(* seen the jump is the whole protection.                                  *)
(*                                                                         *)
(* One action is one atomic access of a thread: a critical section of a    *)
(* WorkQueue, a read or a write of an atomic, a semaphore operation.       *)
(***************************************************************************)
EXTENDS Integers, Sequences, FiniteSets

CONSTANTS
  N,         \* m_minThread: the number of processers
  Fibers,    \* the fibers that may ever be created
  CbFibers,  \* those made from a timer's or an event's callback
  Sleepers,  \* those that sleep on a timer
  Throwing,  \* those whose callback throws
  Stopped,   \* the processers the owner stops
  Dispatching,  \* whether the dispatcher thread has been started
  SemCap,    \* bound: a processer's semaphore saturates at SemCap
  NoFiber

ASSUME ConstantsAssumption ==
  /\ N \in Nat \ {0}
  /\ CbFibers \subseteq Fibers
  /\ Throwing \subseteq Fibers /\ Sleepers \subseteq Fibers
  /\ Stopped \subseteq 0 .. N-1
  /\ Dispatching \in BOOLEAN
  /\ SemCap \in Nat \ {0}
  /\ NoFiber \notin Fibers

Procs    == 0 .. N-1
Main     == N          \* the thread that owns the Scheduler
ReactorT == N+1        \* the reactor's thread
Callers  == 0 .. N+1   \* a processer calls from the fiber it runs

FiberState == {"INIT", "READY", "HOLD", "EXEC", "TERM", "EXCEPT"}
ProcPC == {"fetch", "isHold", "isReady", "isExec", "setReady", "swapIn",
           "run", "jump", "swapped", "unload", "uncount",
           "balance", "steal", "store",
           "check1", "empty1", "hold1", "wait",
           "check2", "empty2", "hold2", "exited"}
CallStep == {"idle", "count", "push", "load", "post", "unhold"}
CallKind == {"new", "timer", "held"}

VARIABLES
  state,    \* Fiber::_state
  saved,    \* fibers whose _ctx holds a context that may be jumped to
  que,      \* Processer::m_que, NORMAL priority (the only one in use)
  pc, cur,  \* where each processer's thread is, and its local `fiber`
  victim,   \* the local maxPrc of Scheduler::balance
  loot,     \* the local list of Scheduler::balance
  payLoad, sem, stopping,  \* m_payLoad, m_sem, m_stopping
  total,          \* Scheduler::m_totalFibers
  hold,           \* Reactor::m_holdCount
  currentThread,  \* Scheduler::m_currentThread
  fresh,    \* fibers not created yet
  held,     \* fibers registered with a waker that counts a hold
  timed,    \* fibers registered in the TimerManager
  call      \* the addFiber call each thread is in

fiberVars == <<state, saved>>
procVars  == <<pc, cur, victim, loot>>
sharedVars == <<que, payLoad, sem>>
schedVars == <<total, hold, currentThread>>
wakeVars  == <<fresh, held, timed>>
vars == <<fiberVars, procVars, sharedVars, stopping, schedVars, wakeVars, call>>

NoCall == [step |-> "idle", fib |-> NoFiber, tgt |-> 0, kind |-> "new"]

\* The type of the state: the _state a fiber may have, the lines of run() a
\* thread may be at, and a semaphore that never exceeds what the code posts.
TypeOK ==
  /\ state \in [Fibers -> FiberState]
  /\ saved \subseteq Fibers
  /\ que \in [Procs -> Seq(Fibers)]
  /\ pc \in [Procs -> ProcPC]
  /\ cur \in [Procs -> Fibers \cup {NoFiber}]
  /\ victim \in [Procs -> Procs]
  /\ loot \in [Procs -> Seq(Fibers)]
  /\ payLoad \in [Procs -> Int]
  /\ sem \in [Procs -> 0 .. SemCap]
  /\ stopping \in [Procs -> BOOLEAN]
  /\ total \in Int /\ hold \in Int /\ currentThread \in Int
  /\ fresh \subseteq Fibers /\ held \subseteq Fibers /\ timed \subseteq Fibers
  /\ call \in [Callers -> [step : CallStep, fib : Fibers \cup {NoFiber},
                           tgt : Procs, kind : CallKind]]

Init ==
  /\ state = [f \in Fibers |-> "INIT"]
  /\ saved = Fibers
  /\ que = [p \in Procs |-> <<>>]
  /\ pc = [p \in Procs |-> "fetch"]
  /\ cur = [p \in Procs |-> NoFiber]
  /\ victim = [p \in Procs |-> p]
  /\ loot = [p \in Procs |-> <<>>]
  /\ payLoad = [p \in Procs |-> 0]
  /\ sem = [p \in Procs |-> 0]
  /\ stopping = [p \in Procs |-> FALSE]
  /\ total = 0 /\ hold = 0 /\ currentThread = N
  /\ fresh = Fibers /\ held = {} /\ timed = {}
  /\ call = [c \in Callers |-> NoCall]

-----------------------------------------------------------------------------
(* Helpers                                                                 *)

\* The thread of processer p is at `from' and goes on to `to'.
Goto(p, from, to) ==
  /\ pc[p] = from
  /\ pc' = [pc EXCEPT ![p] = to]

Post(p) == sem' = [sem EXCEPT ![p] = IF @ < SemCap THEN @ + 1 ELSE @]

\* getMinPayLoad returns t: the first idle processer, else the last of the
\* least loaded ones.  The scan is one snapshot; its answer is used later.
IsMinPayLoad(t) ==
  \/ payLoad[t] = 0 /\ \A q \in Procs : q < t => payLoad[q] # 0
  \/ /\ \A q \in Procs : payLoad[q] # 0
     /\ \A q \in Procs : /\ payLoad[t] <= payLoad[q]
                         /\ q > t => payLoad[t] < payLoad[q]

\* getMaxPayLoad returns t: the last of the most loaded processers.
IsMaxPayLoad(t) ==
  \A q \in Procs : /\ payLoad[q] <= payLoad[t]
                   /\ q > t => payLoad[q] < payLoad[t]

\* How many fibers fetchFibers(load / 2) takes from a queue of length n: C++
\* division truncates, and a negative int becomes a huge size_t.
StealCount(load, n) ==
  IF load <= -2 THEN n
  ELSE IF load < 0 THEN 0
  ELSE IF load \div 2 < n THEN load \div 2 ELSE n

-----------------------------------------------------------------------------
(* Processer::run                                                          *)

Fetch(p) ==
  /\ \/ /\ que[p] # <<>>
        /\ Goto(p, "fetch", "isHold")
        /\ cur' = [cur EXCEPT ![p] = Head(que[p])]
        /\ que' = [que EXCEPT ![p] = Tail(@)]
     \/ /\ que[p] = <<>>
        /\ Goto(p, "fetch", "balance")
        /\ UNCHANGED <<cur, que>>
  /\ UNCHANGED <<fiberVars, victim, loot, payLoad, sem, stopping, schedVars,
                 wakeVars, call>>

\* The separate reads of _state in lines 175-180: anything but EXEC is
\* resumed, EXEC (not switched out yet) goes back to the queue's end.
CheckState(p, from, s, no) ==
  /\ Goto(p, from, IF state[cur[p]] = s THEN "setReady" ELSE no)
  /\ UNCHANGED <<fiberVars, cur, victim, loot, sharedVars, stopping,
                 schedVars, wakeVars, call>>

CheckHold(p)  == CheckState(p, "isHold", "HOLD", "isReady")
CheckReady(p) == CheckState(p, "isReady", "READY", "isExec")

\* m_que->addFiber(fiber) by the processer that has it in hand
PutBack(p) ==
  /\ que' = [que EXCEPT ![p] = Append(@, cur[p])]
  /\ cur' = [cur EXCEPT ![p] = NoFiber]

\* Mutant: a fiber that is still switching out is resumed.
CheckExecResumes(p) ==
  /\ Goto(p, "isExec", "setReady")
  /\ UNCHANGED <<fiberVars, cur, victim, loot, sharedVars, stopping, schedVars,
                 wakeVars, call>>

\* Mutant: a fiber that is still switching out is skipped and not requeued.
CheckExecDrops(p) ==
  /\ Goto(p, "isExec", IF state[cur[p]] = "EXEC" THEN "fetch" ELSE "setReady")
  /\ cur' = IF state[cur[p]] = "EXEC" THEN [cur EXCEPT ![p] = NoFiber] ELSE cur
  /\ UNCHANGED <<fiberVars, victim, loot, sharedVars, stopping, schedVars,
                 wakeVars, call>>

CheckExec(p) ==
  /\ \/ /\ Goto(p, "isExec", "fetch")
        /\ state[cur[p]] = "EXEC"
        /\ PutBack(p)
     \/ /\ Goto(p, "isExec", "setReady")
        /\ state[cur[p]] # "EXEC"
        /\ UNCHANGED <<que, cur>>
  /\ UNCHANGED <<fiberVars, victim, loot, payLoad, sem, stopping, schedVars,
                 wakeVars, call>>

SetReady(p) ==
  /\ Goto(p, "setReady", "swapIn")
  /\ state' = [state EXCEPT ![cur[p]] = "READY"]
  /\ UNCHANGED <<saved, cur, victim, loot, sharedVars, stopping,
                 schedVars, wakeVars, call>>

\* Fiber::swapIn: the jump consumes the saved context.
SwapIn(p) ==
  /\ Goto(p, "swapIn", "run")
  /\ state' = [state EXCEPT ![cur[p]] = "EXEC"]
  /\ saved' = saved \ {cur[p]}
  /\ UNCHANGED <<cur, victim, loot, sharedVars, stopping, schedVars,
                 wakeVars, call>>

\* jump_fcontext back to the main fiber writes the fiber's _ctx.
Jump(p) ==
  /\ Goto(p, "jump", "swapped")
  /\ saved' = saved \cup {cur[p]}
  /\ UNCHANGED <<state, cur, victim, loot, sharedVars, stopping,
                 schedVars, wakeVars, call>>

\* The if-chain after swapIn.  Swapped out by co_yield: back into the queue.
SwappedReady(p) ==
  /\ Goto(p, "swapped", "fetch")
  /\ state[cur[p]] = "READY"
  /\ PutBack(p)
  /\ UNCHANGED <<fiberVars, victim, loot, payLoad, sem, stopping, schedVars,
                 wakeVars, call>>

\* Mutant: a blocked fiber keeps _state = EXEC.
SwappedExecKeeps(p) ==
  /\ Goto(p, "swapped", "unload")
  /\ state[cur[p]] = "EXEC"
  /\ cur' = [cur EXCEPT ![p] = NoFiber]
  /\ UNCHANGED <<fiberVars, victim, loot, sharedVars, stopping, schedVars,
                 wakeVars, call>>

\* Blocked: _state = HOLD, and from here on another processer may resume it.
SwappedExec(p) ==
  /\ Goto(p, "swapped", "unload")
  /\ state[cur[p]] = "EXEC"
  /\ state' = [state EXCEPT ![cur[p]] = "HOLD"]
  /\ cur' = [cur EXCEPT ![p] = NoFiber]
  /\ UNCHANGED <<saved, victim, loot, sharedVars, stopping, schedVars,
                 wakeVars, call>>

\* Ran to its end: the processer drops it.
SwappedDone(p) ==
  /\ Goto(p, "swapped", "uncount")
  /\ state[cur[p]] \in {"TERM", "EXCEPT"}
  /\ payLoad' = [payLoad EXCEPT ![p] = @ - 1]
  /\ cur' = [cur EXCEPT ![p] = NoFiber]
  /\ UNCHANGED <<fiberVars, victim, loot, que, sem, stopping, schedVars,
                 wakeVars, call>>

\* --m_payLoad after _state = HOLD
Unload(p) ==
  /\ Goto(p, "unload", "fetch")
  /\ payLoad' = [payLoad EXCEPT ![p] = @ - 1]
  /\ UNCHANGED <<fiberVars, cur, victim, loot, que, sem, stopping, schedVars,
                 wakeVars, call>>

Uncount(p) ==
  /\ Goto(p, "uncount", "fetch")
  /\ total' = total - 1
  /\ UNCHANGED <<fiberVars, cur, victim, loot, sharedVars, stopping,
                 hold, currentThread, wakeVars, call>>

-----------------------------------------------------------------------------
(* Scheduler::balance, Processer::steal and Processer::store               *)

Balance(p) ==
  /\ \E t \in Procs :
       /\ IsMaxPayLoad(t)
       /\ Goto(p, "balance", IF N = 1 \/ t = p THEN "check1" ELSE "steal")
       /\ victim' = [victim EXCEPT ![p] = t]
  /\ UNCHANGED <<fiberVars, cur, loot, sharedVars, stopping, schedVars,
                 wakeVars, call>>

\* prc->steal(maxPrc->m_payLoad / 2): prc is the processer that balances.
Steal(p) ==
  /\ Goto(p, "steal", "store")
  /\ LET n == StealCount(payLoad[victim[p]], Len(que[p]))
     IN /\ loot' = [loot EXCEPT ![p] = SubSeq(que[p], 1, n)]
        /\ que' = [que EXCEPT ![p] = SubSeq(@, n + 1, Len(@))]
        /\ payLoad' = [payLoad EXCEPT ![p] = @ - n]
  /\ victim' = [victim EXCEPT ![p] = p]
  /\ UNCHANGED <<fiberVars, cur, sem, stopping, schedVars, wakeVars,
                 call>>

Store(p) ==
  /\ Goto(p, "store", IF loot[p] # <<>> THEN "fetch" ELSE "check1")
  /\ que' = [que EXCEPT ![p] = @ \o loot[p]]
  /\ payLoad' = [payLoad EXCEPT ![p] = @ + Len(loot[p])]
  /\ loot' = [loot EXCEPT ![p] = <<>>]
  /\ UNCHANGED <<fiberVars, cur, victim, sem, stopping, schedVars, wakeVars,
                 call>>

-----------------------------------------------------------------------------
(* The two stop checks of run() and the wait between them                  *)

\* One read of a stop condition.
StopRead(p, from, ok, yes, no) ==
  /\ Goto(p, from, IF ok THEN yes ELSE no)
  /\ UNCHANGED <<fiberVars, cur, victim, loot, sharedVars, stopping, schedVars,
                 wakeVars, call>>

\* Mutant: the stop checks do not look at m_totalFibers.
CheckTotalIgnored(p) ==
  \/ StopRead(p, "check1", stopping[p], "empty1", "wait")
  \/ StopRead(p, "check2", stopping[p], "empty2", "fetch")

CheckTotal(p) ==
  \/ StopRead(p, "check1", stopping[p] /\ total <= 0, "empty1", "wait")
  \/ StopRead(p, "check2", stopping[p] /\ total <= 0, "empty2", "fetch")

CheckEmpty(p) ==
  \/ StopRead(p, "empty1", que[p] = <<>>, "hold1", "wait")
  \/ StopRead(p, "empty2", que[p] = <<>>, "hold2", "fetch")

\* The first check leaves without touching m_currentThread.
ExitCheck1(p) == StopRead(p, "hold1", hold <= 0, "exited", "wait")

ExitCheck2(p) ==
  /\ Goto(p, "hold2", IF hold <= 0 THEN "exited" ELSE "fetch")
  /\ currentThread' = IF hold <= 0 THEN currentThread - 1 ELSE currentThread
  /\ UNCHANGED <<fiberVars, cur, victim, loot, sharedVars, stopping, total,
                 hold, wakeVars, call>>

WaitForNotify(p) ==
  /\ sem[p] > 0
  /\ Goto(p, "wait", "check2")
  /\ sem' = [sem EXCEPT ![p] = @ - 1]
  /\ UNCHANGED <<fiberVars, cur, victim, loot, que, payLoad, stopping,
                 schedVars, wakeVars, call>>

-----------------------------------------------------------------------------
(* What a running fiber does to itself                                     *)

Running(p) == pc[p] = "run" /\ call[p] = NoCall

\* Fiber::YieldToReady
YieldToReady(p) ==
  /\ Running(p)
  /\ Goto(p, "run", "jump")
  /\ state' = [state EXCEPT ![cur[p]] = "READY"]
  /\ UNCHANGED <<saved, cur, victim, loot, sharedVars, stopping,
                 schedVars, wakeVars, call>>

\* Fiber::run: the callback returned or threw.
Finish(p) ==
  /\ Running(p)
  /\ Goto(p, "run", "jump")
  /\ state' = [state EXCEPT ![cur[p]] = IF cur[p] \in Throwing THEN "EXCEPT"
                                       ELSE "TERM"]
  /\ UNCHANGED <<saved, cur, victim, loot, sharedVars, stopping,
                 schedVars, wakeVars, call>>

\* Mutant: the blocking fiber itself sets _state = HOLD before it jumps.
BlockHeldMarks(p) ==
  /\ Running(p)
  /\ Goto(p, "run", "jump")
  /\ held' = held \cup {cur[p]}
  /\ hold' = hold + 1
  /\ state' = [state EXCEPT ![cur[p]] = "HOLD"]
  /\ UNCHANGED <<saved, cur, victim, loot, sharedVars, stopping,
                 total, currentThread, fresh, timed, call>>

\* CoSemaphore::wait or a reactor event, then YieldToHold: registered with
\* its waker while still on its own stack.
BlockHeld(p) ==
  /\ Running(p)
  /\ Goto(p, "run", "jump")
  /\ held' = held \cup {cur[p]}
  /\ hold' = hold + 1
  /\ UNCHANGED <<fiberVars, cur, victim, loot, sharedVars, stopping,
                 total, currentThread, fresh, timed, call>>

\* Scheduler::addTimer with no callback, then YieldToHold: no hold counted.
Sleep(p) ==
  /\ Running(p) /\ cur[p] \in Sleepers
  /\ Goto(p, "run", "jump")
  /\ timed' = timed \cup {cur[p]}
  /\ UNCHANGED <<fiberVars, cur, victim, loot, sharedVars, stopping,
                 schedVars, fresh, held, call>>

-----------------------------------------------------------------------------
(* Handing a fiber to a processer.  A call is: choose the target, count a  *)
(* new fiber, push, ++m_payLoad, notify, and for a hold --m_holdCount.     *)

\* The owner adds fibers only until it stops the scheduler.
CanCall(c) ==
  /\ call[c] = NoCall
  /\ c \in Procs => pc[c] = "run"
  /\ c = Main => \A p \in Procs : ~stopping[p]

Begin(c, f, k) ==
  \E t \in Procs :
    /\ IsMinPayLoad(t)
    /\ call' = [call EXCEPT ![c] =
                 [step |-> IF k = "new" THEN "count" ELSE "push",
                  fib |-> f, tgt |-> t, kind |-> k]]

\* Scheduler::addNewFiber(cb) from the owner or from a fiber
AddNewFiber(c, f) ==
  /\ c # ReactorT /\ CanCall(c)
  /\ f \in fresh \ CbFibers
  /\ fresh' = fresh \ {f}
  /\ Begin(c, f, "new")
  /\ UNCHANGED <<fiberVars, procVars, sharedVars, stopping, schedVars, held,
                 timed>>

\* Scheduler::addTimer with a callback: the fiber exists, nothing counts it.
ArmTimer(c, f) ==
  /\ c # ReactorT /\ CanCall(c)
  /\ f \in fresh \cap CbFibers
  /\ fresh' = fresh \ {f}
  /\ timed' = timed \cup {f}
  /\ UNCHANGED <<fiberVars, procVars, sharedVars, stopping, schedVars, held,
                 call>>

\* CoSemaphore::notify by a fiber, or the reactor triggering an event
ActivateFiber(c, f) ==
  /\ c # Main /\ CanCall(c)
  /\ f \in held
  /\ held' = held \ {f}
  /\ Begin(c, f, "held")
  /\ UNCHANGED <<fiberVars, procVars, sharedVars, stopping, schedVars, fresh,
                 timed>>

\* The reactor hands over the task of an expired timer.
ExpireTimer(f) ==
  /\ CanCall(ReactorT)
  /\ f \in timed
  /\ timed' = timed \ {f}
  /\ Begin(ReactorT, f, "timer")
  /\ UNCHANGED <<fiberVars, procVars, sharedVars, stopping, schedVars, fresh,
                 held>>

\* Call c is at step `from' and goes on to `to'; an ended call is forgotten.
Advance(c, from, to) ==
  /\ call[c].step = from
  /\ call' = [call EXCEPT ![c] = IF to = "idle" THEN NoCall
                                 ELSE [@ EXCEPT !.step = to]]

CountNew(c) ==
  /\ Advance(c, "count", "push")
  /\ total' = total + 1
  /\ UNCHANGED <<fiberVars, procVars, sharedVars, stopping, hold,
                 currentThread, wakeVars>>

PushFiber(c) ==
  /\ Advance(c, "push", "load")
  /\ que' = [que EXCEPT ![call[c].tgt] = Append(@, call[c].fib)]
  /\ UNCHANGED <<fiberVars, procVars, payLoad, sem, stopping, schedVars,
                 wakeVars>>

AddLoad(c) ==
  /\ Advance(c, "load", "post")
  /\ payLoad' = [payLoad EXCEPT ![call[c].tgt] = @ + 1]
  /\ UNCHANGED <<fiberVars, procVars, que, sem, stopping, schedVars, wakeVars>>

\* Mutant: a processer that has other work is not notified.
NotifyProcIfIdle(c) ==
  /\ Advance(c, "post", IF call[c].kind = "held" THEN "unhold" ELSE "idle")
  /\ IF payLoad[call[c].tgt] <= 0 THEN Post(call[c].tgt) ELSE UNCHANGED sem
  /\ UNCHANGED <<fiberVars, procVars, que, payLoad, stopping, schedVars,
                 wakeVars>>

NotifyProc(c) ==
  /\ Advance(c, "post", IF call[c].kind = "held" THEN "unhold" ELSE "idle")
  /\ Post(call[c].tgt)
  /\ UNCHANGED <<fiberVars, procVars, que, payLoad, stopping, schedVars,
                 wakeVars>>

DelHold(c) ==
  /\ Advance(c, "unhold", "idle")
  /\ hold' = hold - 1
  /\ UNCHANGED <<fiberVars, procVars, sharedVars, stopping, total,
                 currentThread, wakeVars>>

\* Processer::stop
StopProc(p) ==
  /\ call[Main] = NoCall
  /\ p \in Stopped /\ ~stopping[p]
  /\ stopping' = [stopping EXCEPT ![p] = TRUE]
  /\ Post(p)
  /\ UNCHANGED <<fiberVars, procVars, que, payLoad, schedVars, wakeVars, call>>

\* Mutant: the dispatcher's sweep leaves out the first processer.
DispatcherNotifyShort(p) ==
  /\ Dispatching /\ currentThread > 0 /\ p > 0
  /\ Post(p)
  /\ UNCHANGED <<fiberVars, procVars, que, payLoad, stopping, schedVars,
                 wakeVars, call>>

\* One notify of Scheduler::dispatcher's sweep over the processers.
DispatcherNotify(p) ==
  /\ Dispatching /\ currentThread > 0
  /\ Post(p)
  /\ UNCHANGED <<fiberVars, procVars, que, payLoad, stopping, schedVars,
                 wakeVars, call>>

-----------------------------------------------------------------------------
\* f has run to its end and its processer has let go of it.
Finished(f) == state[f] \in {"TERM", "EXCEPT"} /\ \A p \in Procs : cur[p] # f

LoopStep(p) ==
  \/ Fetch(p) \/ CheckHold(p) \/ CheckReady(p) \/ CheckExec(p)
  \/ SetReady(p) \/ SwapIn(p) \/ Jump(p)
  \/ SwappedReady(p) \/ SwappedExec(p) \/ SwappedDone(p)
  \/ Unload(p) \/ Uncount(p) \/ Balance(p) \/ Steal(p) \/ Store(p)
  \/ CheckTotal(p) \/ CheckEmpty(p) \/ ExitCheck1(p) \/ ExitCheck2(p)
  \/ WaitForNotify(p)

LeaveStep(p) == YieldToReady(p) \/ Finish(p) \/ BlockHeld(p) \/ Sleep(p)

CallBegin(c) ==
  \E f \in Fibers : AddNewFiber(c, f) \/ ArmTimer(c, f) \/ ActivateFiber(c, f)

CallStepOf(c) ==
  CountNew(c) \/ PushFiber(c) \/ AddLoad(c) \/ NotifyProc(c) \/ DelHold(c)

ProcNext ==
  \/ \E p \in Procs : LoopStep(p) \/ LeaveStep(p)
  \/ \E c \in Callers : CallBegin(c) \/ CallStepOf(c)
  \/ \E f \in Fibers : ExpireTimer(f)

\* Nothing is left to do: every processer has left run(), or sleeps with
\* every fiber done and nobody going to stop it.
AtRest ==
  /\ \A p \in Procs : \/ pc[p] = "exited"
                      \/ /\ pc[p] = "wait" /\ p \notin Stopped
                         /\ \A f \in Fibers : Finished(f)
  /\ UNCHANGED vars

Next ==
  \/ ProcNext
  \/ \E p \in Procs : StopProc(p) \/ DispatcherNotify(p)
  \/ AtRest

Spec == Init /\ [][Next]_vars

-----------------------------------------------------------------------------
(* Properties                                                              *)

\* p is executing instructions of the fiber's stack.
OnStack(p) == pc[p] \in {"run", "jump"}

\* The fiber p holds is p's to place: not once a blocking fiber has been
\* registered with its waker.
Owns(p) ==
  /\ cur[p] # NoFiber
  /\ pc[p] \in {"jump", "swapped"} => state[cur[p]] # "EXEC"

\* The positions of fiber f in a processer's queue or list.
SeqPlaces(tag, seqs, f) ==
  UNION {{<<tag, p, i>> : i \in {j \in DOMAIN seqs[p] : seqs[p][j] = f}} : p \in Procs}
HandPlaces(f) == {<<"cur", p, 0>> : p \in {q \in Procs : Owns(q) /\ cur[q] = f}}
CallPlaces(f) ==
  {<<"call", c, 0>> : c \in {d \in Callers : call[d].fib = f
                                          /\ call[d].step \in {"count", "push"}}}
SetPlaces(tag, S, f) == {<<tag, 0, 0>> : x \in S \cap {f}}

\* Everywhere fiber f is.
Places(f) ==
  SeqPlaces("que", que, f) \cup SeqPlaces("loot", loot, f)
  \cup HandPlaces(f) \cup CallPlaces(f)
  \cup SetPlaces("fresh", fresh, f) \cup SetPlaces("held", held, f)
  \cup SetPlaces("timed", timed, f)
  \cup SetPlaces("done", {g \in Fibers : Finished(g)}, f)

\* A fiber executes on at most one processer, although a woken fiber can be
\* fetched by a second processer while its first one still runs it
\* (Processer.cpp 175-184).
OneRunner ==
  \A p, q \in Procs : p # q /\ OnStack(p) /\ OnStack(q) => cur[p] # cur[q]

\* swapIn jumps only to a context that was completely saved, and the
\* assertions around it hold (Processer.cpp 192, fiber.cpp 108).
ResumeSaved ==
  \A p \in Procs : pc[p] = "swapIn" => cur[p] \in saved /\ state[cur[p]] = "READY"

\* No interleaving of blocking, waking, requeueing, yielding and balancing
\* loses a fiber or queues it twice.
OnePlace ==
  \A f \in Fibers : LET P == Places(f) IN \E x \in P : \A y \in P : y = x

\* A processer asleep in waitForNotify with work in its queue has a notify
\* coming: addFiber pushes before it posts (Processer.cpp 57-59, 229).
NoLostWakeup ==
  \A p \in Procs : pc[p] = "wait" /\ que[p] # <<>> =>
    \/ sem[p] > 0
    \/ \E c \in Callers : call[c].tgt = p /\ call[c].step \in {"load", "post"}

\* run() returns only when the work is over: every fiber that was added has
\* finished (Processer.cpp 218-240), and none is added afterwards.
NoEarlyExit ==
  \A p \in Procs : pc[p] = "exited" =>
    \A f \in Fibers \ (fresh \cup CbFibers) : Finished(f)

\* A queued fiber is eventually resumed, in spite of the requeueing loop.
QueuedRuns ==
  \A f \in Fibers :
    (\E p \in Procs : \E i \in DOMAIN que[p] : que[p][i] = f)
      ~> (\E p \in Procs : OnStack(p) /\ cur[p] = f)

\* fiber.cpp 76: a fiber that is destroyed with the scheduler, after every
\* processer has left run(), is not suspended in the middle of its callback.
NoneLeftSuspended ==
  (\A p \in Procs : pc[p] = "exited") =>
    \A f \in Fibers : state[f] \in {"INIT", "TERM", "EXCEPT"}

\* Scheduler.hpp 73 and Processer.cpp 212: what an idle processer steals
\* comes from another processer's queue, not from its own.
StealTakesFromOthers ==
  [][\A p \in Procs : loot[p] = <<>> /\ loot'[p] # <<>> => que'[p] = que[p]]_vars

=============================================================================
