------------------------------ MODULE Scheduler ------------------------------
(***************************************************************************)
(* The life of a Scheduler around the processers of module Processer:      *)
(* Scheduler::stop on the owner's thread, the dispatcher thread that keeps *)
(* waking processers, and the reactor thread's decision to leave its loop. *)
(* Three threads decide separately, each from its own counter, that the    *)
(* work is over: processers from m_totalFibers <= 0 and m_holdCount <= 0,  *)
(* the reactor from both being 0, the dispatcher from m_currentThread.     *)
(***************************************************************************)
EXTENDS Processer

VARIABLES
  owner,    \* where stop() is on the owner's thread, and its loop index
  rstop,    \* Reactor::m_stopping
  rx,       \* the reactor's thread: in its loop, or gone
  disp      \* the dispatcher's thread: in its loop, or gone

lifeVars == <<owner, rstop, rx, disp>>
schedulerVars == <<vars, lifeVars>>

\* After Scheduler::start: reactor, processers and dispatcher are running.
SchedInit ==
  /\ Init
  /\ owner = [at |-> "up", i |-> 0]
  /\ rstop = FALSE /\ rx = "run" /\ disp = "run"

-----------------------------------------------------------------------------
\* stop(): m_stopping = true and m_reactor->stop()
StopReactor ==
  /\ owner.at = "up" /\ call[Main] = NoCall
  /\ owner' = [at |-> "stop", i |-> 0]
  /\ rstop' = TRUE
  /\ UNCHANGED <<vars, rx, disp>>

\* m_pcsQue[i]->stop()
StopNext ==
  /\ owner.at = "stop"
  /\ StopProc(owner.i)
  /\ owner' = [owner EXCEPT !.at = "join"]
  /\ UNCHANGED <<rstop, rx, disp>>

\* m_pcsQue[i]->join(), and on to the next processer
JoinNext ==
  /\ owner.at = "join" /\ pc[owner.i] = "exited"
  /\ owner' = [at |-> IF owner.i + 1 < N THEN "stop" ELSE "joinReactor",
               i |-> owner.i + 1]
  /\ UNCHANGED <<vars, rstop, rx, disp>>

JoinReactor ==
  /\ owner.at = "joinReactor" /\ rx = "exited"
  /\ owner' = [owner EXCEPT !.at = "joinDispatcher"]
  /\ UNCHANGED <<vars, rstop, rx, disp>>

JoinDispatcher ==
  /\ owner.at = "joinDispatcher" /\ disp = "exited"
  /\ owner' = [owner EXCEPT !.at = "done"]
  /\ UNCHANGED <<vars, rstop, rx, disp>>

\* Mutant: the reactor leaves although there are fibers that hold nothing.
ReactorExitOnHold ==
  /\ rx = "run" /\ call[ReactorT] = NoCall
  /\ hold = 0 /\ rstop
  /\ rx' = "exited"
  /\ UNCHANGED <<vars, owner, rstop, disp>>

\* Reactor::isStopping at the top of the reactor's loop
ReactorExit ==
  /\ rx = "run" /\ call[ReactorT] = NoCall
  /\ hold = 0 /\ rstop /\ total = 0
  /\ rx' = "exited"
  /\ UNCHANGED <<vars, owner, rstop, disp>>

\* The dispatcher's loop ends when it finds no thread left.
DispatcherExit ==
  /\ disp = "run" /\ currentThread <= 0
  /\ disp' = "exited"
  /\ UNCHANGED <<vars, owner, rstop, rx>>

-----------------------------------------------------------------------------
OwnerStep == StopReactor \/ StopNext \/ JoinNext \/ JoinReactor \/ JoinDispatcher

ReactorStep == (\E f \in Fibers : ExpireTimer(f) \/ ActivateFiber(ReactorT, f))
               \/ CallStepOf(ReactorT)

\* The threads of module Processer; the reactor only while it is in its loop
\* and the owner only until it calls stop().
RuntimeStep ==
  /\ \/ \E p \in Procs : LoopStep(p) \/ LeaveStep(p) \/ CallBegin(p) \/ CallStepOf(p)
     \/ \E p \in Procs : disp = "run" /\ DispatcherNotify(p)
     \/ rx = "run" /\ ReactorStep
     \/ owner.at = "up" /\ CallBegin(Main)
     \/ CallStepOf(Main)
  /\ UNCHANGED lifeVars

SchedDone == owner.at = "done" /\ UNCHANGED schedulerVars

SchedNext ==
  OwnerStep \/ ReactorExit \/ DispatcherExit \/ RuntimeStep \/ SchedDone

SchedSpec == SchedInit /\ [][SchedNext]_schedulerVars

\* Threads keep running, the reactor delivers what it holds, and every fiber
\* ends (stop() waits for them).
SchedFair ==
  /\ WF_schedulerVars(StopNext \/ JoinNext \/ JoinReactor \/ JoinDispatcher)
  /\ WF_schedulerVars(ReactorExit) /\ WF_schedulerVars(DispatcherExit)
  /\ WF_schedulerVars(rx = "run" /\ ReactorStep /\ UNCHANGED lifeVars)
  /\ WF_schedulerVars(CallStepOf(Main) /\ UNCHANGED lifeVars)
  /\ \A p \in Procs :
       /\ WF_schedulerVars(LoopStep(p) /\ UNCHANGED lifeVars)
       /\ SF_schedulerVars(Finish(p) /\ UNCHANGED lifeVars)
       /\ WF_schedulerVars(CallStepOf(p) /\ UNCHANGED lifeVars)
       /\ WF_schedulerVars(disp = "run" /\ DispatcherNotify(p) /\ UNCHANGED lifeVars)

SchedFairSpec == SchedSpec /\ SchedFair

-----------------------------------------------------------------------------
(* Properties                                                              *)

AllFinished == \A f \in Fibers \ fresh : Finished(f)

\* The reactor is the only thread that wakes a fiber blocked on I/O or on a
\* timer: it leaves its loop (Reactor.cpp 264-288) only when no fiber is left.
ReactorOutlivesFibers == rx = "exited" => AllFinished

\* stop() joins every processer and the reactor once the fibers end, whatever
\* the order in which the threads notice (Scheduler.cpp 96-100).
StopJoinsWorkers == (owner.at = "stop") ~> (owner.at \in {"joinDispatcher", "done"})

\* stop() returns (Scheduler.cpp 89-103).
StopReturns == (owner.at = "stop") ~> (owner.at = "done")
=============================================================================
