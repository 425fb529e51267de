-------------------------------- MODULE HookIO --------------------------------
(***************************************************************************)
(* The hooked I/O calls (netio/Hook.cpp) on top of the reactor: do_io      *)
(* tries the call, on EAGAIN arms a timeout, registers with the reactor,   *)
(* switches out and tries again; connect does the same once; close cancels *)
(* the waiting fibers and then closes the descriptor.  The timeout is a    *)
(* callback that runs in a fiber of its own, possibly on another           *)
(* processer, so it runs between any two steps of the call it belongs to.  *)
(* It shares a TimerInfo with the call, through a weak pointer.            *)
(***************************************************************************)
EXTENDS Reactor

CONSTANTS
  Timed,      \* fibers whose calls have a timeout
  Connecting, \* fibers whose call is connect
  Closable,   \* descriptors that are closed at some time
  MaxIter     \* bound: timeouts armed by one fiber

ASSUME HookAssumption ==
  /\ Timed \subseteq Fibers /\ Connecting \subseteq Fibers
  /\ Closable \subseteq Fds /\ MaxIter \in Nat

VARIABLES
  io,        \* the call each fiber is in
  iter,      \* the TimerInfo the call uses now: one more per attempt
  cbs,       \* timers that are armed and timeout callbacks that run
  cancled,   \* TimerInfo objects in use with cancled set
  ret,       \* what each fiber's last call returned
  fdst       \* how far close() is with each descriptor

hookVars == <<io, iter, cbs, cancled, ret, fdst>>
allVars == <<reactorVars, hookVars>>

IoAt == {"idle", "try", "arm", "add", "hold", "woken", "check"}
Calls == [pc : IoAt, fd : Fds, t : Types]

\* A callback is [f, it, fd, t, pc]: of fiber f's attempt it, for event t of fd,
\* at "armed" (its timer runs), "queued", "locked" or "cancel".
\* ret: "none" (no result yet), "ok", "error" or "timeout".

HookInit ==
  /\ ReactorInit
  /\ io \in [Fibers -> {c \in Calls : c.pc = "idle"}]
  /\ iter = [f \in Fibers |-> 0] /\ cbs = {} /\ cancled = {}
  /\ ret = [f \in Fibers |-> "none"]
  /\ fdst = [fd \in Fds |-> "open"]

-----------------------------------------------------------------------------
(* do_io and connect                                                       *)

Goto(f, from, to) == io[f].pc = from /\ io' = [io EXCEPT ![f].pc = to]
Return(f, r) == ret' = [ret EXCEPT ![f] = r]

\* Bound: attempts that arm a timeout; a fiber connects its socket once.
Attempts(f) == IF f \in Connecting THEN 1 ELSE MaxIter

\* The descriptor is known to the FdManager.
Start(f) ==
  /\ Goto(f, "idle", "try") /\ iter[f] < Attempts(f)
  /\ fdst[io[f].fd] \in {"open", "cancelled"}
  /\ Return(f, "none")
  /\ UNCHANGED <<reactorVars, iter, cbs, cancled, fdst>>

\* oriFunc: the loop does not look at the descriptor's state again.  A call
\* takes all there is or leaves some of it.  connect: the connection is there
\* at once, is refused at once, or is in progress.
Try(f) ==
  LET fd == io[f].fd  t == io[f].t
  IN \/ /\ fdst[fd] = "closed"
        /\ Goto(f, "try", "idle") /\ Return(f, "error")
        /\ UNCHANGED <<reactorVars, iter, cbs, cancled, fdst>>
     \/ /\ fdst[fd] # "closed" /\ t \in Ready(fd)
        /\ Goto(f, "try", "idle")
        /\ Return(f, IF f \in Connecting /\ fd \in hup THEN "error" ELSE "ok")
        /\ (f \notin Connecting /\ Consume(fd, t)) \/ UNCHANGED reactorVars
        /\ UNCHANGED <<iter, cbs, cancled, fdst>>
     \/ /\ fdst[fd] # "closed" /\ t \notin Ready(fd)
        /\ Goto(f, "try", "arm") /\ iter[f] < MaxIter
        /\ UNCHANGED <<reactorVars, iter, cbs, cancled, ret, fdst>>

\* A new TimerInfo, and the timer if the call has a timeout.
Arm(f) ==
  /\ Goto(f, "arm", "add")
  /\ iter' = [iter EXCEPT ![f] = @ + 1]
  /\ cbs' = IF f \in Timed
            THEN cbs \cup {[f |-> f, it |-> iter'[f], fd |-> io[f].fd, t |-> io[f].t,
                            pc |-> "armed"]}
            ELSE cbs
  /\ UNCHANGED <<reactorVars, cancled, ret, fdst>>

\* Timer::cancel: a timer that has expired is not stopped.
StopTimer(f) == cbs' = {c \in cbs : ~(c.f = f /\ c.it = iter[f] /\ c.pc = "armed")}

\* tinfo goes out of scope.
Drop(f) == cancled' = cancled \ {<<f, iter[f]>>}

\* Mutant: the failure path forgets the timer.
AddLeavesTimer(f) ==
  LET fd == io[f].fd  t == io[f].t
  IN \/ /\ Goto(f, "add", "hold")
        /\ fdst[fd] # "closed" /\ AddEvent(f, fd, t)
        /\ UNCHANGED <<iter, cbs, cancled, ret, fdst>>
     \/ /\ Goto(f, "add", "idle") /\ Return(f, "error")
        /\ fdst[fd] = "closed" \/ t \in event[fd]
        /\ Drop(f)
        /\ UNCHANGED <<reactorVars, iter, cbs, fdst>>

\* addReadEvent or addWriteEvent, then YieldToHold; a refused registration
\* fails the call.
Add(f) ==
  LET fd == io[f].fd  t == io[f].t
  IN \/ /\ Goto(f, "add", "hold")
        /\ fdst[fd] # "closed" /\ AddEvent(f, fd, t)
        /\ UNCHANGED <<iter, cbs, cancled, ret, fdst>>
     \/ /\ Goto(f, "add", "idle") /\ Return(f, "error")
        /\ fdst[fd] = "closed" \/ t \in event[fd]
        /\ StopTimer(f) /\ Drop(f)
        /\ UNCHANGED <<reactorVars, iter, fdst>>

\* Back from YieldToHold
Wake(f) ==
  /\ Goto(f, "hold", "woken")
  /\ Resume(f)
  /\ UNCHANGED <<iter, cbs, cancled, ret, fdst>>

CancelTimer(f) ==
  /\ Goto(f, "woken", "check")
  /\ StopTimer(f)
  /\ UNCHANGED <<reactorVars, iter, cancled, ret, fdst>>

\* Mutant: connect does not look at SO_ERROR.
CheckIgnoresError(f) ==
  /\ \/ /\ <<f, iter[f]>> \in cancled
        /\ Goto(f, "check", "idle") /\ Return(f, "timeout")
     \/ /\ <<f, iter[f]>> \notin cancled /\ f \in Connecting
        /\ Goto(f, "check", "idle") /\ Return(f, "ok")
     \/ /\ <<f, iter[f]>> \notin cancled /\ f \notin Connecting
        /\ Goto(f, "check", "try") /\ UNCHANGED ret
  /\ Drop(f)
  /\ UNCHANGED <<reactorVars, iter, cbs, fdst>>

\* getsockopt(SO_ERROR) fails on a closed descriptor, tells that a connection
\* was refused, may tell that one was lost, and tells nothing of a connection
\* that is still in progress.
SoError(fd, t) ==
  IF fdst[fd] = "closed" \/ (fd \in hup /\ t \notin level[fd]) THEN {"error"}
  ELSE IF fd \in hup THEN {"ok", "error"} ELSE {"ok"}

\* tinfo->cancled: the timeout was first.  Otherwise do_io tries again, and
\* connect asks for SO_ERROR.
Check(f) ==
  /\ \/ /\ <<f, iter[f]>> \in cancled
        /\ Goto(f, "check", "idle") /\ Return(f, "timeout")
     \/ /\ <<f, iter[f]>> \notin cancled /\ f \in Connecting
        /\ Goto(f, "check", "idle")
        /\ \E r \in SoError(io[f].fd, io[f].t) : Return(f, r)
     \/ /\ <<f, iter[f]>> \notin cancled /\ f \notin Connecting
        /\ Goto(f, "check", "try") /\ UNCHANGED ret
  /\ Drop(f)
  /\ UNCHANGED <<reactorVars, iter, cbs, fdst>>

-----------------------------------------------------------------------------
(* The timeout callback                                                    *)

\* The call still uses the TimerInfo of c: winfo.lock() succeeds.
Alive(c) == iter[c.f] = c.it /\ io[c.f].pc \in {"add", "hold", "woken", "check"}

Move(c, to) == cbs' = (cbs \ {c}) \cup {[c EXCEPT !.pc = to]}

\* The reactor hands the expired timer's callback to the scheduler.
Expire(c) ==
  /\ c.pc = "armed"
  /\ Move(c, "queued")
  /\ UNCHANGED <<reactorVars, io, iter, cancled, ret, fdst>>

Lock(c) ==
  /\ c.pc = "queued"
  /\ IF Alive(c) /\ <<c.f, c.it>> \notin cancled THEN Move(c, "locked")
                                               ELSE cbs' = cbs \ {c}
  /\ UNCHANGED <<reactorVars, io, iter, cancled, ret, fdst>>

\* Mutant: the callback wakes the fiber without a mark that it is a timeout.
SetCancledForgets(c) ==
  /\ c.pc = "locked"
  /\ Move(c, "cancel")
  /\ UNCHANGED <<reactorVars, io, iter, cancled, ret, fdst>>

\* The callback's own pointer may be the last one to the TimerInfo.
SetCancled(c) ==
  /\ c.pc = "locked"
  /\ Move(c, "cancel")
  /\ cancled' = IF Alive(c) THEN cancled \cup {<<c.f, c.it>>} ELSE cancled
  /\ UNCHANGED <<reactorVars, io, iter, ret, fdst>>

\* Mutant: the callback hands the fiber over itself.
CancelWaitActivates(c) ==
  /\ c.pc = "cancel"
  /\ cbs' = cbs \ {c}
  /\ woken' = woken \cup {c.f}
  /\ UNCHANGED <<event, task, hold, batch, kev, kernelVars, edge>>
  /\ UNCHANGED <<io, iter, cancled, ret, fdst>>

\* Mutant: the callback only leaves its mark.
CancelWaitSkips(c) ==
  /\ c.pc = "cancel"
  /\ cbs' = cbs \ {c}
  /\ UNCHANGED <<reactorVars, io, iter, cancled, ret, fdst>>

\* cancelReadEvent or cancelWriteEvent: whoever waits there now.  On a closed
\* descriptor epoll_ctl fails and nothing is triggered.
CancelWait(c) ==
  /\ c.pc = "cancel"
  /\ cbs' = cbs \ {c}
  /\ IF c.t \in event[c.fd] /\ fdst[c.fd] # "closed" THEN CancelEvent(c.fd, c.t)
                                                    ELSE UNCHANGED reactorVars
  /\ UNCHANGED <<io, iter, cancled, ret, fdst>>

-----------------------------------------------------------------------------
(* close(), by another fiber                                               *)

CloseCancel(fd) ==
  /\ fd \in Closable /\ fdst[fd] = "open"
  /\ fdst' = [fdst EXCEPT ![fd] = "cancelled"]
  /\ IF event[fd] # {} THEN CancelAll(fd) ELSE UNCHANGED reactorVars
  /\ UNCHANGED <<io, iter, cbs, cancled, ret>>

CloseDelete(fd) ==
  /\ fdst[fd] = "cancelled"
  /\ fdst' = [fdst EXCEPT ![fd] = "deleted"]
  /\ UNCHANGED <<reactorVars, io, iter, cbs, cancled, ret>>

\* close_f: the kernel forgets the descriptor and its place in epoll.
CloseFd(fd) ==
  /\ fdst[fd] = "deleted"
  /\ fdst' = [fdst EXCEPT ![fd] = "closed"]
  /\ kev' = [kev EXCEPT ![fd] = {}]
  /\ edge' = edge \ {fd}
  /\ UNCHANGED <<event, task, hold, batch, kernelVars, woken, io, iter, cbs, cancled,
                 ret>>

-----------------------------------------------------------------------------
\* For a socket that connects, the arrival of its event is the connection, and
\* a hang-up without it the refusal; nothing arrives after a hang-up.
KernelEvent ==
  /\ \E fd \in Fds \ hup : HangUp(fd) \/ \E t \in Types : Arrive(fd, t)
  /\ UNCHANGED hookVars

\* A report about a closed descriptor fails in epoll_ctl and is dropped.
HandleOpen(e) ==
  \/ fdst[e.fd] # "closed" /\ Handle(e)
  \/ /\ fdst[e.fd] = "closed" /\ batch' = batch \ {e}
     /\ UNCHANGED <<event, task, hold, kev, kernelVars, edge, woken>>

Loop == (EpollWait \/ \E e \in batch : HandleOpen(e)) /\ UNCHANGED hookVars

CallStep(f) == Try(f) \/ Arm(f) \/ Add(f) \/ Wake(f) \/ CancelTimer(f) \/ Check(f)
CallbackStep(c) == Expire(c) \/ Lock(c) \/ SetCancled(c) \/ CancelWait(c)
CloseStep(fd) == CloseCancel(fd) \/ CloseDelete(fd) \/ CloseFd(fd)

\* Every call has returned, or the program has crashed.
Quiet == (Crashed \/ \A f \in Fibers : io[f].pc = "idle") /\ UNCHANGED allVars

HookNext ==
  \/ /\ ~Crashed
     /\ \/ KernelEvent \/ Loop
        \/ \E f \in Fibers : Start(f) \/ CallStep(f)
        \/ \E c \in cbs : CallbackStep(c)
        \/ \E fd \in Fds : CloseStep(fd)
  \/ Quiet

HookSpec == HookInit /\ [][HookNext]_allVars

\* Threads run and timers expire; nothing arrives by itself.  There are finitely
\* many callbacks of finitely many steps, so fairness to all is fair to each.
HookFairSpec ==
  /\ HookSpec /\ WF_allVars(~Crashed /\ Loop)
  /\ \A f \in Fibers : WF_allVars(~Crashed /\ CallStep(f))
  /\ WF_allVars(~Crashed /\ \E c \in cbs : CallbackStep(c))

-----------------------------------------------------------------------------
(* Properties                                                              *)

\* Event, timeout and close race to wake a fiber (Hook.cpp 184-213, 502): it is
\* handed over once for each time it switched out, and only then.
WokenOnce ==
  \A f \in Fibers :
    /\ f \in woken => io[f].pc = "hold" /\ ~Registered(f)
    /\ Registered(f) => io[f].pc = "hold"
    /\ io[f].pc = "hold" => f \in woken \/ Registered(f)

\* A call that has returned or goes into its next attempt leaves no timer of
\* the attempt before behind (Hook.cpp 212, 239).
NoTimerLeft ==
  \A c \in cbs : c.pc = "armed" => Alive(c)

\* connect reports success only for a connection that was made: neither a
\* refusal, which makes the socket writable too, nor a wake-up by the timeout is
\* taken for one (Hook.cpp 332-403).  Left out are a close(), which wakes the
\* fiber with no mark (ConnectSurvivesClose), and calls of other fibers on a
\* socket whose connect has not returned.
ConnectTruthful ==
  \A f \in Connecting :
    /\ ret[f] = "ok" /\ fdst[io[f].fd] = "open"
    /\ \A g \in Fibers \ {f} : io[g].pc = "idle" /\ iter[g] = 0 /\ ret[g] = "none"
    => io[f].t \in level[io[f].fd]

\* A timeout that expires after its call has registered ends the call, with
\* nothing arriving and whatever was cancelled before, unless the descriptor
\* is being closed (Hook.cpp 185-213).
TimeoutEnds ==
  \A f \in Timed :
    (io[f].pc = "hold" /\ \E c \in cbs : c.f = f /\ c.it = iter[f] /\ c.pc = "armed")
      ~> (io[f].pc # "hold" \/ fdst[io[f].fd] # "open")

\* FdManager.hpp 112, "读写超时时间" (read and write timeout): a call with a timeout
\* does not stay switched out, whether or not anything arrives.
TimedCallEnds ==
  \A f \in Timed : (io[f].pc = "hold") ~> (io[f].pc # "hold")

\* ConnectTruthful with a close() as well: the fiber that close() wakes while
\* the connection is in progress reads SO_ERROR = 0 (Hook.cpp 374-397, 502).
ConnectSurvivesClose ==
  \A f \in Connecting :
    /\ ret[f] = "ok"
    /\ \A g \in Fibers \ {f} : io[g].pc = "idle" /\ iter[g] = 0 /\ ret[g] = "none"
    => io[f].t \in level[io[f].fd]

\* Reactor.hpp 53, "取消fd的所有事件并且触发" (cancel all events of fd and trigger them):
\* when close() is done no fiber waits on the descriptor.
NoWaiterOnClosed == \A fd \in Fds : fdst[fd] = "closed" => event[fd] = {}
=============================================================================
