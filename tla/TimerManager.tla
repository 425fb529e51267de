----------------------------- MODULE TimerManager -----------------------------
(***************************************************************************)
(* Timers (scheduler/TimerManager) and the reactor thread that serves      *)
(* them: it sleeps in epoll_wait until the earliest timer is due, and a    *)
(* thread that adds an earlier one writes to the notify pipe to shorten    *)
(* the sleep.  m_mx makes addTimer, cancel and getExpiredTasks atomic; the *)
(* write to the pipe, the clock reads and the hand-over are outside it.    *)
(***************************************************************************)
EXTENDS Integers, Sequences, FiniteSets

CONSTANTS
  Timers,      \* Timer objects, ordered like their addresses
  Loops,       \* those added with TimerType LOOP
  Interval,    \* m_interval of each
  MaxTimeOut,  \* Reactor::run's bound on a sleep
  MaxTime,     \* bound: the clock stops here
  MaxFires     \* bound: hand-overs of one timer

ASSUME TimerAssumption ==
  /\ Timers \subseteq Nat /\ IsFiniteSet(Timers) /\ Loops \subseteq Timers
  /\ Interval \in [Timers -> Nat]
  /\ MaxTimeOut \in Nat \ {0} /\ MaxTime \in Nat /\ MaxFires \in Nat \ {0}

VARIABLES
  now,        \* Timer::getCurrentTime()
  m_timers,   \* the set of timers
  expire,     \* m_nxtExpireTime
  task,       \* timers with m_fiber # nullptr
  cancelled,  \* m_cancelled
  user,       \* the thread that owns each timer
  pipe,       \* whether the notify pipe holds bytes
  reactor,    \* where the reactor's thread is
  cur, nap,   \* the clock value it read and the sleep it computed
  res,        \* what getExpiredTasks returned and is not handed over yet
  fired,      \* hand-overs of each timer's fiber
  last        \* when a LOOP timer was handed over last

timerVars == <<now, m_timers, expire, task, cancelled, user, pipe, reactor, cur,
               nap, res, fired, last>>

\* new: not constructed, made: constructed, notify: inserted at the head and
\* still to notify, armed: addTimer has returned, cancelled: cancel() returned true
TimerInit ==
  /\ now = 0 /\ m_timers = {} /\ task = {} /\ cancelled = {}
  /\ expire = [t \in Timers |-> 0]
  /\ user = [t \in Timers |-> "new"]
  /\ pipe = FALSE /\ reactor = "clock" /\ cur = 0 /\ nap = 0 /\ res = <<>>
  /\ fired = [t \in Timers |-> 0] /\ last = [t \in Timers |-> 0]

-----------------------------------------------------------------------------
\* TimerManager::Comparator
Before(t, u) == expire[t] < expire[u] \/ (expire[t] = expire[u] /\ t < u)

\* The timers of S in that order
InOrder(S) ==
  {s \in [1..Cardinality(S) -> S] : \A i, j \in DOMAIN s : i < j => Before(s[i], s[j])}

First(S, t) == t \in S /\ \A u \in S \ {t} : Before(t, u)

\* The Timer constructor reads the clock ...
NewTimer(t) ==
  /\ user[t] = "new" /\ now + Interval[t] <= MaxTime
  /\ user' = [user EXCEPT ![t] = "made"]
  /\ expire' = [expire EXCEPT ![t] = now + Interval[t]]
  /\ UNCHANGED <<now, m_timers, task, cancelled, pipe, reactor, cur, nap, res,
                 fired, last>>

\* Mutant: only a timer that finds the set empty wakes the reactor.
AddTimerQuietly(t) ==
  /\ user[t] = "made"
  /\ m_timers' = m_timers \cup {t}
  /\ task' = task \cup {t}
  /\ cancelled' = cancelled \ {t}
  /\ user' = [user EXCEPT ![t] = IF m_timers = {} THEN "notify" ELSE "armed"]
  /\ UNCHANGED <<now, expire, pipe, reactor, cur, nap, res, fired, last>>

\* ... and the timer is inserted some time later.
AddTimer(t) ==
  /\ user[t] = "made"
  /\ m_timers' = m_timers \cup {t}
  /\ task' = task \cup {t}
  /\ cancelled' = cancelled \ {t}
  /\ user' = [user EXCEPT ![t] = IF First(m_timers', t) THEN "notify" ELSE "armed"]
  /\ UNCHANGED <<now, expire, pipe, reactor, cur, nap, res, fired, last>>

\* Reactor::notify, after m_mx is released
Notify(t) ==
  /\ user[t] = "notify"
  /\ pipe' = TRUE
  /\ user' = [user EXCEPT ![t] = "armed"]
  /\ UNCHANGED <<now, m_timers, expire, task, cancelled, reactor, cur, nap, res,
                 fired, last>>

\* Mutant: cancel marks the timer and leaves it in the set.
CancelMarks(t) ==
  /\ user[t] = "armed" /\ t \notin cancelled /\ t \in task
  /\ cancelled' = cancelled \cup {t}
  /\ user' = [user EXCEPT ![t] = "cancelled"]
  /\ UNCHANGED <<now, m_timers, expire, task, pipe, reactor, cur, nap, res, fired,
                 last>>

\* Timer::cancel: a timer whose fiber is gone has expired and is left alone.
Cancel(t) ==
  /\ user[t] = "armed" /\ t \notin cancelled /\ t \in task
  /\ cancelled' = cancelled \cup {t}
  /\ m_timers' = m_timers \ {t}
  /\ user' = [user EXCEPT ![t] = "cancelled"]
  /\ UNCHANGED <<now, expire, task, pipe, reactor, cur, nap, res, fired, last>>

-----------------------------------------------------------------------------
(* The reactor's thread                                                    *)

At(from, to) == reactor = from /\ reactor' = to

\* getNextExpireInterval reads the clock ...
ReadClock ==
  /\ At("clock", "interval") /\ cur' = now
  /\ UNCHANGED <<now, m_timers, expire, task, cancelled, user, pipe, nap, res,
                 fired, last>>

\* ... then the earliest timer; epoll_wait sleeps at most that long.
NextInterval ==
  /\ At("interval", "wait")
  /\ nap' = LET due == {expire[t] - cur : t \in m_timers} \cup {MaxTimeOut}
                nearest == CHOOSE d \in due : \A e \in due : d <= e
            IN IF nearest >= 0 THEN nearest ELSE 0
  /\ UNCHANGED <<now, m_timers, expire, task, cancelled, user, pipe, cur, res,
                 fired, last>>

\* epoll_wait returns for the pipe, or its time is over.
EpollReturns ==
  /\ At("wait", "expired")
  /\ pipe \/ now >= cur + nap
  /\ UNCHANGED <<now, m_timers, expire, task, cancelled, user, pipe, cur, nap, res,
                 fired, last>>

\* It also returns for any file descriptor that is ready.
EpollEvent ==
  /\ At("wait", "expired")
  /\ UNCHANGED <<now, m_timers, expire, task, cancelled, user, pipe, cur, nap, res,
                 fired, last>>

\* Mutant: the fiber of a timer that was handed over stays with the timer.
GetExpiredTasksKeeps ==
  LET due == {t \in m_timers : expire[t] <= now}
  IN /\ At("expired", "hand")
     /\ res' \in InOrder(due)
     /\ m_timers' = m_timers \ (due \ Loops)
     /\ UNCHANGED <<now, expire, task, cancelled, user, pipe, cur, nap, fired, last>>

\* Mutant: all due timers are erased and only the first is returned.
GetExpiredTasksFirst ==
  LET due == {t \in m_timers : expire[t] <= now}
  IN /\ At("expired", "hand")
     /\ res' \in InOrder({t \in due : First(due, t)})
     /\ m_timers' = m_timers \ (due \ Loops)
     /\ task' = task \ (due \ Loops)
     /\ UNCHANGED <<now, expire, cancelled, user, pipe, cur, nap, fired, last>>

\* TimerManager::getExpiredTasks: a LOOP timer goes back into the set as it is.
GetExpiredTasks ==
  LET due == {t \in m_timers : expire[t] <= now}
  IN /\ At("expired", "hand")
     /\ res' \in InOrder(due)
     /\ m_timers' = m_timers \ (due \ Loops)
     /\ task' = task \ (due \ Loops)
     /\ UNCHANGED <<now, expire, cancelled, user, pipe, cur, nap, fired, last>>

\* m_sched->addFiber(fiber) for each of them
HandOver ==
  /\ reactor = "hand"
  /\ \/ /\ res # <<>> /\ fired[Head(res)] < MaxFires
        /\ res' = Tail(res)
        /\ fired' = [fired EXCEPT ![Head(res)] = @ + 1]
        /\ last' = IF Head(res) \in Loops THEN [last EXCEPT ![Head(res)] = now] ELSE last
        /\ UNCHANGED reactor
     \/ /\ res = <<>> /\ reactor' = "drain"
        /\ UNCHANGED <<res, fired, last>>
  /\ UNCHANGED <<now, m_timers, expire, task, cancelled, user, pipe, cur, nap>>

\* The pipe is read empty, then the loop starts again.
Drain ==
  /\ At("drain", "clock") /\ pipe' = FALSE
  /\ UNCHANGED <<now, m_timers, expire, task, cancelled, user, cur, nap, res, fired,
                 last>>

Tick ==
  /\ now < MaxTime /\ now' = now + 1
  /\ UNCHANGED <<m_timers, expire, task, cancelled, user, pipe, reactor, cur, nap,
                 res, fired, last>>

UserStep(t) == NewTimer(t) \/ AddTimer(t) \/ Notify(t) \/ Cancel(t)
ReactorStep == ReadClock \/ NextInterval \/ EpollReturns \/ GetExpiredTasks
               \/ HandOver \/ Drain

TimerNext == Tick \/ ReactorStep \/ EpollEvent \/ \E t \in Timers : UserStep(t)

TimerSpec == TimerInit /\ [][TimerNext]_timerVars

\* Time passes, the reactor's thread runs and a call to addTimer returns.
TimerFairSpec ==
  /\ TimerSpec /\ WF_timerVars(Tick) /\ WF_timerVars(ReactorStep)
  /\ \A t \in Timers : WF_timerVars(AddTimer(t) \/ Notify(t))

-----------------------------------------------------------------------------
(* Properties                                                              *)

\* TimerManager.cpp 50-55: cancel() erases what find() returns without looking
\* at it ("coredump here"); a timer that still has its fiber and is not
\* cancelled is always in the set.
CancelFindsTimer ==
  \A t \in task \ cancelled : t \in m_timers

\* The reactor never sleeps past a timer that another thread has added after
\* the sleep was computed, unless the notify that cuts it short is on its way.
NoOversleep ==
  (reactor = "wait" /\ nap > 0 /\ ~pipe /\ \A t \in Timers : user[t] # "notify")
    => \A t \in m_timers : cur + nap <= expire[t]

\* When cancel() returns true the fiber is not handed over afterwards, and a
\* SINGLE timer is handed over at most once.
CancelPreventsFiring ==
  [][\A t \in Timers \ Loops :
       fired'[t] # fired[t] => fired[t] = 0 /\ user[t] # "cancelled"]_timerVars

\* Every timer that is added expires unless it is cancelled.
TimerFires ==
  \A t \in Timers \ Loops :
    (user[t] = "armed") ~> (fired[t] > 0 \/ user[t] = "cancelled")

\* TimerManager.hpp 26, "LOOP //循环计时": a loop timer fires once per interval.
LoopOncePerInterval ==
  [][\A t \in Loops :
       fired'[t] # fired[t] /\ fired[t] > 0 => now - last[t] >= Interval[t]]_timerVars
=============================================================================
