------------------------------ MODULE LogThread ------------------------------
(***************************************************************************)
(* The logging thread (LogThread.cpp): senders push events on a queue and  *)
(* write a byte to a pipe, one thread pops batches and prints them, and    *)
(* close() makes it print what is left and leave.  m_close is a plain bool *)
(* that both sides read outside any lock.                                  *)
(***************************************************************************)
EXTENDS Integers, Sequences, FiniteSets, SequencesExt

CONSTANTS
  Events,    \* one sender for each event
  Fatal,     \* those of level FATAL
  Batch,     \* how many try_popk_front takes
  PipeCap    \* what the pipe holds; its write end blocks when it is full

ASSUME LogAssumption ==
  /\ IsFiniteSet(Events) /\ Fatal \subseteq Events
  /\ Batch \in Nat \ {0} /\ PipeCap \in Nat \ {0}

VARIABLES
  m_que, m_close,
  pipe,      \* bytes in the notify pipe
  worker,    \* where the logging thread is
  events,    \* its local list of popped events
  printed,   \* what logger->log was called with
  sender,    \* where each sendLog is
  closer,    \* where the owner is: in start(), done with it, in close()
  accepted,  \* history: the events in the order in which they were pushed
  early,     \* history: those pushed when close() set m_close
  raced      \* history: the thread tested m_close before start() cleared it

histVars == <<accepted, early, raced>>
logVars == <<m_que, m_close, pipe, worker, events, printed, sender, closer, histVars>>

\* The constructor is in start(): the thread exists, m_close is still true.
LogInit ==
  /\ m_que = <<>> /\ m_close = TRUE /\ pipe = 0
  /\ worker = "work" /\ events = <<>> /\ printed = <<>>
  /\ sender = [e \in Events |-> "new"]
  /\ closer = "starting" /\ accepted = <<>> /\ early = {}
  /\ raced = FALSE

-----------------------------------------------------------------------------
(* sendLog                                                                 *)

\* The test of m_close: a closed thread takes nothing.
SendCheck(e) ==
  /\ sender[e] = "new" /\ closer # "starting"
  /\ sender' = [sender EXCEPT ![e] = IF m_close THEN "refused" ELSE "push"]
  /\ UNCHANGED <<m_que, m_close, pipe, worker, events, printed, closer, histVars>>

SendPush(e) ==
  /\ sender[e] = "push"
  /\ m_que' = Append(m_que, e)
  /\ accepted' = Append(accepted, e)
  /\ sender' = [sender EXCEPT ![e] = "notify"]
  /\ UNCHANGED <<m_close, pipe, worker, events, printed, closer, early, raced>>

\* The write blocks while the pipe is full; after close() it fails.
SendNotify(e) ==
  /\ sender[e] = "notify"
  /\ \/ closer = "closed" /\ UNCHANGED pipe
     \/ closer # "closed" /\ pipe < PipeCap /\ pipe' = pipe + 1
  /\ sender' = [sender EXCEPT ![e] = "done"]
  /\ UNCHANGED <<m_que, m_close, worker, events, printed, closer, histVars>>

-----------------------------------------------------------------------------
(* The logging thread                                                      *)

\* One turn of work()'s loop from `at': pop a batch, or find the queue empty.
Pop(at, log, done) ==
  /\ worker = at
  /\ \/ /\ m_que # <<>>
        /\ LET n == IF Len(m_que) < Batch THEN Len(m_que) ELSE Batch
           IN /\ events' = SubSeq(m_que, 1, n)
              /\ m_que' = SubSeq(m_que, n + 1, Len(m_que))
        /\ worker' = log
     \/ /\ m_que = <<>> /\ worker' = done
        /\ UNCHANGED <<m_que, events>>
  /\ UNCHANGED <<m_close, pipe, printed, sender, closer, histVars>>

\* Print the next event of the batch; a FATAL one ends the program.
LogOne(at, again) ==
  /\ worker = at
  /\ \/ /\ events # <<>>
        /\ printed' = Append(printed, Head(events))
        /\ events' = Tail(events)
        /\ worker' = IF Head(events) \in Fatal THEN "aborted" ELSE at
     \/ /\ events = <<>> /\ worker' = again
        /\ UNCHANGED <<events, printed>>
  /\ UNCHANGED <<m_que, m_close, pipe, sender, closer, histVars>>

Work == Pop("work", "log", "closing?") \/ LogOne("log", "work")

\* if(m_close): print what is left and leave.  start() creates the thread before
\* it clears m_close, so the thread may still see the constructor's value.
CheckClose ==
  /\ worker = "closing?"
  /\ worker' = IF m_close THEN "last" ELSE "sleep"
  /\ raced' = (raced \/ closer = "starting")
  /\ UNCHANGED <<m_que, m_close, pipe, events, printed, sender, closer, accepted, early>>

\* Mutant: the thread leaves without a last look at the queue.
LastWorkSkipped ==
  /\ worker = "last" /\ worker' = "exited"
  /\ UNCHANGED <<m_que, m_close, pipe, events, printed, sender, closer, histVars>>

LastWork == Pop("last", "lastlog", "exited") \/ LogOne("lastlog", "last")

\* Mutant: the pipe is not read.
SleepKeeps ==
  /\ worker = "sleep"
  /\ worker' = "work"
  /\ UNCHANGED <<m_que, m_close, pipe, events, printed, sender, closer, histVars>>

\* epoll_wait returns for the pipe or after 10 ms; the pipe is read empty.
Sleep ==
  /\ worker = "sleep"
  /\ worker' = "work" /\ pipe' = 0
  /\ UNCHANGED <<m_que, m_close, events, printed, sender, closer, histVars>>

-----------------------------------------------------------------------------
(* start() and close(), on the thread that owns the object                 *)

Start ==
  /\ closer = "starting"
  /\ closer' = "open" /\ m_close' = FALSE
  /\ UNCHANGED <<m_que, pipe, worker, events, printed, sender, histVars>>

CloseSet ==
  /\ closer = "open"
  /\ closer' = "notify" /\ m_close' = TRUE
  /\ early' = ToSet(accepted)
  /\ UNCHANGED <<m_que, pipe, worker, events, printed, sender, accepted, raced>>

CloseNotify ==
  /\ closer = "notify" /\ pipe < PipeCap
  /\ closer' = "join" /\ pipe' = pipe + 1
  /\ UNCHANGED <<m_que, m_close, worker, events, printed, sender, histVars>>

\* join() returns and the pipe is closed.
CloseJoin ==
  /\ closer = "join" /\ worker = "exited"
  /\ closer' = "closed" /\ pipe' = 0
  /\ UNCHANGED <<m_que, m_close, worker, events, printed, sender, histVars>>

-----------------------------------------------------------------------------
Send(e) == SendCheck(e) \/ SendPush(e) \/ SendNotify(e)
WorkerStep == Work \/ CheckClose \/ LastWork \/ Sleep
Close == Start \/ CloseSet \/ CloseNotify \/ CloseJoin

\* abort() ends all threads; otherwise the program ends after close().
Ended == (worker = "aborted" \/ worker = "exited") /\ UNCHANGED logVars

LogNext ==
  \/ worker # "aborted" /\ (WorkerStep \/ Close \/ \E e \in Events : Send(e))
  \/ Ended

LogSpec == LogInit /\ [][LogNext]_logVars

\* Threads run; close() is called when the program ends.
LogFairSpec ==
  /\ LogSpec /\ WF_logVars(WorkerStep) /\ WF_logVars(Start \/ CloseNotify \/ CloseJoin)
  /\ \A e \in Events : WF_logVars(sender[e] # "new" /\ Send(e))

-----------------------------------------------------------------------------
(* Properties                                                              *)

\* LogThread.cpp 91-119: events are printed once and in the order in which they
\* were pushed, before and during close(), and when close() returns all that
\* were pushed before it set m_close are printed, unless the thread had left at
\* its first test, before start() cleared m_close (85-86).
EarlyPrinted ==
  /\ accepted = printed \o events \o m_que
  /\ closer = "closed" => early \subseteq ToSet(printed) \/ raced

\* A thread that logs is not stopped for good by a full pipe while the logging
\* thread runs.
SendReturns ==
  \A e \in Events :
    (sender[e] = "notify") ~> (sender[e] = "done" \/ worker \in {"aborted", "exited"})

\* LogThread.cpp 116, "保证日志被打印" (guarantee that logs are printed): what
\* sendLog has taken is printed.
AcceptedPrinted ==
  \A e \in Events :
    (sender[e] = "notify") ~> (e \in ToSet(printed) \/ worker = "aborted")

\* LogThread.cpp 150, "写一个空消息，唤醒epoll_wait" (write an empty message to wake
\* epoll_wait): close() gets its message written and returns.
CloseReturns ==
  (closer = "notify") ~> (closer = "closed" \/ worker = "aborted")

\* LogThread.hpp 25, "开启线程日志" (turn the logging thread on): from start() to
\* close() there is a thread that logs.
StartedServes == closer = "open" => worker # "exited"
=============================================================================
