----------------------------- MODULE TcpServer -----------------------------
(***************************************************************************)
(* A TcpServer: bind, start and stop, called by one fiber (User), an       *)
(* accepting fiber per listening socket, the fiber that stop queues, and a *)
(* handler per connection, with the Sockets they own and the descriptors   *)
(* under them.  Numbers are reused as soon as they are closed, and a fiber *)
(* in accept goes on with the number it was called with.                   *)
(***************************************************************************)
EXTENDS FdTable

CONSTANTS Listeners, Conns,     \* the sockets of the server and of its peers
          User, StopFiber,      \* the other fibers
          Infinite,             \* (uint64_t)-1, no timeout
          Timeout,              \* m_recvTimeout
          MaxStops              \* calls of stop()

VARIABLES
    m_stop, m_socks,
    stops,      \* calls of stop() so far
    user,       \* "idle", or "clear" inside stop
    stopper,    \* the fiber that stop queues: "none", "queued" or "done"
    m_sockfd,   \* socket -> its number, or Nobody for -1
    acc,        \* listener -> its accepting fiber, a record; at = "none": there is none
    conn,       \* connection -> "new", "pending", "accepted", "served" or "closed"
    via,        \* connection -> the listener that it came to
    drop,       \* fiber -> the sockets it closes, one after the other
    stage       \* fiber -> how far it is with the first of them

serverVars == <<m_stop, m_socks, stops, user, stopper>>
sockVars == <<m_sockfd, drop, stage>>
netVars == <<conn, via>>
vars == <<fdVars, serverVars, sockVars, netVars, acc>>

Sockets == Listeners \cup Conns
Infos == [of : Sockets, userNb : BOOLEAN, rdtimeout : {Infinite, Timeout}, closed : BOOLEAN]

ASSUME ServerAssumption ==
    /\ Listeners \cap Conns = {}
    /\ User # StopFiber /\ User \notin Sockets /\ StopFiber \notin Sockets
    /\ Nobody \notin Sockets /\ Nobody \notin Fds /\ Nobody \notin Infos

Fibers == Sockets \cup {User, StopFiber}     \* a fiber has the name of its socket
Bound == {m_socks[i] : i \in DOMAIN m_socks}
Accepting(l) == acc[l].at # "none"
Idle(x) == drop[x] = <<>>                    \* x is not inside a close

(* cancled: the timeout of the call has run; reg: epoll has the number.    *)
NoFiber == [at |-> "none", fd |-> Nobody, timeout |-> Infinite, cancled |-> FALSE,
            got |-> Nobody, reg |-> FALSE]
(* At the top of startAccept's loop, where nothing of the last call counts.*)
Looping == [NoFiber EXCEPT !.at = "check"]
-----------------------------------------------------------------------------
(* A fiber in accept's wait, as the reactor sees it.                       *)
Set(l, r) == acc' = [acc EXCEPT ![l] = r]
Waiter(l, fd) == acc[l].at = "wait" /\ acc[l].fd = fd /\ acc[l].reg

(* Its fiber is handed over, cancels its timer, which may run meanwhile,   *)
(* and tries again or returns the timeout.                                 *)
Woken(r) ==
    (IF r.cancled THEN {} ELSE {[r EXCEPT !.at = "try", !.reg = FALSE]})
      \cup (IF r.timeout # Infinite THEN {Looping} ELSE {})

(* cancelEvent, cancelAll: whoever waits under the number is handed over,  *)
(* unless epoll_ctl fails because epoll has forgotten the number.          *)
CancelWaiter(fd) ==
    \/ \E l \in Listeners : Waiter(l, fd) /\ \E r \in Woken(acc[l]) : Set(l, r)
    \/ (\A l \in Listeners : ~Waiter(l, fd)) /\ UNCHANGED acc
-----------------------------------------------------------------------------
(* Socket::close and the hooked close it calls, by fiber x for the first   *)
(* socket of drop[x].  m_mx keeps two fibers from closing one socket.      *)
CloseStart(x) ==
    LET o == Head(drop[x])
        fd == m_sockfd[o]
    IN  /\ ~Idle(x) /\ stage[x] = "start"
        /\ \A y \in Fibers \ {x} : ~Idle(y) /\ stage[y] # "start" => Head(drop[y]) # o
        /\ IF fd = Nobody
           THEN drop' = [drop EXCEPT ![x] = Tail(@)] /\ UNCHANGED <<stage, acc>>
           ELSE /\ stage' = [stage EXCEPT ![x] = "del"]
                /\ IF infos[fd] # Nobody THEN CancelWaiter(fd) ELSE UNCHANGED acc
                /\ UNCHANGED drop
        /\ UNCHANGED <<fdVars, serverVars, netVars, m_sockfd>>

(* Mutant: the entry stays.                                                *)
CloseDelKeeps(x) ==
    /\ ~Idle(x) /\ stage[x] = "del"
    /\ stage' = [stage EXCEPT ![x] = "close"]
    /\ UNCHANGED <<fdVars, serverVars, netVars, m_sockfd, drop, acc>>

CloseDel(x) ==
    /\ ~Idle(x) /\ stage[x] = "del"
    /\ Del(m_sockfd[Head(drop[x])])
    /\ stage' = [stage EXCEPT ![x] = "close"]
    /\ UNCHANGED <<serverVars, netVars, m_sockfd, drop, acc>>

(* epoll forgets the number, but not Reactor; and peers in the queue of a  *)
(* listener that is closed are turned away.                                *)
CloseDescriptor(x) ==
    LET o == Head(drop[x])
    IN  /\ ~Idle(x) /\ stage[x] = "close"
        /\ CloseF(m_sockfd[o])
        /\ stage' = [stage EXCEPT ![x] = "end"]
        /\ conn' = [c \in Conns |-> IF c = o \/ (conn[c] = "pending" /\ via[c] = o)
                                    THEN "closed" ELSE conn[c]]
        /\ acc' = [l \in Listeners |->
                     IF acc[l].fd = m_sockfd[o] THEN [acc[l] EXCEPT !.reg = FALSE] ELSE acc[l]]
        /\ UNCHANGED <<serverVars, m_sockfd, drop, via>>

CloseEnd(x) ==
    /\ ~Idle(x) /\ stage[x] = "end"
    /\ m_sockfd' = [m_sockfd EXCEPT ![Head(drop[x])] = Nobody]
    /\ drop' = [drop EXCEPT ![x] = Tail(@)]
    /\ stage' = [stage EXCEPT ![x] = "start"]
    /\ UNCHANGED <<fdVars, serverVars, netVars, acc>>

CloseStep(x) == CloseStart(x) \/ CloseDel(x) \/ CloseDescriptor(x) \/ CloseEnd(x)
-----------------------------------------------------------------------------
(* bind, start, stop. *)
CanCall == user = "idle" /\ Idle(User)

(* Mutant: the listening socket has no timeout.                            *)
OpenListenerEndless(l, f) ==
    /\ KernelOpen(l, f) /\ Create(f, l, Infinite)
    /\ m_sockfd' = [m_sockfd EXCEPT ![l] = f]

(* Socket::bind makes the socket; setRecvTimeout is the last of bind.      *)
OpenListener(l, f) ==
    /\ KernelOpen(l, f) /\ Create(f, l, Timeout)
    /\ m_sockfd' = [m_sockfd EXCEPT ![l] = f]

Fresh(l) == m_sockfd[l] = Nobody /\ ~Accepting(l) /\ l \notin Bound
            /\ \A x \in Fibers : \A i \in DOMAIN drop[x] : drop[x][i] # l

Bind(l) ==
    /\ CanCall /\ Fresh(l)
    /\ \E f \in Fds : OpenListener(l, f)
    /\ m_socks' = Append(m_socks, l)
    /\ UNCHANGED <<m_stop, stops, user, stopper, drop, stage, netVars, acc>>

(* ::bind or listen fails: the Socket goes, and its descriptor with it.    *)
BindFails(l) ==
    /\ CanCall /\ Fresh(l)
    /\ \E f \in Fds : OpenListener(l, f)
    /\ drop' = [drop EXCEPT ![User] = <<l>>]
    /\ UNCHANGED <<serverVars, stage, netVars, acc>>

(* m_socks.clear(): the sockets that nobody else holds go, in their order. *)
Unheld == {l \in Bound : ~Accepting(l)}
Cleared ==
    {s \in UNION {[1 .. n -> Unheld] : n \in 0 .. Len(m_socks)} :
        /\ \A l \in Unheld : \E i \in DOMAIN s : s[i] = l
        /\ \A i, j \in DOMAIN s : i < j =>
              \E p, q \in DOMAIN m_socks : p < q /\ m_socks[p] = s[i] /\ m_socks[q] = s[j]}

(* A list of addresses of which one fails: m_socks is cleared, of what     *)
(* earlier calls have bound too.                                           *)
BindListFails ==
    /\ CanCall /\ m_socks # <<>>
    /\ m_socks' = <<>>
    /\ \E s \in Cleared : drop' = [drop EXCEPT ![User] = s]
    /\ UNCHANGED <<fdVars, m_stop, stops, user, stopper, m_sockfd, stage, netVars, acc>>

(* One accepting fiber for each socket, if the server is not running.      *)
Start ==
    /\ CanCall /\ m_stop
    /\ m_stop' = FALSE
    /\ acc' = [l \in Listeners |-> IF l \in Bound THEN Looping ELSE acc[l]]
    /\ UNCHANGED <<fdVars, m_socks, stops, user, stopper, sockVars, netVars>>

(* stop, up to the queueing of its fiber, and the rest.                    *)
Stop ==
    /\ CanCall /\ stops < MaxStops /\ stopper # "queued"
    /\ m_stop' = TRUE /\ stops' = stops + 1
    /\ user' = "clear" /\ stopper' = "queued"
    /\ UNCHANGED <<fdVars, m_socks, sockVars, netVars, acc>>

StopClear ==
    /\ user = "clear"
    /\ m_socks' = <<>> /\ user' = "idle"
    /\ \E s \in Cleared : drop' = [drop EXCEPT ![User] = s]
    /\ UNCHANGED <<fdVars, m_stop, stops, stopper, m_sockfd, stage, netVars, acc>>

(* The queued fiber goes through m_socks as it finds it.                   *)
StopFiberRuns ==
    /\ stopper = "queued" /\ Idle(StopFiber)
    /\ stopper' = "done"
    /\ drop' = [drop EXCEPT ![StopFiber] = m_socks]
    /\ UNCHANGED <<fdVars, m_stop, m_socks, stops, user, m_sockfd, stage, netVars, acc>>
-----------------------------------------------------------------------------
(* startAccept. *)
At(l, a) == Idle(l) /\ acc[l].at = a

(* The loop's test of m_stop; the fiber that ends lets go of its socket.   *)
Leave(l) ==
    /\ At(l, "check") /\ m_stop
    /\ Set(l, NoFiber)
    /\ drop' = [drop EXCEPT ![l] = IF l \in Bound THEN <<>> ELSE <<l>>]
    /\ UNCHANGED <<fdVars, serverVars, netVars, m_sockfd, stage>>

(* Socket::accept and do_io up to the first attempt: the number and the    *)
(* timeout are read once.  A number that FdManager does not know goes to   *)
(* the kernel, in state "bare"; a closed entry is EBADF.                   *)
Call(l) ==
    LET fd == m_sockfd[l]
    IN  /\ At(l, "check") /\ ~m_stop
        /\ IF fd = Nobody THEN UNCHANGED acc
           ELSE IF infos[fd] = Nobody THEN Set(l, [acc[l] EXCEPT !.at = "bare", !.fd = fd])
           ELSE IF infos[fd].closed THEN UNCHANGED acc
           ELSE Set(l, [acc[l] EXCEPT !.at = "try", !.fd = fd, !.timeout = infos[fd].rdtimeout])
        /\ UNCHANGED <<fdVars, serverVars, sockVars, netVars>>

(* accept_f on whatever is open under the number now.                      *)
Pending(l) == {c \in Conns : conn[c] = "pending" /\ via[c] = kern[acc[l].fd]}

TryTakes(l) ==
    /\ (At(l, "try") \/ At(l, "bare"))
    /\ \E c \in Pending(l), f \in Fds :
          /\ KernelOpen(c, f)
          /\ Set(l, [acc[l] EXCEPT !.at = "got", !.got = c, !.fd = f])
          /\ conn' = [conn EXCEPT ![c] = "accepted"]
    /\ UNCHANGED <<nonblock, infos, serverVars, sockVars, via>>

(* EAGAIN is an answer only do_io waits after, with a timer; EBADF, EINVAL *)
(* and EMFILE end the call.                                                *)
TryNothing(l) ==
    /\ (At(l, "try") \/ At(l, "bare"))
    /\ Pending(l) = {} \/ Free = {}
    /\ LET empty == kern[acc[l].fd] \in Listeners /\ Pending(l) = {}
       IN  Set(l, IF empty /\ acc[l].at = "try" THEN [acc[l] EXCEPT !.at = "add"] ELSE Looping)
    /\ UNCHANGED <<fdVars, serverVars, sockVars, netVars>>

(* addReadEvent: refused for a number that is closed or has a reader, and  *)
(* then the timer is cancelled.  A timeout that has run is not looked at.  *)
Add(l) ==
    /\ At(l, "add")
    /\ LET fd == acc[l].fd
           taken == \E k \in Listeners : acc[k].at = "wait" /\ acc[k].fd = fd
       IN  Set(l, IF kern[fd] = Nobody \/ taken THEN Looping
                  ELSE [acc[l] EXCEPT !.at = "wait", !.reg = TRUE])
    /\ UNCHANGED <<fdVars, serverVars, sockVars, netVars>>

(* epoll reports what the registration was made for, while it is open.     *)
Wake(l) ==
    /\ At(l, "wait") /\ acc[l].reg /\ Pending(l) # {}
    /\ \E r \in Woken(acc[l]) : Set(l, r)
    /\ UNCHANGED <<fdVars, serverVars, sockVars, netVars>>

(* Mutant: a timeout ends the accepting fiber.                             *)
ExpireLeaves(l) ==
    /\ At(l, "wait") /\ acc[l].timeout # Infinite
    /\ Set(l, NoFiber)
    /\ UNCHANGED <<fdVars, serverVars, sockVars, netVars>>

(* The timeout's callback marks the call and cancels whoever waits under   *)
(* its number: the call itself, unless it has not registered yet or epoll  *)
(* has forgotten the number.                                               *)
Expire(l) ==
    /\ (At(l, "add") \/ At(l, "wait")) /\ acc[l].timeout # Infinite /\ ~acc[l].cancled
    /\ \/ /\ Waiter(l, acc[l].fd)
          /\ Set(l, Looping)
       \/ \E k \in Listeners \ {l} :
            /\ Waiter(k, acc[l].fd)
            /\ \E r \in Woken(acc[k]) :
                  acc' = [acc EXCEPT ![k] = r, ![l] = [acc[l] EXCEPT !.cancled = TRUE]]
       \/ /\ \A k \in Listeners : ~Waiter(k, acc[l].fd)
          /\ Set(l, [acc[l] EXCEPT !.cancled = TRUE])
    /\ UNCHANGED <<fdVars, serverVars, sockVars, netVars>>

(* The accept hook's lookUp(fd, true).                                     *)
Enter(l) ==
    /\ At(l, "got")
    /\ Create(acc[l].fd, acc[l].got, Infinite)
    /\ Set(l, [acc[l] EXCEPT !.at = "hand"])
    /\ UNCHANGED <<kern, serverVars, sockVars, netVars>>

(* lookUp's init fails: Socket::init refuses the entry before it has set   *)
(* m_sockfd, and nobody closes the descriptor.                             *)
EnterRefused(l) ==
    /\ At(l, "got")
    /\ CreateClosed(acc[l].fd, acc[l].got, Infinite)
    /\ Set(l, Looping)
    /\ UNCHANGED <<kern, serverVars, sockVars, netVars>>

(* Mutant: a Socket whose init has failed does not close its descriptor.   *)
HandFailsOpen(l) ==
    /\ At(l, "hand")
    /\ Set(l, Looping)
    /\ UNCHANGED <<fdVars, serverVars, sockVars, netVars>>

(* The peer is gone already: getpeername fails and accept's Socket goes.   *)
HandFails(l) ==
    LET c == acc[l].got
    IN  /\ At(l, "hand")
        /\ m_sockfd' = [m_sockfd EXCEPT ![c] = acc[l].fd]
        /\ drop' = [drop EXCEPT ![l] = <<c>>]
        /\ Set(l, Looping)
        /\ UNCHANGED <<fdVars, serverVars, netVars, stage>>

(* setRecvTimeout, and a fiber for handleClient.                           *)
Hand(l) ==
    LET c == acc[l].got
    IN  /\ At(l, "hand")
        /\ m_sockfd' = [m_sockfd EXCEPT ![c] = acc[l].fd]
        /\ SetTimeout(acc[l].fd, Timeout)
        /\ conn' = [conn EXCEPT ![c] = "served"]
        /\ Set(l, Looping)
        /\ UNCHANGED <<serverVars, drop, stage, via>>

AcceptStep(l) ==
    \/ Leave(l) \/ Call(l) \/ TryTakes(l) \/ TryNothing(l) \/ Add(l) \/ Wake(l) \/ Expire(l)
    \/ Enter(l) \/ EnterRefused(l) \/ HandFails(l) \/ Hand(l)
-----------------------------------------------------------------------------
(* A peer connects to a listener that is open.                             *)
Connect(c, l) ==
    /\ conn[c] = "new" /\ \E f \in Fds : kern[f] = l
    /\ conn' = [conn EXCEPT ![c] = "pending"]
    /\ via' = [via EXCEPT ![c] = l]
    /\ UNCHANGED <<fdVars, serverVars, sockVars, acc>>

(* handleClient changes its descriptor's flags, and ends.                  *)
HandlerFcntl(c) ==
    /\ conn[c] = "served" /\ Idle(c)
    /\ \E nb \in BOOLEAN : SetFlags(m_sockfd[c], nb)
    /\ UNCHANGED <<serverVars, sockVars, netVars, acc>>

HandlerEnds(c) ==
    /\ conn[c] = "served" /\ Idle(c)
    /\ drop' = [drop EXCEPT ![c] = <<c>>]
    /\ UNCHANGED <<fdVars, serverVars, netVars, m_sockfd, stage, acc>>
-----------------------------------------------------------------------------
Init ==
    /\ FdInit
    /\ m_stop = TRUE /\ m_socks = <<>> /\ stops = 0 /\ user = "idle" /\ stopper = "none"
    /\ m_sockfd = [o \in Sockets |-> Nobody]
    /\ acc = [l \in Listeners |-> NoFiber]
    /\ conn = [c \in Conns |-> "new"] /\ via = [c \in Conns |-> Nobody]
    /\ drop = [x \in Fibers |-> <<>>] /\ stage = [x \in Fibers |-> "start"]

UserStep == Start \/ Stop \/ BindListFails \/ \E l \in Listeners : Bind(l) \/ BindFails(l)

ConnStep(c) == HandlerFcntl(c) \/ HandlerEnds(c) \/ \E l \in Listeners : Connect(c, l)

Next ==
    \/ UserStep \/ StopClear \/ StopFiberRuns
    \/ \E x \in Fibers : CloseStep(x)
    \/ \E l \in Listeners : AcceptStep(l)
    \/ \E c \in Conns : ConnStep(c)

(* Fibers run on, and timers expire: not so the user's calls and the peers.*)
Fairness ==
    /\ WF_vars(StopClear) /\ WF_vars(StopFiberRuns)
    /\ \A x \in Fibers : WF_vars(CloseStep(x))
    /\ \A l \in Listeners : WF_vars(AcceptStep(l))
    /\ \A c \in Conns : WF_vars(HandlerEnds(c))

Spec == Init /\ [][Next]_vars /\ Fairness
-----------------------------------------------------------------------------
(* The number f is past the point where close takes its entry out.         *)
Leaving(f) == \E x \in Fibers : ~Idle(x) /\ stage[x] = "close" /\ m_sockfd[Head(drop[x])] = f
JustOpened(f) == \E l \in Listeners : acc[l].at = "got" /\ acc[l].fd = f

(* FdManager and close: whatever is open under a number, FdManager's entry *)
(* for the number was made for it, however often the number has changed    *)
(* hands, but between accept_f and lookUp and between del and close_f; and *)
(* a number that is not open has no entry.                                 *)
EntryIsOwn ==
    \A f \in Fds :
        IF kern[f] # Nobody /\ ~Leaving(f) /\ ~JustOpened(f)
        THEN infos[f] # Nobody /\ infos[f].of = kern[f]
        ELSE infos[f] = Nobody

(* do_io's assertion: a descriptor with an entry that is not closed is     *)
(* non-blocking for the kernel, whatever the user has asked of fcntl.      *)
NonBlockKept == \A f \in Fds : Known(f) => f \in nonblock

(* accept, bind, stop: a descriptor is open only while some Socket that    *)
(* somebody still holds or closes, or a call of accept, has its number.    *)
(* The one path that leaks is an accepted descriptor whose entry could not *)
(* be made (Socket.cpp 92-102).                                            *)
Owner(f, o) ==
    /\ m_sockfd[o] = f
    /\ \/ o \in Bound \/ (o \in Listeners /\ Accepting(o)) \/ (o \in Conns /\ conn[o] = "served")
       \/ \E x \in Fibers : \E i \in DOMAIN drop[x] : drop[x][i] = o
NoLeak ==
    \A f \in Fds :
        kern[f] # Nobody =>
            \/ Owner(f, kern[f])
            \/ \E l \in Listeners : acc[l].at \in {"got", "hand"} /\ acc[l].fd = f
            \/ kern[f] \in Conns /\ infos[f] # Nobody /\ infos[f].closed

(* NoLeak without the exception: ~Socket (Socket.cpp 16-19) closes all     *)
(* that accept has opened.                                                 *)
NothingLeaked ==
    \A f \in Fds :
        kern[f] # Nobody =>
            \/ Owner(f, kern[f])
            \/ \E l \in Listeners : acc[l].at \in {"got", "hand"} /\ acc[l].fd = f

(* startAccept: a connection is taken by the fiber of the listener that it *)
(* came to.                                                                *)
TakenByOwn ==
    \A l \in Listeners : acc[l].got # Nobody => via[acc[l].got] = l

(* start: the listeners of a running server stay open.  The fiber that an  *)
(* earlier stop has queued closes them when it is late.                    *)
ListenersStay ==
    \A l \in Bound : ~m_stop /\ Accepting(l) => m_sockfd[l] # Nobody

(* stop: a listener that the server has let go of is closed in the end,    *)
(* unless the server is started again, or its fiber has lost its timeout:  *)
(* that ran before the fiber had registered, or when epoll had forgotten   *)
(* the number (Hook.cpp 185-199, Reactor.cpp 224-228).                     *)
TimeoutLost(l) == acc[l].at = "wait" /\ acc[l].cancled
StopEnds ==
    \A l \in Listeners :
        (m_stop /\ l \notin Bound /\ m_sockfd[l] # Nobody)
          ~> (~m_stop \/ m_sockfd[l] = Nobody \/ TimeoutLost(l))

(* StopEnds whatever becomes of the timeout.                               *)
StopAlwaysEnds ==
    \A l \in Listeners :
        (m_stop /\ l \notin Bound /\ m_sockfd[l] # Nobody) ~> (~m_stop \/ m_sockfd[l] = Nobody)

(* startAccept: a connection that waits at a listener with an accepting    *)
(* fiber is taken, unless the server is stopped or out of descriptors.     *)
PendingTaken ==
    \A c \in Conns :
        (conn[c] = "pending" /\ Accepting(via[c])) ~> (conn[c] # "pending" \/ m_stop \/ Free = {})
=============================================================================
