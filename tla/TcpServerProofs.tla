-------------------------- MODULE TcpServerProofs --------------------------
(***************************************************************************)
(* What holds of every TcpServer, for all sets of listeners, connections   *)
(* and descriptor numbers: FdManager's entries, the non-blocking flags and *)
(* the owners of the descriptors.                                          *)
(***************************************************************************)
EXTENDS TcpServer, SeqFacts

Closing(x) == drop[x] # <<>> /\ stage[x] # "start"
Mine(x) == Head(drop[x])
Drops(x, o) == InSeq(o, drop[x])
Taking(l) == acc[l].at \in {"got", "hand"}

AccRecords == [at : {"none", "check", "try", "bare", "add", "wait", "got", "hand"},
               fd : Fds \cup {Nobody}, timeout : {Infinite, Timeout}, cancled : BOOLEAN,
               got : Conns \cup {Nobody}, reg : BOOLEAN]
AccType == {r \in AccRecords : r.at \in {"none", "check"} \/ r.fd \in Fds}

TypeInv ==
  /\ kern \in [Fds -> Sockets \cup {Nobody}]
  /\ nonblock \subseteq Fds
  /\ infos \in [Fds -> Infos \cup {Nobody}]
  /\ m_stop \in BOOLEAN /\ m_socks \in Seq(Listeners) /\ user \in {"idle", "clear"}
  /\ m_sockfd \in [Sockets -> Fds \cup {Nobody}]
  /\ acc \in [Listeners -> AccType]
  /\ conn \in [Conns -> {"new", "pending", "accepted", "served", "closed"}]
  /\ drop \in [Fibers -> Seq(Sockets)]
  /\ stage \in [Fibers -> {"start", "del", "close", "end"}]

\* A fiber that is inside a close is alone with its socket, whose number is
\* still there; past close_f nothing is open for the socket.
CloseInv ==
  /\ \A x \in Fibers : drop[x] = <<>> => stage[x] = "start"
  /\ user = "clear" => drop[User] = <<>>
  /\ \A x \in Fibers : Closing(x) => m_sockfd[Mine(x)] # Nobody
  /\ \A x, y \in Fibers : Closing(x) /\ Closing(y) /\ x # y => Mine(x) # Mine(y)
  /\ \A x \in Fibers : Closing(x) /\ stage[x] = "end" => \A f \in Fds : kern[f] # Mine(x)

\* A server that is stopped holds no socket with an accepting fiber, but
\* inside stop.
RunInv ==
  \A l \in Listeners : InSeq(l, m_socks) /\ Accepting(l) => ~m_stop \/ user = "clear"

\* A Socket's number is its own until its close has passed close_f, and nothing
\* is open under two numbers.
NumberInv ==
  /\ \A o \in Sockets :
       m_sockfd[o] # Nobody =>
         \/ kern[m_sockfd[o]] = o
         \/ \E x \in Fibers : Closing(x) /\ stage[x] = "end" /\ Mine(x) = o
  /\ \A f, g \in Fds : kern[f] = kern[g] /\ kern[f] # Nobody => f = g

\* What a call of accept has in its hands is open under its number, and
\* nobody else's.
TakeInv ==
  /\ \A l \in Listeners : Taking(l) =>
       /\ acc[l].fd \in Fds /\ acc[l].got \in Conns
       /\ kern[acc[l].fd] = acc[l].got
       /\ m_sockfd[acc[l].got] = Nobody /\ conn[acc[l].got] = "accepted"
       /\ \A x \in Fibers : ~Drops(x, acc[l].got)
  /\ \A k, l \in Listeners : Taking(k) /\ Taking(l) /\ k # l => acc[k].got # acc[l].got

\* Where a connection's Socket is, by the state of the connection.
ConnInv ==
  /\ \A c \in Conns : conn[c] \in {"new", "pending"} =>
       m_sockfd[c] = Nobody /\ \A x \in Fibers : ~Drops(x, c)
  /\ \A c \in Conns : conn[c] = "served" =>
       m_sockfd[c] # Nobody /\ \A x \in Fibers : Drops(x, c) => x = c
  /\ \A x \in Fibers : Closing(x) /\ stage[x] = "end" /\ Mine(x) \in Conns => conn[Mine(x)] = "closed"


\* Who holds a socket: the server, its accepting fiber, its handler, or a
\* fiber that closes it.
Held(o) ==
  \/ InSeq(o, m_socks) \/ (o \in Listeners /\ Accepting(o)) \/ (o \in Conns /\ conn[o] = "served")
  \/ \E x \in Fibers : Drops(x, o)

\* The one leak: a connection whose entry could not be made.
Leaked(f) ==
  kern[f] \in Conns /\ conn[kern[f]] = "accepted" /\ infos[f] # Nobody /\ infos[f].closed

LeakInv ==
  \A f \in Fds : kern[f] # Nobody =>
    \/ m_sockfd[kern[f]] = f /\ Held(kern[f])
    \/ \E l \in Listeners : Taking(l) /\ acc[l].fd = f
    \/ Leaked(f)

\* EntryIsOwn, by the state of the close and of the call of accept.
Past(f) == \E x \in Fibers : Closing(x) /\ stage[x] = "close" /\ m_sockfd[Mine(x)] = f
EntryInv ==
  \A f \in Fds :
     IF kern[f] # Nobody /\ ~Past(f) /\ ~JustOpened(f)
     THEN infos[f] # Nobody /\ infos[f].of = kern[f]
     ELSE infos[f] = Nobody

ServerInv ==
  /\ TypeInv /\ CloseInv /\ RunInv /\ NumberInv /\ TakeInv /\ ConnInv
  /\ EntryInv /\ NonBlockKept /\ LeakInv
-----------------------------------------------------------------------------
(* What a step does to the lists of sockets that the fibers close.         *)

\* The head of a list is its only element that is gone from the tail.
LEMMA TailIn ==
  ASSUME NEW S, NEW s \in Seq(S), s # <<>>
  PROVE  /\ Head(s) \in S /\ Tail(s) \in Seq(S) /\ InSeq(Head(s), s)
         /\ \A o : InSeq(o, Tail(s)) => InSeq(o, s)
         /\ \A o : InSeq(o, s) /\ o # Head(s) => InSeq(o, Tail(s))
<1>1. /\ Len(s) \in Nat \ {0} /\ Head(s) = s[1]
      /\ Head(s) \in S /\ Tail(s) \in Seq(S) /\ Len(Tail(s)) = Len(s) - 1
      /\ \A i \in 1 .. Len(s) - 1 : Tail(s)[i] = s[i + 1]
  BY HeadTailProperties, EmptySeq
<1>2. InSeq(Head(s), s)
  BY <1>1 DEF InSeq
<1>3. ASSUME NEW o, InSeq(o, Tail(s)) PROVE InSeq(o, s)
  <2>1. PICK i \in 1 .. Len(s) - 1 : s[i + 1] = o
    BY <1>1, <1>3 DEF InSeq
  <2>2. i + 1 \in 1 .. Len(s)
    BY <1>1
  <2>3. QED BY <2>1, <2>2 DEF InSeq
<1>4. ASSUME NEW o, InSeq(o, s), o # Head(s) PROVE InSeq(o, Tail(s))
  <2>1. PICK i \in 1 .. Len(s) : s[i] = o
    BY <1>4 DEF InSeq
  <2>2. i - 1 \in 1 .. Len(s) - 1 /\ Tail(s)[i - 1] = o
    BY <1>1, <1>4, <2>1
  <2>3. QED BY <1>1, <2>2 DEF InSeq
<1>5. QED BY <1>1, <1>2, <1>3, <1>4

\* Lists and stages stay.
LEMMA ListsStay ==
  ASSUME UNCHANGED <<drop, stage>>
  PROVE  /\ \A x, o : Drops(x, o)' <=> Drops(x, o)
         /\ \A x : Closing(x)' <=> Closing(x)
         /\ \A x : Mine(x)' = Mine(x)
BY DEF Drops, Closing, Mine

\* A fiber that closes nothing gets a list.
LEMMA ListGiven ==
  ASSUME TypeInv, CloseInv, NEW x \in Fibers, NEW s \in Seq(Sockets),
         drop[x] = <<>>, drop' = [drop EXCEPT ![x] = s], UNCHANGED stage
  PROVE  /\ drop' \in [Fibers -> Seq(Sockets)]
         /\ \A y \in Fibers : \A o : Drops(y, o)' <=> Drops(y, o) \/ (y = x /\ InSeq(o, s))
         /\ \A y \in Fibers : Closing(y)' <=> Closing(y)
         /\ \A y \in Fibers : Closing(y) => Mine(y)' = Mine(y)
         /\ \A y \in Fibers : drop'[y] = <<>> => stage[y] = "start"
         /\ ~Closing(x)
<1>1. drop' \in [Fibers -> Seq(Sockets)] /\ drop'[x] = s
      /\ \A y \in Fibers \ {x} : drop'[y] = drop[y]
  BY DEF TypeInv
<1>2. stage[x] = "start" /\ \A y \in Fibers : drop[y] = <<>> => stage[y] = "start"
  BY DEF CloseInv
<1>3. \A o : ~InSeq(o, drop[x])
  BY EmptySeq DEF InSeq
<1>4. QED BY <1>1, <1>2, <1>3 DEF Drops, Closing, Mine

\* A fiber is through with the first socket of its list.
LEMMA ListPopped ==
  ASSUME TypeInv, NEW x \in Fibers, drop[x] # <<>>,
         drop' = [drop EXCEPT ![x] = Tail(@)]
  PROVE  /\ drop' \in [Fibers -> Seq(Sockets)]
         /\ \A y \in Fibers \ {x} : drop'[y] = drop[y]
         /\ \A y \in Fibers : \A o : Drops(y, o)' => Drops(y, o)
         /\ \A y \in Fibers : \A o : Drops(y, o) /\ o # Mine(x) => Drops(y, o)'
<1>1. /\ drop[x] \in Seq(Sockets) /\ drop'[x] = Tail(drop[x])
      /\ \A y \in Fibers \ {x} : drop'[y] = drop[y]
      /\ drop' = [y \in Fibers |-> IF y = x THEN Tail(drop[x]) ELSE drop[y]]
  BY DEF TypeInv
<1>2. /\ Tail(drop[x]) \in Seq(Sockets)
      /\ \A o : InSeq(o, Tail(drop[x])) => InSeq(o, drop[x])
      /\ \A o : InSeq(o, drop[x]) /\ o # Head(drop[x]) => InSeq(o, Tail(drop[x]))
  BY <1>1, TailIn
<1>3. drop' \in [Fibers -> Seq(Sockets)]
  BY <1>1, <1>2 DEF TypeInv
<1>4. QED BY <1>1, <1>2, <1>3 DEF Drops, Mine

\* What a fiber closes is a socket of its list.
LEMMA MineFacts ==
  ASSUME TypeInv
  PROVE  \A x \in Fibers : drop[x] # <<>> => Mine(x) \in Sockets /\ Drops(x, Mine(x))
<1>1. SUFFICES ASSUME NEW x \in Fibers, drop[x] # <<>>
               PROVE  Mine(x) \in Sockets /\ Drops(x, Mine(x))
  OBVIOUS
<1>2. drop[x] \in Seq(Sockets)
  BY DEF TypeInv
<1>3. QED BY <1>1, <1>2, TailIn DEF Mine, Drops

\* The sockets that clear() lets go of.
LEMMA ClearedFacts ==
  ASSUME TypeInv, NEW s \in Cleared
  PROVE  /\ s \in Seq(Listeners) /\ s \in Seq(Sockets)
         /\ \A l \in Listeners : InSeq(l, m_socks) /\ ~Accepting(l) => InSeq(l, s)
         /\ \A o : InSeq(o, s) => o \in Listeners
<1>0. m_socks \in Seq(Listeners) /\ DOMAIN m_socks = 1 .. Len(m_socks) /\ Len(m_socks) \in Nat
  BY LenProperties DEF TypeInv
<1>1. Bound \subseteq Listeners /\ Unheld \subseteq Listeners
  BY <1>0, ElementOfSeq DEF Bound, Unheld
<1>2. PICK n \in 0 .. Len(m_socks) : s \in [1 .. n -> Unheld]
  BY DEF Cleared
<1>3. n \in Nat /\ s \in Seq(Unheld)
  BY <1>0, <1>2
<1>4. s \in Seq(Listeners) /\ s \in Seq(Sockets)
  BY <1>1, <1>3, SeqMonotonic DEF Sockets
<1>5. DOMAIN s = 1 .. Len(s) /\ \A i \in 1 .. Len(s) : s[i] \in Listeners
  BY <1>4, LenProperties, ElementOfSeq
<1>6. \A l \in Unheld : InSeq(l, s)
  BY <1>5 DEF Cleared, InSeq
<1>7. \A l \in Listeners : InSeq(l, m_socks) /\ ~Accepting(l) => l \in Unheld
  BY <1>0 DEF Unheld, Bound, InSeq
<1>8. QED BY <1>4, <1>5, <1>6, <1>7 DEF InSeq

\* The list of one socket.
LEMMA One ==
  ASSUME NEW o \in Sockets
  PROVE  <<o>> \in Seq(Sockets) /\ \A p : InSeq(p, <<o>>) <=> p = o
<1>1. <<o>> \in Seq(Sockets) /\ Len(<<o>>) = 1 /\ <<o>>[1] = o
  OBVIOUS
<1>2. QED BY <1>1 DEF InSeq

\* Bound is the set of the elements of m_socks.
LEMMA BoundIs ==
  ASSUME TypeInv
  PROVE  \A o : o \in Bound <=> InSeq(o, m_socks)
<1>1. DOMAIN m_socks = 1 .. Len(m_socks)
  BY LenProperties DEF TypeInv
<1>2. QED BY <1>1 DEF Bound, InSeq
-----------------------------------------------------------------------------
(* The steps.  First those that only move accepting fibers, or the server. *)

\* A step that opens, closes, hands over and lets go of nothing.
LEMMA QuietStep ==
  ASSUME ServerInv, UNCHANGED <<fdVars, m_socks, sockVars, conn>>,
         m_stop' \in BOOLEAN, user' \in {"idle", "clear"}, acc' \in [Listeners -> AccType],
         RunInv', user' = "clear" => drop[User] = <<>>,
         \A l \in Listeners : Taking(l)' <=> Taking(l),
         \A l \in Listeners : Taking(l) => acc'[l] = acc[l],
         \A l \in Listeners : Accepting(l) => Accepting(l)'
  PROVE  ServerInv'
<1> USE DEF fdVars, sockVars
<1>1. /\ \A x, o : Drops(x, o)' <=> Drops(x, o)
      /\ \A x : Closing(x)' <=> Closing(x)
      /\ \A x : Mine(x)' = Mine(x)
  BY ListsStay
<1>2. TypeInv'
  BY DEF ServerInv, TypeInv
<1>3. CloseInv'
  BY <1>1 DEF ServerInv, CloseInv
<1>4. NumberInv'
  BY <1>1 DEF ServerInv, NumberInv
<1>5. TakeInv'
  BY <1>1 DEF ServerInv, TakeInv
<1>6. ConnInv'
  BY <1>1 DEF ServerInv, ConnInv
<1>7. EntryInv'
  <2>1. \A f : Past(f)' <=> Past(f)
    BY <1>1 DEF Past
  <2>2. \A f : JustOpened(f)' <=> JustOpened(f)
    BY DEF JustOpened, Taking
  <2>3. QED BY <2>1, <2>2 DEF ServerInv, EntryInv
<1>8. NonBlockKept'
  BY DEF ServerInv, NonBlockKept, Known
<1>9. LeakInv'
  <2>1. \A o : Held(o) => Held(o)'
    BY <1>1 DEF Held
  <2>2. QED BY <2>1 DEF ServerInv, LeakInv, Leaked
<1>10. QED BY <1>2, <1>3, <1>4, <1>5, <1>6, <1>7, <1>8, <1>9 DEF ServerInv

\* An accepting fiber moves on, with nothing in its hands before and after.
LEMMA FiberMoves ==
  ASSUME ServerInv, NEW l \in Listeners, NEW r \in AccType, Set(l, r),
         UNCHANGED <<fdVars, serverVars, sockVars, netVars>>,
         ~Taking(l), Accepting(l), r.at \notin {"got", "hand", "none"}
  PROVE  ServerInv'
<1>1. /\ acc' \in [Listeners -> AccType] /\ acc'[l] = r
      /\ \A k \in Listeners \ {l} : acc'[k] = acc[k]
  BY DEF ServerInv, TypeInv, Set
<1>2. /\ \A k \in Listeners : Taking(k)' <=> Taking(k)
      /\ \A k \in Listeners : Taking(k) => acc'[k] = acc[k]
      /\ \A k \in Listeners : Accepting(k) <=> Accepting(k)'
  BY <1>1 DEF Taking, Accepting
<1>3. RunInv' /\ m_stop' \in BOOLEAN /\ user' \in {"idle", "clear"}
  BY <1>2 DEF ServerInv, TypeInv, RunInv, serverVars
<1>4. user' = "clear" => drop[User] = <<>>
  BY DEF ServerInv, CloseInv, serverVars
<1>5. QED BY <1>1, <1>2, <1>3, <1>4, QuietStep DEF serverVars, netVars

\* An accepting fiber at the top of its loop.
LEMMA LoopingIs == Looping \in AccType /\ Looping.at = "check"
BY DEF Looping, NoFiber, AccType, AccRecords

\* The records of an accepting fiber that has a number stay records of one.
LEMMA AccRecord ==
  ASSUME TypeInv, NEW l \in Listeners, acc[l].at \notin {"none", "check"}
  PROVE  /\ acc[l] \in AccType /\ acc[l].fd \in Fds
         /\ [acc[l] EXCEPT !.at = "add"] \in AccType
         /\ [acc[l] EXCEPT !.at = "add"].at = "add"
         /\ [acc[l] EXCEPT !.at = "wait", !.reg = TRUE] \in AccType
         /\ [acc[l] EXCEPT !.at = "wait", !.reg = TRUE].at = "wait"
         /\ [acc[l] EXCEPT !.cancled = TRUE] \in AccType
         /\ [acc[l] EXCEPT !.cancled = TRUE].at = acc[l].at
         /\ \A r \in Woken(acc[l]) : r \in AccType /\ r.at \in {"try", "check"}
<1>1. acc[l] \in AccType
  BY DEF TypeInv
<1>2. [acc[l] EXCEPT !.at = "try", !.reg = FALSE] \in AccType
      /\ [acc[l] EXCEPT !.at = "try", !.reg = FALSE].at = "try"
  BY <1>1 DEF AccType, AccRecords
<1>3. \A r \in Woken(acc[l]) : r \in AccType /\ r.at \in {"try", "check"}
  BY <1>2, LoopingIs DEF Woken
<1>4. QED BY <1>1, <1>3 DEF AccType, AccRecords

\* Fibers move on that have nothing in their hands, before and after.
FibersMove ==
  /\ acc' \in [Listeners -> AccType]
  /\ \A k \in Listeners : Taking(k)' <=> Taking(k)
  /\ \A k \in Listeners : Taking(k) => acc'[k] = acc[k]
  /\ \A k \in Listeners : Accepting(k) <=> Accepting(k)'

\* cancelEvent and cancelAll hand over a fiber that waits.
LEMMA CancelMoves ==
  ASSUME TypeInv, NEW fd, CancelWaiter(fd)
  PROVE  FibersMove
<1>1. CASE acc' = acc
  BY <1>1 DEF TypeInv, FibersMove, Taking, Accepting
<1>2. ASSUME NEW l \in Listeners, Waiter(l, fd), NEW r \in Woken(acc[l]), Set(l, r)
      PROVE  FibersMove
  <2>1. acc[l].at = "wait" /\ r \in AccType /\ r.at \in {"try", "check"}
    BY <1>2, AccRecord DEF Waiter
  <2>2. QED BY <1>2, <2>1 DEF TypeInv, FibersMove, Taking, Accepting, Set
<1>3. QED BY <1>1, <1>2 DEF CancelWaiter

\* Socket::accept reads its socket's number and the entry of the number.
LEMMA CallStep ==
  ASSUME ServerInv, NEW l \in Listeners, Call(l)
  PROVE  ServerInv'
<1>1. TypeInv /\ acc[l].at = "check" /\ ~Taking(l) /\ Accepting(l)
  BY DEF ServerInv, Call, At, Taking, Accepting
<1> DEFINE fd == m_sockfd[l]
<1>2. UNCHANGED <<fdVars, serverVars, sockVars, netVars>>
  BY DEF Call
<1>3. CASE fd = Nobody \/ (infos[fd] # Nobody /\ infos[fd].closed)
  <2>1. acc' = acc
    BY <1>3 DEF Call
  <2>2. QED
    BY <1>1, <1>2, <2>1, QuietStep
    DEF ServerInv, TypeInv, RunInv, CloseInv, Taking, Accepting, serverVars, netVars
<1>4. CASE fd # Nobody /\ infos[fd] = Nobody
  <2> DEFINE r == [acc[l] EXCEPT !.at = "bare", !.fd = fd]
  <2>1. Set(l, r)
    BY <1>4 DEF Call
  <2>2. fd \in Fds /\ acc[l] \in AccType
    BY <1>1, <1>4 DEF TypeInv, Sockets
  <2>3. r \in AccType /\ r.at = "bare"
    BY <2>2 DEF AccType, AccRecords
  <2> HIDE DEF r
  <2>4. QED BY <1>1, <1>2, <2>1, <2>3, FiberMoves
<1>5. CASE fd # Nobody /\ infos[fd] # Nobody /\ ~infos[fd].closed
  <2> DEFINE r == [acc[l] EXCEPT !.at = "try", !.fd = fd, !.timeout = infos[fd].rdtimeout]
  <2>1. Set(l, r)
    BY <1>5 DEF Call
  <2>2. fd \in Fds /\ infos[fd] \in Infos
    BY <1>1, <1>5 DEF TypeInv, Sockets
  <2>3. acc[l] \in AccType /\ infos[fd].rdtimeout \in {Infinite, Timeout}
    BY <1>1, <2>2 DEF TypeInv, Infos
  <2>4. r \in AccType /\ r.at = "try"
    BY <2>2, <2>3 DEF AccType, AccRecords
  <2> HIDE DEF r
  <2>5. QED BY <1>1, <1>2, <2>1, <2>4, FiberMoves
<1>6. QED BY <1>3, <1>4, <1>5

\* The other steps of accept that take no connection.
LEMMA MoveSteps ==
  ASSUME ServerInv, NEW l \in Listeners, TryNothing(l) \/ Add(l) \/ Wake(l)
  PROVE  ServerInv'
<1>0. TypeInv /\ acc[l].at \notin {"none", "check"}
  BY DEF ServerInv, TryNothing, Add, Wake, At
<1>1. UNCHANGED <<fdVars, serverVars, sockVars, netVars>> /\ ~Taking(l) /\ Accepting(l)
  BY DEF TryNothing, Add, Wake, At, Taking, Accepting
<1>2. PICK r : /\ Set(l, r)
               /\ \/ r = Looping \/ r \in Woken(acc[l])
                  \/ r = [acc[l] EXCEPT !.at = "add"]
                  \/ r = [acc[l] EXCEPT !.at = "wait", !.reg = TRUE]
  BY DEF TryNothing, Add, Wake
<1>3. r \in AccType /\ r.at \in {"check", "try", "add", "wait"}
  BY <1>0, <1>2, AccRecord, LoopingIs
<1>4. QED BY <1>1, <1>2, <1>3, FiberMoves

\* A timeout hands over its own fiber, another one, or none.
LEMMA ExpireStep ==
  ASSUME ServerInv, NEW l \in Listeners, Expire(l)
  PROVE  ServerInv'
<1> DEFINE late == [acc[l] EXCEPT !.cancled = TRUE]
<1>0. TypeInv /\ acc[l].at \in {"add", "wait"}
  BY DEF ServerInv, Expire, At
<1>1. UNCHANGED <<fdVars, serverVars, sockVars, netVars>> /\ ~Taking(l) /\ Accepting(l)
  BY DEF Expire, At, Taking, Accepting
<1>2. late \in AccType /\ late.at = acc[l].at
  BY <1>0, AccRecord
<1>3. CASE Set(l, Looping)
  BY <1>1, <1>3, LoopingIs, FiberMoves
<1> HIDE DEF late
<1>4. CASE Set(l, late)
  BY <1>0, <1>1, <1>2, <1>4, FiberMoves
<1>5. ASSUME NEW k \in Listeners \ {l}, Waiter(k, acc[l].fd), NEW r \in Woken(acc[k]),
             acc' = [acc EXCEPT ![k] = r, ![l] = late]
      PROVE  ServerInv'
  <2>1. acc[k].at = "wait" /\ r \in AccType /\ r.at \in {"try", "check"}
    BY <1>0, <1>5, AccRecord DEF Waiter
  <2>2. FibersMove
    BY <1>0, <1>2, <1>5, <2>1 DEF TypeInv, FibersMove, Taking, Accepting
  <2>3. RunInv' /\ m_stop' \in BOOLEAN /\ user' \in {"idle", "clear"}
        /\ (user' = "clear" => drop[User] = <<>>)
    BY <1>1, <2>2 DEF ServerInv, TypeInv, RunInv, CloseInv, serverVars, FibersMove
  <2>4. QED BY <1>1, <2>2, <2>3, QuietStep DEF FibersMove, serverVars, netVars
<1>6. QED BY <1>3, <1>4, <1>5 DEF Expire, late
-----------------------------------------------------------------------------
(* start and stop. *)

\* start() meets no accepting fiber of a socket that it gives one.
LEMMA StartStep ==
  ASSUME ServerInv, Start
  PROVE  ServerInv'
<1>1. TypeInv /\ RunInv /\ m_stop /\ m_stop' = FALSE /\ user = "idle" /\ user' = "idle"
  BY DEF ServerInv, Start, CanCall
<1> DEFINE r == Looping
<1>2. r \in AccType /\ r.at = "check"
  BY LoopingIs
<1> HIDE DEF r
<1>3. acc' = [l \in Listeners |-> IF InSeq(l, m_socks) THEN r ELSE acc[l]]
  <2>1. \A l \in Listeners : l \in Bound <=> InSeq(l, m_socks)
    BY <1>1, BoundIs
  <2>2. acc' = [l \in Listeners |-> IF l \in Bound THEN r ELSE acc[l]]
    BY DEF Start, r
  <2>3. QED BY <2>1, <2>2
<1>4. acc' \in [Listeners -> AccType]
  BY <1>1, <1>2, <1>3 DEF TypeInv
<1>5. \A l \in Listeners : InSeq(l, m_socks) => ~Accepting(l)
  BY <1>1 DEF RunInv
<1>6. /\ \A l \in Listeners : Taking(l)' <=> Taking(l)
      /\ \A l \in Listeners : Taking(l) => acc'[l] = acc[l]
      /\ \A l \in Listeners : Accepting(l) => Accepting(l)'
  BY <1>2, <1>3, <1>5 DEF Taking, Accepting
<1>7. RunInv'
  BY <1>1 DEF RunInv
<1>8. UNCHANGED <<fdVars, m_socks, sockVars, conn>>
  BY DEF Start, netVars
<1>9. QED BY <1>1, <1>4, <1>6, <1>7, <1>8, QuietStep

\* stop(), up to the queueing of its fiber.
LEMMA StopStep ==
  ASSUME ServerInv, Stop
  PROVE  ServerInv'
<1>1. UNCHANGED <<fdVars, m_socks, sockVars, conn, acc>> /\ m_stop' = TRUE /\ user' = "clear"
      /\ drop[User] = <<>>
  BY DEF Stop, netVars, CanCall, Idle
<1>2. RunInv'
  BY <1>1 DEF RunInv
<1>3. QED BY <1>1, <1>2, QuietStep DEF ServerInv, TypeInv, Taking, Accepting

-----------------------------------------------------------------------------
(* The steps that give a list of sockets to a fiber that closes none.      *)

\* Nothing is opened or closed, no socket is let go of but to the list, and a
\* connection is in the list only if it is its own handler's.
LEMMA GiveStep ==
  ASSUME ServerInv, NEW x \in Fibers, NEW s \in Seq(Sockets),
         drop[x] = <<>>, drop' = [drop EXCEPT ![x] = s],
         UNCHANGED <<fdVars, m_sockfd, stage, conn>>,
         m_stop' \in BOOLEAN, user' \in {"idle", "clear"}, m_socks' \in Seq(Listeners),
         acc' \in [Listeners -> AccType],
         RunInv', user' = "clear" => user = "clear" /\ x # User,
         \A l \in Listeners : Taking(l)' <=> Taking(l),
         \A l \in Listeners : Taking(l) => acc'[l] = acc[l],
         \A c \in Conns : InSeq(c, s) => conn[c] = "served" /\ x = c,
         \A o \in Sockets : Held(o) => Held(o)' \/ InSeq(o, s)
  PROVE  ServerInv'
<1> USE DEF fdVars
<1>0. TypeInv /\ CloseInv
  BY DEF ServerInv
<1>2. /\ drop' \in [Fibers -> Seq(Sockets)]
      /\ \A y \in Fibers : \A o : Drops(y, o)' <=> Drops(y, o) \/ (y = x /\ InSeq(o, s))
      /\ \A y \in Fibers : Closing(y)' <=> Closing(y)
      /\ \A y \in Fibers : Closing(y) => Mine(y)' = Mine(y)
      /\ \A y \in Fibers : drop'[y] = <<>> => stage[y] = "start"
  BY <1>0, ListGiven
<1>3. user' = "clear" => drop'[User] = <<>>
  BY <1>0 DEF CloseInv, TypeInv, Fibers
<1>4. TypeInv'
  BY <1>2 DEF ServerInv, TypeInv
<1>5. CloseInv'
  BY <1>2, <1>3 DEF ServerInv, CloseInv
<1>6. NumberInv'
  BY <1>2 DEF ServerInv, NumberInv
<1>7. TakeInv'
  BY <1>2 DEF ServerInv, TakeInv
<1>8. ConnInv'
  BY <1>2 DEF ServerInv, ConnInv
<1>9. EntryInv'
  <2>1. \A f : Past(f)' <=> Past(f)
    BY <1>2 DEF Past
  <2>2. \A f : JustOpened(f)' <=> JustOpened(f)
    BY DEF JustOpened, Taking
  <2>3. QED BY <2>1, <2>2 DEF ServerInv, EntryInv
<1>10. NonBlockKept'
  BY DEF ServerInv, NonBlockKept, Known
<1>11. LeakInv'
  <2>1. \A o \in Sockets : Held(o) => Held(o)'
    <3>1. \A o : InSeq(o, s) => Held(o)'
      BY <1>2 DEF Held
    <3>2. QED BY <3>1
  <2>2. \A f \in Fds : kern[f] # Nobody => kern[f] \in Sockets
    BY <1>0 DEF TypeInv
  <2>3. QED BY <2>1, <2>2 DEF ServerInv, LeakInv, Leaked
<1>12. QED
  BY <1>4, <1>5, <1>6, <1>7, <1>8, <1>9, <1>10, <1>11 DEF ServerInv

\* Only listeners are in m_socks.
LEMMA SocksFacts ==
  ASSUME TypeInv
  PROVE  /\ \A o : InSeq(o, m_socks) => o \in Listeners /\ o \notin Conns
         /\ m_socks \in Seq(Sockets)
BY ElementOfSeq, SeqMonotonic, ServerAssumption DEF TypeInv, InSeq, Sockets

\* The server lets go of its sockets: those without an accepting fiber go to
\* the fiber that has called it.
LEMMA ClearStep ==
  ASSUME ServerInv, m_socks' = <<>>, NEW s \in Cleared, drop' = [drop EXCEPT ![User] = s],
         drop[User] = <<>>, user' = "idle",
         UNCHANGED <<fdVars, m_stop, m_sockfd, stage, conn, acc>>
  PROVE  ServerInv'
<1>0. TypeInv /\ CloseInv /\ User \in Fibers
  BY DEF ServerInv, Fibers
<1>1. /\ s \in Seq(Listeners) /\ s \in Seq(Sockets)
      /\ \A l \in Listeners : InSeq(l, m_socks) /\ ~Accepting(l) => InSeq(l, s)
      /\ \A o : InSeq(o, s) => o \in Listeners
  BY <1>0, ClearedFacts
<1>2. \A y \in Fibers : \A o : Drops(y, o)' <=> Drops(y, o) \/ (y = User /\ InSeq(o, s))
  BY <1>0, <1>1, ListGiven
<1>3. RunInv'
  <2>1. \A o : ~InSeq(o, m_socks)'
    BY EmptySeq DEF InSeq
  <2>2. QED BY <2>1 DEF RunInv
<1>4. \A c \in Conns : ~InSeq(c, s)
  BY <1>1, ServerAssumption
<1>5. \A o \in Sockets : Held(o) => Held(o)' \/ InSeq(o, s)
  BY <1>0, <1>1, <1>2, SocksFacts DEF Held, Accepting
<1>6. m_stop' \in BOOLEAN /\ m_socks' \in Seq(Listeners) /\ acc' \in [Listeners -> AccType]
  BY <1>0, EmptySeq DEF TypeInv
<1>7. /\ \A l \in Listeners : Taking(l)' <=> Taking(l)
      /\ \A l \in Listeners : Taking(l) => acc'[l] = acc[l]
  BY DEF Taking
<1>8. QED BY <1>0, <1>1, <1>3, <1>4, <1>5, <1>6, <1>7, GiveStep

\* The rest of stop(), and a list of addresses of which one fails.
LEMMA StopClearStep ==
  ASSUME ServerInv, StopClear \/ BindListFails
  PROVE  ServerInv'
<1>1. drop[User] = <<>>
  BY DEF ServerInv, CloseInv, StopClear, BindListFails, CanCall, Idle
<1>2. PICK s \in Cleared : drop' = [drop EXCEPT ![User] = s]
  BY DEF StopClear, BindListFails
<1>3. m_socks' = <<>> /\ user' = "idle" /\ UNCHANGED <<fdVars, m_stop, m_sockfd, stage, conn, acc>>
  BY DEF StopClear, BindListFails, CanCall, netVars
<1>4. QED BY <1>1, <1>2, <1>3, ClearStep

\* The fiber that stop() has queued takes m_socks as it finds it.
LEMMA StopFiberStep ==
  ASSUME ServerInv, StopFiberRuns
  PROVE  ServerInv'
<1>0. TypeInv /\ StopFiber \in Fibers /\ StopFiber # User
  BY ServerAssumption DEF ServerInv, Fibers
<1>1. /\ drop[StopFiber] = <<>> /\ drop' = [drop EXCEPT ![StopFiber] = m_socks]
      /\ UNCHANGED <<fdVars, m_stop, m_socks, user, m_sockfd, stage, conn, acc>>
  BY DEF StopFiberRuns, Idle, netVars
<1>2. m_socks \in Seq(Sockets) /\ \A c \in Conns : ~InSeq(c, m_socks)
  BY <1>0, SocksFacts
<1>3. \A o \in Sockets : Held(o) => Held(o)' \/ InSeq(o, m_socks)
  <2>1. CloseInv
    BY DEF ServerInv
  <2>2. \A y \in Fibers : \A o : Drops(y, o) => Drops(y, o)'
    BY <1>0, <1>1, <1>2, <2>1, ListGiven
  <2>3. QED BY <1>1, <2>2 DEF Held, Accepting
<1>4. /\ m_stop' \in BOOLEAN /\ user' \in {"idle", "clear"} /\ m_socks' \in Seq(Listeners)
      /\ acc' \in [Listeners -> AccType]
  BY <1>0, <1>1 DEF TypeInv
<1>5. RunInv'
  BY <1>1 DEF ServerInv, RunInv, Accepting
<1>6. /\ \A l \in Listeners : Taking(l)' <=> Taking(l)
      /\ \A l \in Listeners : Taking(l) => acc'[l] = acc[l]
  BY <1>1 DEF Taking
<1>7. QED BY <1>0, <1>1, <1>2, <1>3, <1>4, <1>5, <1>6, GiveStep

\* handleClient ends, and its Socket with it.
LEMMA HandlerEndsStep ==
  ASSUME ServerInv, NEW c \in Conns, HandlerEnds(c)
  PROVE  ServerInv'
<1>0. TypeInv /\ CloseInv /\ c \in Fibers /\ c \in Sockets /\ c # User
  BY ServerAssumption DEF ServerInv, Fibers, Sockets
<1>1. /\ drop[c] = <<>> /\ drop' = [drop EXCEPT ![c] = <<c>>] /\ conn[c] = "served"
      /\ UNCHANGED <<fdVars, m_stop, m_socks, user, m_sockfd, stage, conn, acc>>
  BY DEF HandlerEnds, Idle, netVars, serverVars
<1> DEFINE s == <<c>>
<1>2. s \in Seq(Sockets) /\ \A d : InSeq(d, s) <=> d = c
  BY <1>0, One
<1> HIDE DEF s
<1>3. \A o \in Sockets : Held(o) => Held(o)'
  <2>1. \A y \in Fibers : \A o : Drops(y, o) => Drops(y, o)'
    BY <1>0, <1>1, <1>2, ListGiven DEF s
  <2>2. QED BY <1>1, <2>1 DEF Held, Accepting
<1>4. /\ m_stop' \in BOOLEAN /\ user' \in {"idle", "clear"} /\ m_socks' \in Seq(Listeners)
      /\ acc' \in [Listeners -> AccType]
  BY <1>0, <1>1 DEF TypeInv
<1>5. RunInv'
  BY <1>1 DEF ServerInv, RunInv, Accepting
<1>6. /\ \A l \in Listeners : Taking(l)' <=> Taking(l)
      /\ \A l \in Listeners : Taking(l) => acc'[l] = acc[l]
  BY <1>1 DEF Taking
<1>7. drop' = [drop EXCEPT ![c] = s]
  BY <1>1 DEF s
<1>8. QED BY <1>0, <1>1, <1>2, <1>3, <1>4, <1>5, <1>6, <1>7, GiveStep

\* startAccept's loop ends, and its fiber lets go of the socket.
LEMMA LeaveStep ==
  ASSUME ServerInv, NEW l \in Listeners, Leave(l)
  PROVE  ServerInv'
<1>0. TypeInv /\ CloseInv /\ l \in Fibers /\ l \in Sockets /\ l # User /\ l \notin Conns
  BY ServerAssumption DEF ServerInv, Fibers, Sockets
<1> DEFINE s == IF InSeq(l, m_socks) THEN <<>> ELSE <<l>>
<1>1. /\ drop[l] = <<>> /\ drop' = [drop EXCEPT ![l] = s]
      /\ UNCHANGED <<fdVars, m_stop, m_socks, user, m_sockfd, stage, conn>>
      /\ ~Taking(l) /\ acc' = [acc EXCEPT ![l] = NoFiber]
  BY <1>0, BoundIs DEF Leave, At, Idle, netVars, serverVars, Taking, Set
<1>2. /\ s \in Seq(Sockets)
      /\ \A o : InSeq(o, s) => o = l
      /\ InSeq(l, m_socks) \/ InSeq(l, s)
  <2>1. CASE InSeq(l, m_socks)
    BY <2>1, EmptySeq DEF InSeq
  <2>2. CASE ~InSeq(l, m_socks)
    BY <1>0, <2>2, One
  <2>3. QED BY <2>1, <2>2
<1> HIDE DEF s
<1>3. /\ acc' \in [Listeners -> AccType] /\ acc'[l].at = "none"
      /\ \A k \in Listeners \ {l} : acc'[k] = acc[k]
  <2>1. NoFiber \in AccType /\ NoFiber.at = "none"
    BY DEF NoFiber, AccType, AccRecords
  <2>2. QED BY <1>0, <1>1, <2>1 DEF TypeInv
<1>4. \A o \in Sockets : Held(o) => Held(o)' \/ InSeq(o, s)
  <2>1. \A y \in Fibers : \A o : Drops(y, o) => Drops(y, o)'
    BY <1>0, <1>1, <1>2, ListGiven
  <2>2. QED BY <1>1, <1>2, <1>3, <2>1 DEF Held, Accepting
<1>5. m_stop' \in BOOLEAN /\ user' \in {"idle", "clear"} /\ m_socks' \in Seq(Listeners)
  BY <1>0, <1>1 DEF TypeInv
<1>6. RunInv'
  BY <1>1, <1>3 DEF ServerInv, RunInv, Accepting
<1>7. /\ \A k \in Listeners : Taking(k)' <=> Taking(k)
      /\ \A k \in Listeners : Taking(k) => acc'[k] = acc[k]
  BY <1>1, <1>3 DEF Taking
<1>8. \A c \in Conns : ~InSeq(c, s)
  BY <1>0, <1>2
<1>9. QED BY <1>0, <1>1, <1>2, <1>3, <1>4, <1>5, <1>6, <1>7, <1>8, GiveStep
-----------------------------------------------------------------------------
(* The steps of a close. *)

\* The socket's number is gone already.
LEMMA CloseSkip ==
  ASSUME ServerInv, NEW x \in Fibers, CloseStart(x), m_sockfd[Mine(x)] = Nobody
  PROVE  ServerInv'
<1> DEFINE o == Mine(x)
<1>0. TypeInv
  BY DEF ServerInv
<1>1. /\ drop[x] # <<>> /\ stage[x] = "start" /\ m_sockfd[o] = Nobody
      /\ drop' = [drop EXCEPT ![x] = Tail(@)]
      /\ UNCHANGED <<fdVars, serverVars, netVars, m_sockfd, stage, acc>>
  BY DEF CloseStart, Idle, Mine
<1>2. /\ drop' \in [Fibers -> Seq(Sockets)]
      /\ \A y \in Fibers \ {x} : drop'[y] = drop[y]
      /\ \A y \in Fibers : \A p : Drops(y, p)' => Drops(y, p)
      /\ \A y \in Fibers : \A p : Drops(y, p) /\ p # o => Drops(y, p)'
  BY <1>0, <1>1, ListPopped
<1>3. /\ \A y \in Fibers : Closing(y)' <=> Closing(y)
      /\ \A y \in Fibers : Closing(y) => Mine(y)' = Mine(y)
  BY <1>1, <1>2 DEF Closing, Mine
<1>4. user = "clear" => drop'[User] = <<>>
  BY <1>0, <1>1, <1>2 DEF ServerInv, CloseInv, Fibers
<1> USE DEF fdVars, serverVars, netVars
<1>5. \A y \in Fibers : drop'[y] = <<>> => stage[y] = "start"
  BY <1>1, <1>2 DEF ServerInv, CloseInv
<1> HIDE DEF o
<1>6. TypeInv'
  BY <1>1, <1>2 DEF ServerInv, TypeInv
<1>7. CloseInv'
  BY <1>1, <1>3, <1>4, <1>5 DEF ServerInv, CloseInv
<1>8. RunInv'
  BY <1>1 DEF ServerInv, RunInv, Accepting
<1>9. NumberInv'
  BY <1>1, <1>3 DEF ServerInv, NumberInv
<1>10. TakeInv'
  BY <1>1, <1>2 DEF ServerInv, TakeInv, Taking
<1>11. ConnInv'
  BY <1>1, <1>2, <1>3 DEF ServerInv, ConnInv
<1>12. EntryInv'
  <2>1. \A f : Past(f)' <=> Past(f)
    BY <1>1, <1>3 DEF Past
  <2>2. \A f : JustOpened(f)' <=> JustOpened(f)
    BY <1>1 DEF JustOpened
  <2>3. QED BY <1>1, <2>1, <2>2 DEF ServerInv, EntryInv
<1>13. NonBlockKept'
  BY <1>1 DEF ServerInv, NonBlockKept, Known
<1>14. LeakInv'
  <2>1. \A p : Held(p) /\ p # o => Held(p)'
    BY <1>1, <1>2 DEF Held, Accepting
  <2>2. \A f \in Fds : m_sockfd[kern[f]] = f => kern[f] # o
    BY <1>1, ServerAssumption
  <2>3. QED BY <1>1, <2>1, <2>2 DEF ServerInv, LeakInv, Leaked, Taking
<1>15. QED
  BY <1>6, <1>7, <1>8, <1>9, <1>10, <1>11, <1>12, <1>13, <1>14 DEF ServerInv

\* The close begins, with the cancelling of whoever waits.
LEMMA CloseBegin ==
  ASSUME ServerInv, NEW x \in Fibers, CloseStart(x), m_sockfd[Mine(x)] # Nobody
  PROVE  ServerInv'
<1> DEFINE o == Mine(x)
           fd == m_sockfd[o]
<1>0. TypeInv
  BY DEF ServerInv
<1>1. /\ drop[x] # <<>> /\ stage[x] = "start" /\ m_sockfd[o] # Nobody
      /\ \A y \in Fibers \ {x} : Closing(y) => Mine(y) # o
      /\ stage' = [stage EXCEPT ![x] = "del"]
      /\ UNCHANGED <<fdVars, serverVars, netVars, m_sockfd, drop>>
  BY DEF CloseStart, Idle, Mine, Closing
<1>4. FibersMove
  <2>1. CancelWaiter(fd) \/ acc' = acc
    BY DEF CloseStart, Mine
  <2>2. CASE acc' = acc
    BY <1>0, <2>2 DEF TypeInv, FibersMove, Taking, Accepting
  <2>3. QED BY <1>0, <2>1, <2>2, CancelMoves
<1> USE DEF FibersMove
<1>5. /\ stage' \in [Fibers -> {"start", "del", "close", "end"}]
      /\ stage'[x] = "del" /\ \A y \in Fibers \ {x} : stage'[y] = stage[y]
  BY <1>0, <1>1 DEF TypeInv
<1>6. /\ \A y \in Fibers : Closing(y)' <=> Closing(y) \/ y = x
      /\ \A y \in Fibers : Mine(y)' = Mine(y)
      /\ \A y \in Fibers : \A p : Drops(y, p)' <=> Drops(y, p)
      /\ ~Closing(x)
  BY <1>1, <1>5 DEF Closing, Mine, Drops
<1> HIDE DEF o, fd
<1> USE DEF fdVars, serverVars, netVars
<1>7. TypeInv'
  BY <1>1, <1>4, <1>5 DEF ServerInv, TypeInv
<1>8. CloseInv'
  <2>1. \A y \in Fibers : drop'[y] = <<>> => stage'[y] = "start"
    BY <1>1, <1>5 DEF ServerInv, CloseInv
  <2>2. user' = "clear" => drop'[User] = <<>>
    BY <1>1 DEF ServerInv, CloseInv
  <2>3. \A y \in Fibers : Closing(y)' => m_sockfd'[Mine(y)'] # Nobody
    BY <1>1, <1>6 DEF ServerInv, CloseInv, o
  <2>4. \A y, z \in Fibers : Closing(y)' /\ Closing(z)' /\ y # z => Mine(y)' # Mine(z)'
    BY <1>1, <1>6 DEF ServerInv, CloseInv, o
  <2>5. \A y \in Fibers : Closing(y)' /\ stage'[y] = "end" => \A f \in Fds : kern'[f] # Mine(y)'
    BY <1>1, <1>5, <1>6 DEF ServerInv, CloseInv
  <2>6. QED BY <2>1, <2>2, <2>3, <2>4, <2>5 DEF CloseInv
<1>9. RunInv'
  BY <1>1, <1>4 DEF ServerInv, RunInv
<1>10. NumberInv'
  BY <1>1, <1>5, <1>6 DEF ServerInv, NumberInv
<1>11. TakeInv'
  BY <1>1, <1>4, <1>6 DEF ServerInv, TakeInv
<1>12. ConnInv'
  BY <1>1, <1>5, <1>6 DEF ServerInv, ConnInv
<1>13. EntryInv'
  <2>1. \A f : Past(f)' <=> Past(f)
    BY <1>1, <1>5, <1>6 DEF Past
  <2>2. \A f : JustOpened(f)' <=> JustOpened(f)
    BY <1>4 DEF JustOpened, Taking
  <2>3. QED BY <1>1, <2>1, <2>2 DEF ServerInv, EntryInv
<1>14. NonBlockKept'
  BY <1>1 DEF ServerInv, NonBlockKept, Known
<1>15. LeakInv'
  <2>1. \A p : Held(p) => Held(p)'
    BY <1>1, <1>4, <1>6 DEF Held
  <2>2. QED BY <1>1, <1>4, <2>1 DEF ServerInv, LeakInv, Leaked
<1>16. QED
  BY <1>7, <1>8, <1>9, <1>10, <1>11, <1>12, <1>13, <1>14, <1>15 DEF ServerInv

\* What a fiber past the first stage knows of its socket.
LEMMA ClosingFacts ==
  ASSUME ServerInv, NEW x \in Fibers, Closing(x), stage[x] # "end"
  PROVE  /\ Mine(x) \in Sockets /\ m_sockfd[Mine(x)] \in Fds
         /\ kern[m_sockfd[Mine(x)]] = Mine(x)
         /\ \A y \in Fibers \ {x} : Closing(y) => Mine(y) # Mine(x)
         /\ \A p \in Sockets : m_sockfd[p] = m_sockfd[Mine(x)] /\ p # Mine(x) =>
              \E y \in Fibers : Closing(y) /\ stage[y] = "end" /\ Mine(y) = p
         /\ \A l \in Listeners : Taking(l) => acc[l].fd # m_sockfd[Mine(x)] /\ acc[l].got # Mine(x)
<1>1. TypeInv /\ CloseInv /\ NumberInv /\ TakeInv
  BY DEF ServerInv
<1>2. Mine(x) \in Sockets /\ m_sockfd[Mine(x)] \in Fds
  BY <1>1, MineFacts DEF CloseInv, Closing, TypeInv
<1>3. \A y \in Fibers \ {x} : Closing(y) => Mine(y) # Mine(x)
  BY <1>1 DEF CloseInv
<1>4. kern[m_sockfd[Mine(x)]] = Mine(x)
  BY <1>1, <1>2, <1>3, ServerAssumption DEF NumberInv
<1>5. \A p \in Sockets : m_sockfd[p] = m_sockfd[Mine(x)] /\ p # Mine(x) =>
              \E y \in Fibers : Closing(y) /\ stage[y] = "end" /\ Mine(y) = p
  BY <1>1, <1>2, <1>4, ServerAssumption DEF NumberInv
<1>6. \A l \in Listeners : Taking(l) => acc[l].fd # m_sockfd[Mine(x)] /\ acc[l].got # Mine(x)
  BY <1>1, <1>2, <1>4, ServerAssumption DEF TakeInv
<1>7. QED BY <1>2, <1>3, <1>4, <1>5, <1>6

\* The entry goes while the number is still the socket's own.
LEMMA CloseDelStep ==
  ASSUME ServerInv, NEW x \in Fibers, CloseDel(x)
  PROVE  ServerInv'
<1> DEFINE o == Mine(x)
           fd == m_sockfd[o]
<1>0. TypeInv
  BY DEF ServerInv
<1>1. /\ Closing(x) /\ stage[x] = "del" /\ drop[x] # <<>>
      /\ infos' = [infos EXCEPT ![fd] = Nobody]
      /\ stage' = [stage EXCEPT ![x] = "close"]
      /\ UNCHANGED <<kern, nonblock, serverVars, netVars, m_sockfd, drop, acc>>
  BY DEF CloseDel, Del, Idle, Mine, Closing
<1>2. o \in Sockets /\ fd \in Fds /\ kern[fd] = o
  BY <1>1, ClosingFacts
<1>3. infos' \in [Fds -> Infos \cup {Nobody}] /\ infos'[fd] = Nobody
      /\ \A f \in Fds \ {fd} : infos'[f] = infos[f]
  BY <1>0, <1>1, <1>2 DEF TypeInv
<1>4. /\ stage' \in [Fibers -> {"start", "del", "close", "end"}]
      /\ stage'[x] = "close" /\ \A y \in Fibers \ {x} : stage'[y] = stage[y]
  BY <1>0, <1>1 DEF TypeInv
<1>5. /\ \A y \in Fibers : Closing(y)' <=> Closing(y)
      /\ \A y \in Fibers : Mine(y)' = Mine(y)
      /\ \A y \in Fibers : \A p : Drops(y, p)' <=> Drops(y, p)
  BY <1>1, <1>4 DEF Closing, Mine, Drops
<1> USE DEF serverVars, netVars
<1>7. TypeInv'
  BY <1>1, <1>3, <1>4 DEF ServerInv, TypeInv
<1>8. CloseInv'
  <2>1. \A y \in Fibers : drop'[y] = <<>> => stage'[y] = "start"
    BY <1>1, <1>4 DEF ServerInv, CloseInv
  <2>2. user' = "clear" => drop'[User] = <<>>
    BY <1>1 DEF ServerInv, CloseInv
  <2>3. \A y \in Fibers : Closing(y)' /\ stage'[y] = "end" => \A f \in Fds : kern'[f] # Mine(y)'
    BY <1>1, <1>4, <1>5 DEF ServerInv, CloseInv
  <2>4. QED BY <1>1, <1>5, <2>1, <2>2, <2>3 DEF ServerInv, CloseInv
<1>9. RunInv'
  BY <1>1 DEF ServerInv, RunInv, Accepting
<1>10. NumberInv'
  BY <1>1, <1>4, <1>5 DEF ServerInv, NumberInv
<1>11. TakeInv'
  BY <1>1, <1>5 DEF ServerInv, TakeInv, Taking
<1>12. ConnInv'
  BY <1>1, <1>4, <1>5 DEF ServerInv, ConnInv
<1>13. EntryInv'
  <2>1. \A f : Past(f)' <=> Past(f) \/ f = fd
    BY <1>1, <1>4, <1>5 DEF Past
  <2>2. \A f : JustOpened(f)' <=> JustOpened(f)
    BY <1>1 DEF JustOpened
  <2> HIDE DEF fd
  <2>3. QED BY <1>1, <1>3, <2>1, <2>2 DEF ServerInv, EntryInv
<1>14. NonBlockKept'
  BY <1>1, <1>3 DEF ServerInv, NonBlockKept, Known
<1>15. LeakInv'
  <2>1. \A p : Held(p) => Held(p)'
    BY <1>1, <1>5 DEF Held, Accepting
  <2>2. \A f \in Fds \ {fd} : Leaked(f) => Leaked(f)'
    BY <1>1, <1>3 DEF Leaked, netVars
  <2>3. \A p : p = o => Held(p)'
    <3>1. Drops(x, o)
      BY <1>0, <1>1, MineFacts DEF o
    <3>2. QED BY <1>5, <3>1 DEF Held
  <2>4. SUFFICES ASSUME NEW f \in Fds, kern[f] # Nobody
                 PROVE  \/ m_sockfd[kern[f]] = f /\ \A p : p = kern[f] => Held(p)'
                        \/ \E l \in Listeners : Taking(l) /\ acc[l].fd = f
                        \/ Leaked(f)'
    BY <1>1 DEF LeakInv, Taking
  <2>5. CASE f = fd
    BY <1>2, <2>3, <2>5
  <2>6. CASE f # fd
    BY <2>1, <2>2, <2>4, <2>6 DEF ServerInv, LeakInv
  <2>7. QED BY <2>5, <2>6
<1>16. QED
  BY <1>7, <1>8, <1>9, <1>10, <1>11, <1>12, <1>13, <1>14, <1>15 DEF ServerInv

\* close_f: the number is free, and what it was open for is open nowhere.
LEMMA CloseDescriptorStep ==
  ASSUME ServerInv, NEW x \in Fibers, CloseDescriptor(x)
  PROVE  ServerInv'
<1> DEFINE o == Mine(x)
           fd == m_sockfd[o]
<1>0. TypeInv
  BY DEF ServerInv
<1>1. /\ Closing(x) /\ stage[x] = "close" /\ drop[x] # <<>>
      /\ kern' = [kern EXCEPT ![fd] = Nobody] /\ nonblock' = nonblock \ {fd}
      /\ stage' = [stage EXCEPT ![x] = "end"]
      /\ conn' = [c \in Conns |-> IF c = o \/ (conn[c] = "pending" /\ via[c] = o)
                                  THEN "closed" ELSE conn[c]]
      /\ acc' = [l \in Listeners |->
                   IF acc[l].fd = fd THEN [acc[l] EXCEPT !.reg = FALSE] ELSE acc[l]]
      /\ UNCHANGED <<infos, serverVars, m_sockfd, drop>>
  BY DEF CloseDescriptor, CloseF, Idle, Mine, Closing
<1>2. /\ o \in Sockets /\ fd \in Fds /\ kern[fd] = o
      /\ \A y \in Fibers \ {x} : Closing(y) => Mine(y) # o
      /\ \A p \in Sockets : m_sockfd[p] = fd /\ p # o =>
              \E y \in Fibers : Closing(y) /\ stage[y] = "end" /\ Mine(y) = p
      /\ \A l \in Listeners : Taking(l) => acc[l].fd # fd /\ acc[l].got # o
  BY <1>1, ClosingFacts
<1>3. kern' \in [Fds -> Sockets \cup {Nobody}] /\ kern'[fd] = Nobody
      /\ \A f \in Fds \ {fd} : kern'[f] = kern[f]
  BY <1>0, <1>1, <1>2 DEF TypeInv
<1>4. /\ stage' \in [Fibers -> {"start", "del", "close", "end"}]
      /\ stage'[x] = "end" /\ \A y \in Fibers \ {x} : stage'[y] = stage[y]
  BY <1>0, <1>1 DEF TypeInv
<1>5. /\ \A y \in Fibers : Closing(y)' <=> Closing(y)
      /\ \A y \in Fibers : Mine(y)' = Mine(y)
      /\ \A y \in Fibers : \A p : Drops(y, p)' <=> Drops(y, p)
  BY <1>1, <1>4 DEF Closing, Mine, Drops
<1>6. /\ conn' \in [Conns -> {"new", "pending", "accepted", "served", "closed"}]
      /\ \A c \in Conns : conn'[c] = conn[c] \/ conn'[c] = "closed"
      /\ \A c \in Conns : c # o /\ conn[c] # "pending" => conn'[c] = conn[c]
      /\ \A c \in Conns : c = o => conn'[c] = "closed"
  BY <1>0, <1>1 DEF TypeInv
<1> HIDE DEF o, fd
<1>a. FibersMove
  <2>1. \A l \in Listeners : /\ acc[l] \in AccType
                             /\ [acc[l] EXCEPT !.reg = FALSE] \in AccType
                             /\ [acc[l] EXCEPT !.reg = FALSE].at = acc[l].at
    BY <1>0 DEF TypeInv, AccType, AccRecords
  <2>2. QED BY <1>1, <1>2, <2>1 DEF FibersMove, Taking, Accepting
<1> USE DEF serverVars, FibersMove
<1>7. TypeInv'
  BY <1>1, <1>3, <1>4, <1>6, <1>a DEF ServerInv, TypeInv
<1>8. CloseInv'
  <2>1. \A y \in Fibers : drop'[y] = <<>> => stage'[y] = "start"
    BY <1>1, <1>4 DEF ServerInv, CloseInv
  <2>2. user' = "clear" => drop'[User] = <<>>
    BY <1>1 DEF ServerInv, CloseInv
  <2>3. \A f \in Fds \ {fd} : kern[f] # o
    BY <1>2, ServerAssumption DEF ServerInv, NumberInv
  <2>4. \A f \in Fds : kern'[f] # o
    BY <1>2, <1>3, <2>3, ServerAssumption
  <2>5. \A y \in Fibers \ {x} : Closing(y) /\ stage[y] = "end" => \A f \in Fds : kern'[f] # Mine(y)
    <3>1. \A y \in Fibers : Closing(y) => Mine(y) \in Sockets
      BY <1>0, MineFacts DEF Closing
    <3>2. QED BY <1>3, <3>1, ServerAssumption DEF ServerInv, CloseInv
  <2>6. \A y \in Fibers : Closing(y)' /\ stage'[y] = "end" => \A f \in Fds : kern'[f] # Mine(y)'
    BY <1>4, <1>5, <2>4, <2>5 DEF o
  <2>7. QED BY <1>1, <1>5, <2>1, <2>2, <2>6 DEF ServerInv, CloseInv
<1>9. RunInv'
  BY <1>1, <1>a DEF ServerInv, RunInv
<1>10. NumberInv'
  <2>1. ASSUME NEW p \in Sockets, m_sockfd[p] # Nobody
        PROVE  \/ kern'[m_sockfd[p]] = p
               \/ \E y \in Fibers : Closing(y)' /\ stage'[y] = "end" /\ Mine(y)' = p
    <3>1. CASE p = o
      BY <1>1, <1>4, <1>5, <3>1 DEF o
    <3>2. CASE p # o /\ \E y \in Fibers : Closing(y) /\ stage[y] = "end" /\ Mine(y) = p
      BY <1>1, <1>4, <1>5, <3>2
    <3>3. CASE p # o /\ ~\E y \in Fibers : Closing(y) /\ stage[y] = "end" /\ Mine(y) = p
      <4>1. m_sockfd[p] # fd /\ m_sockfd[p] \in Fds /\ kern[m_sockfd[p]] = p
        BY <1>0, <1>2, <2>1, <3>3 DEF ServerInv, NumberInv, TypeInv
      <4>2. QED BY <1>3, <4>1
    <3>4. QED BY <3>1, <3>2, <3>3
  <2>2. \A f, g \in Fds : kern'[f] = kern'[g] /\ kern'[f] # Nobody => f = g
    BY <1>3 DEF ServerInv, NumberInv
  <2>3. QED BY <1>1, <2>1, <2>2 DEF NumberInv
<1>11. TakeInv'
  BY <1>1, <1>2, <1>3, <1>5, <1>6, <1>a DEF ServerInv, TakeInv
<1>12. ConnInv'
  <2>1. \A y \in Fibers : Closing(y) /\ stage'[y] = "end" /\ Mine(y) \in Conns => conn'[Mine(y)] = "closed"
    <3>1. ASSUME NEW y \in Fibers, Closing(y), stage'[y] = "end", Mine(y) \in Conns, y # x
          PROVE  conn'[Mine(y)] = "closed"
      <4>1. conn[Mine(y)] = "closed"
        BY <1>4, <3>1 DEF ServerInv, ConnInv
      <4>2. QED BY <1>6, <3>1, <4>1
    <3>2. QED BY <1>6, <3>1 DEF o
  <2>2. QED BY <1>1, <1>5, <1>6, <2>1 DEF ServerInv, ConnInv
<1>13. EntryInv'
  <2>1. \A f \in Fds : f # fd => (Past(f)' <=> Past(f))
    BY <1>1, <1>4, <1>5 DEF Past, fd, o
  <2>2. \A f : JustOpened(f)' <=> JustOpened(f)
    BY <1>a DEF JustOpened, Taking
  <2>3. infos[fd] = Nobody
    <3>1. Past(fd)
      BY <1>1 DEF Past, fd, o
    <3>2. QED BY <1>2, <3>1 DEF ServerInv, EntryInv
  <2>4. QED BY <1>1, <1>2, <1>3, <2>1, <2>2, <2>3 DEF ServerInv, EntryInv
<1>14. NonBlockKept'
  <2>1. infos[fd] = Nobody
    <3>1. Past(fd)
      BY <1>1 DEF Past, fd, o
    <3>2. QED BY <1>2, <3>1 DEF ServerInv, EntryInv
  <2>2. QED BY <1>1, <2>1 DEF ServerInv, NonBlockKept, Known
<1>15. LeakInv'
  <2>1. \A p : Held(p) /\ p # o => Held(p)'
    BY <1>1, <1>5, <1>6, <1>a DEF Held
  <2>2. \A f \in Fds \ {fd} : m_sockfd[kern[f]] = f => kern[f] # o
    BY DEF fd
  <2>3. \A f \in Fds \ {fd} : Leaked(f) => Leaked(f)'
    <3>1. \A f \in Fds \ {fd} : kern[f] # o
      BY <1>2, ServerAssumption DEF ServerInv, NumberInv
    <3>2. QED BY <1>1, <1>3, <1>6, <3>1 DEF Leaked
  <2>4. QED BY <1>1, <1>3, <1>a, <2>1, <2>2, <2>3 DEF ServerInv, LeakInv
<1>16. QED
  BY <1>7, <1>8, <1>9, <1>10, <1>11, <1>12, <1>13, <1>14, <1>15 DEF ServerInv

\* The Socket forgets a number that may be another's by now.
LEMMA CloseEndStep ==
  ASSUME ServerInv, NEW x \in Fibers, CloseEnd(x)
  PROVE  ServerInv'
<1> DEFINE o == Mine(x)
<1>0. TypeInv
  BY DEF ServerInv
<1>1. /\ Closing(x) /\ stage[x] = "end" /\ drop[x] # <<>>
      /\ m_sockfd' = [m_sockfd EXCEPT ![o] = Nobody]
      /\ drop' = [drop EXCEPT ![x] = Tail(@)]
      /\ stage' = [stage EXCEPT ![x] = "start"]
      /\ UNCHANGED <<fdVars, serverVars, netVars, acc>>
  BY DEF CloseEnd, Idle, Mine, Closing
<1>2. /\ drop' \in [Fibers -> Seq(Sockets)]
      /\ \A y \in Fibers \ {x} : drop'[y] = drop[y]
      /\ \A y \in Fibers : \A p : Drops(y, p)' => Drops(y, p)
      /\ \A y \in Fibers : \A p : Drops(y, p) /\ p # o => Drops(y, p)'
  BY <1>0, <1>1, ListPopped
<1>3. /\ o \in Sockets
      /\ m_sockfd' \in [Sockets -> Fds \cup {Nobody}] /\ m_sockfd'[o] = Nobody
      /\ \A p \in Sockets \ {o} : m_sockfd'[p] = m_sockfd[p]
  BY <1>0, <1>1, MineFacts DEF TypeInv
<1>4. /\ stage' \in [Fibers -> {"start", "del", "close", "end"}]
      /\ stage'[x] = "start" /\ \A y \in Fibers \ {x} : stage'[y] = stage[y]
  BY <1>0, <1>1 DEF TypeInv
<1>5. /\ \A y \in Fibers : Closing(y)' <=> Closing(y) /\ y # x
      /\ \A y \in Fibers \ {x} : Mine(y)' = Mine(y)
      /\ \A y \in Fibers \ {x} : Closing(y) => Mine(y) # o /\ Mine(y) \in Sockets
      /\ \A f \in Fds : kern[f] # o
  <2>1. \A y \in Fibers : Closing(y)' <=> Closing(y) /\ y # x
    BY <1>2, <1>4 DEF Closing
  <2>2. \A y \in Fibers \ {x} : Mine(y)' = Mine(y)
    BY <1>2 DEF Mine
  <2>3. \A y \in Fibers \ {x} : Closing(y) => Mine(y) # o /\ Mine(y) \in Sockets
    BY <1>0, <1>1, MineFacts DEF ServerInv, CloseInv, Closing
  <2>4. \A f \in Fds : kern[f] # o
    BY <1>1 DEF ServerInv, CloseInv
  <2>5. QED BY <2>1, <2>2, <2>3, <2>4
<1>6. user = "clear" => x # User
  BY <1>1 DEF ServerInv, CloseInv
<1> USE DEF fdVars, serverVars, netVars
<1>a. CloseInv /\ NumberInv /\ TakeInv /\ ConnInv /\ EntryInv /\ LeakInv
  BY DEF ServerInv
<1>b. o \in Conns => conn[o] = "closed"
  BY <1>1, <1>a DEF ConnInv
<1> HIDE DEF o
<1>7. TypeInv'
  BY <1>0, <1>1, <1>2, <1>3, <1>4 DEF TypeInv
<1>8. CloseInv'
  <2>1. \A y \in Fibers : drop'[y] = <<>> => stage'[y] = "start"
    BY <1>2, <1>4, <1>a DEF CloseInv
  <2>2. user' = "clear" => drop'[User] = <<>>
    BY <1>1, <1>2, <1>6, <1>a DEF CloseInv, Fibers
  <2>3. \A y \in Fibers : Closing(y)' => m_sockfd'[Mine(y)'] # Nobody
    BY <1>3, <1>5, <1>a DEF CloseInv
  <2>4. \A y, z \in Fibers : Closing(y)' /\ Closing(z)' /\ y # z => Mine(y)' # Mine(z)'
    BY <1>5, <1>a DEF CloseInv
  <2>5. \A y \in Fibers : Closing(y)' /\ stage'[y] = "end" => \A f \in Fds : kern'[f] # Mine(y)'
    BY <1>1, <1>4, <1>5, <1>a DEF CloseInv
  <2>6. QED BY <2>1, <2>2, <2>3, <2>4, <2>5 DEF CloseInv
<1>9. RunInv'
  BY <1>1 DEF ServerInv, RunInv, Accepting
<1>10. NumberInv'
  <2>1. ASSUME NEW p \in Sockets, m_sockfd'[p] # Nobody
        PROVE  \/ kern'[m_sockfd'[p]] = p
               \/ \E y \in Fibers : Closing(y)' /\ stage'[y] = "end" /\ Mine(y)' = p
    <3>1. p # o /\ m_sockfd'[p] = m_sockfd[p]
      BY <1>3, <2>1
    <3>2. CASE kern[m_sockfd[p]] = p
      BY <1>1, <3>1, <3>2
    <3>3. CASE kern[m_sockfd[p]] # p
      <4>1. PICK y \in Fibers : Closing(y) /\ stage[y] = "end" /\ Mine(y) = p
        BY <1>a, <2>1, <3>1, <3>3 DEF NumberInv
      <4>2. y # x
        BY <3>1, <4>1 DEF o
      <4>3. QED BY <1>4, <1>5, <4>1, <4>2
    <3>4. QED BY <3>2, <3>3
  <2>2. \A f, g \in Fds : kern'[f] = kern'[g] /\ kern'[f] # Nobody => f = g
    BY <1>1, <1>a DEF NumberInv
  <2>3. QED BY <2>1, <2>2 DEF NumberInv
<1>11. TakeInv'
  <2>1. \A l \in Listeners : Taking(l)' <=> Taking(l)
    BY <1>1 DEF Taking
  <2>2. \A c \in Conns : c \in Sockets
    BY DEF Sockets
  <2>3. QED BY <1>1, <1>2, <1>3, <1>a, <2>1, <2>2 DEF TakeInv
<1>12. ConnInv'
  <2>1. \A c \in Conns : c \in Sockets
    BY DEF Sockets
  <2>2. QED BY <1>1, <1>2, <1>3, <1>4, <1>5, <1>a, <1>b, <2>1 DEF ConnInv
<1>13. EntryInv'
  <2>1. \A f : Past(f)' <=> Past(f)
    BY <1>1, <1>3, <1>4, <1>5 DEF Past
  <2>2. \A f : JustOpened(f)' <=> JustOpened(f)
    BY <1>1 DEF JustOpened
  <2>3. QED BY <1>1, <1>a, <2>1, <2>2 DEF EntryInv
<1>14. NonBlockKept'
  BY <1>1 DEF ServerInv, NonBlockKept, Known
<1>15. LeakInv'
  <2>1. \A p : Held(p) /\ p # o => Held(p)'
    BY <1>1, <1>2 DEF Held, Accepting
  <2>2. \A f \in Fds : kern[f] # Nobody => kern[f] \in Sockets \ {o}
    BY <1>0, <1>5 DEF TypeInv
  <2>3. QED BY <1>1, <1>3, <1>a, <2>1, <2>2 DEF LeakInv, Leaked, Taking
<1>16. QED
  BY <1>7, <1>8, <1>9, <1>10, <1>11, <1>12, <1>13, <1>14, <1>15 DEF ServerInv
-----------------------------------------------------------------------------
(* The steps that open a descriptor, and accept's hand-over.               *)

\* What is known of a number that was free.
LEMMA OpenFacts ==
  ASSUME ServerInv, NEW o \in Sockets, NEW f \in Fds, KernelOpen(o, f)
  PROVE  /\ kern[f] = Nobody /\ infos[f] = Nobody
         /\ kern' \in [Fds -> Sockets \cup {Nobody}] /\ kern'[f] = o
         /\ \A g \in Fds \ {f} : kern'[g] = kern[g]
         /\ \A l \in Listeners : Taking(l) => acc[l].fd # f
         /\ \A y \in Fibers : Closing(y) /\ stage[y] # "end" => m_sockfd[Mine(y)] # f
         /\ \A p \in Sockets : m_sockfd[p] = f =>
              \E y \in Fibers : Closing(y) /\ stage[y] = "end" /\ Mine(y) = p
<1>1. kern[f] = Nobody /\ kern' = [kern EXCEPT ![f] = o]
  BY DEF KernelOpen, Free
<1>2. TypeInv /\ TakeInv /\ NumberInv /\ EntryInv
  BY DEF ServerInv
<1>3. infos[f] = Nobody
  BY <1>1, <1>2 DEF EntryInv
<1>4. /\ kern' \in [Fds -> Sockets \cup {Nobody}] /\ kern'[f] = o
      /\ \A g \in Fds \ {f} : kern'[g] = kern[g]
  BY <1>1, <1>2 DEF TypeInv
<1>5. \A l \in Listeners : Taking(l) => acc[l].fd # f
  BY <1>1, <1>2, ServerAssumption DEF TakeInv, Sockets
<1>6. \A y \in Fibers : Closing(y) /\ stage[y] # "end" => m_sockfd[Mine(y)] # f
  <2>1. SUFFICES ASSUME NEW y \in Fibers, Closing(y), stage[y] # "end", m_sockfd[Mine(y)] = f
                 PROVE  FALSE
    OBVIOUS
  <2>2. Mine(y) \in Sockets /\ kern[f] = Mine(y)
    BY <2>1, ClosingFacts
  <2>3. QED BY <1>1, <2>2, ServerAssumption
<1>7. \A p \in Sockets : m_sockfd[p] = f =>
              \E y \in Fibers : Closing(y) /\ stage[y] = "end" /\ Mine(y) = p
  BY <1>1, <1>2, ServerAssumption DEF NumberInv
<1>8. QED BY <1>1, <1>3, <1>4, <1>5, <1>6, <1>7

\* A listening socket is made; the server or the fiber that has called it
\* holds it.
LEMMA OpenStep ==
  ASSUME ServerInv, NEW l \in Listeners, NEW f \in Fds, CanCall, Fresh(l), OpenListener(l, f),
         UNCHANGED <<m_stop, user, stage, conn, acc>>,
         \/ m_socks' = Append(m_socks, l) /\ UNCHANGED drop
         \/ UNCHANGED m_socks /\ drop' = [drop EXCEPT ![User] = <<l>>]
  PROVE  ServerInv'
<1>0. TypeInv /\ CloseInv /\ l \in Sockets /\ User \in Fibers /\ l \notin Conns
  BY ServerAssumption DEF ServerInv, Sockets, Fibers
<1>1. /\ KernelOpen(l, f) /\ user = "idle" /\ drop[User] = <<>>
      /\ m_sockfd[l] = Nobody /\ m_sockfd' = [m_sockfd EXCEPT ![l] = f]
      /\ nonblock' = nonblock \cup {f}
      /\ infos' = [infos EXCEPT ![f] = [of |-> l, userNb |-> FALSE, rdtimeout |-> Timeout,
                                      closed |-> FALSE]]
      /\ ~Accepting(l) /\ ~InSeq(l, m_socks)
  BY <1>0, BoundIs DEF OpenListener, Create, Fresh, CanCall, Idle
<1>2. \A y \in Fibers : ~Drops(y, l)
  <2>1. \A y \in Fibers : DOMAIN drop[y] = 1 .. Len(drop[y])
    BY <1>0, LenProperties DEF TypeInv
  <2>2. QED BY <2>1 DEF Fresh, Drops, InSeq
<1>3. /\ kern[f] = Nobody /\ infos[f] = Nobody
      /\ kern' \in [Fds -> Sockets \cup {Nobody}] /\ kern'[f] = l
      /\ \A g \in Fds \ {f} : kern'[g] = kern[g]
      /\ \A k \in Listeners : Taking(k) => acc[k].fd # f
      /\ \A y \in Fibers : Closing(y) /\ stage[y] # "end" => m_sockfd[Mine(y)] # f
      /\ \A p \in Sockets : m_sockfd[p] = f =>
              \E y \in Fibers : Closing(y) /\ stage[y] = "end" /\ Mine(y) = p
  BY <1>0, <1>1, OpenFacts
<1>4. /\ m_sockfd' \in [Sockets -> Fds \cup {Nobody}] /\ m_sockfd'[l] = f
      /\ \A p \in Sockets \ {l} : m_sockfd'[p] = m_sockfd[p]
  BY <1>0, <1>1 DEF TypeInv
<1>5. /\ infos' \in [Fds -> Infos \cup {Nobody}] /\ infos'[f] # Nobody /\ infos'[f].of = l
      /\ \A g \in Fds \ {f} : infos'[g] = infos[g]
  <2> DEFINE e == [of |-> l, userNb |-> FALSE, rdtimeout |-> Timeout, closed |-> FALSE]
  <2>1. e \in Infos /\ e.of = l
    BY <1>0 DEF Infos
  <2>2. e # Nobody
    BY <2>1, ServerAssumption
  <2> HIDE DEF e
  <2>3. infos' = [infos EXCEPT ![f] = e]
    BY <1>1 DEF e
  <2>4. QED BY <1>0, <2>1, <2>2, <2>3 DEF TypeInv
<1>6. /\ drop' \in [Fibers -> Seq(Sockets)] /\ m_socks' \in Seq(Listeners)
      /\ \A o : InSeq(o, m_socks)' => InSeq(o, m_socks) \/ o = l
      /\ \A o : InSeq(o, m_socks) => InSeq(o, m_socks)'
      /\ \A y \in Fibers : \A o : Drops(y, o) => Drops(y, o)'
      /\ \A y \in Fibers : \A o : Drops(y, o)' => Drops(y, o) \/ o = l
      /\ \A y \in Fibers : Closing(y)' <=> Closing(y)
      /\ \A y \in Fibers : Closing(y) => Mine(y)' = Mine(y)
      /\ \A y \in Fibers : drop'[y] = <<>> => stage[y] = "start"
      /\ InSeq(l, m_socks)' \/ \E y \in Fibers : Drops(y, l)'
  <2>1. CASE m_socks' = Append(m_socks, l) /\ UNCHANGED drop
    <3>1. m_socks \in Seq(Listeners) /\ drop \in [Fibers -> Seq(Sockets)]
      BY <1>0 DEF TypeInv
    <3>2. Append(m_socks, l) \in Seq(Listeners)
          /\ \A o : InSeq(o, Append(m_socks, l)) <=> InSeq(o, m_socks) \/ o = l
      BY <3>1, AppendFacts
    <3>3. \A o : InSeq(o, m_socks)' <=> InSeq(o, m_socks) \/ o = l
      BY <2>1, <3>2 DEF InSeq
    <3>4. /\ \A y, o : Drops(y, o)' <=> Drops(y, o)
          /\ \A y : Closing(y)' <=> Closing(y)
          /\ \A y : Mine(y)' = Mine(y)
      BY <2>1, ListsStay
    <3>5. \A y \in Fibers : drop'[y] = <<>> => stage[y] = "start"
      BY <1>0, <2>1 DEF CloseInv
    <3>6. m_socks' \in Seq(Listeners) /\ drop' \in [Fibers -> Seq(Sockets)]
      BY <2>1, <3>1, <3>2
    <3>7. QED BY <3>3, <3>4, <3>5, <3>6
  <2>2. CASE UNCHANGED m_socks /\ drop' = [drop EXCEPT ![User] = <<l>>]
    <3> DEFINE s == <<l>>
    <3>1. s \in Seq(Sockets) /\ \A o : InSeq(o, s) <=> o = l
      BY <1>0, One
    <3> HIDE DEF s
    <3>2. drop' = [drop EXCEPT ![User] = s]
      BY <2>2 DEF s
    <3>3. /\ drop' \in [Fibers -> Seq(Sockets)]
          /\ \A y \in Fibers : \A o : Drops(y, o)' <=> Drops(y, o) \/ (y = User /\ InSeq(o, s))
          /\ \A y \in Fibers : Closing(y)' <=> Closing(y)
          /\ \A y \in Fibers : Closing(y) => Mine(y)' = Mine(y)
          /\ \A y \in Fibers : drop'[y] = <<>> => stage[y] = "start"
      BY <1>0, <1>1, <3>1, <3>2, ListGiven
    <3>4. m_socks' \in Seq(Listeners) /\ \A o : InSeq(o, m_socks)' <=> InSeq(o, m_socks)
      BY <1>0, <2>2 DEF TypeInv, InSeq
    <3>5. QED BY <1>0, <3>1, <3>3, <3>4
  <2>3. QED BY <2>1, <2>2
<1>7. \A y \in Fibers : Closing(y) => Mine(y) # l /\ Mine(y) \in Sockets
  BY <1>0, <1>2, MineFacts DEF Closing
<1>a. NumberInv /\ TakeInv /\ ConnInv /\ EntryInv /\ LeakInv
  BY DEF ServerInv
<1>b. Conns \subseteq Sockets
  BY DEF Sockets
<1>8. TypeInv'
  BY <1>0, <1>1, <1>3, <1>4, <1>5, <1>6 DEF TypeInv
<1>9. CloseInv'
  <2>1. \A y \in Fibers : drop'[y] = <<>> => stage'[y] = "start"
    BY <1>6
  <2>2. user' # "clear"
    BY <1>1
  <2>3. \A y \in Fibers : Closing(y)' => m_sockfd'[Mine(y)'] # Nobody
    BY <1>0, <1>4, <1>6, <1>7 DEF CloseInv
  <2>4. \A y, z \in Fibers : Closing(y)' /\ Closing(z)' /\ y # z => Mine(y)' # Mine(z)'
    BY <1>0, <1>6 DEF CloseInv
  <2>5. \A y \in Fibers : Closing(y)' /\ stage'[y] = "end" => \A g \in Fds : kern'[g] # Mine(y)'
    BY <1>0, <1>3, <1>6, <1>7 DEF CloseInv
  <2>6. QED BY <2>1, <2>2, <2>3, <2>4, <2>5 DEF CloseInv
<1>10. RunInv'
  BY <1>1, <1>6 DEF ServerInv, RunInv, Accepting
<1>11. NumberInv'
  <2>1. ASSUME NEW p \in Sockets, m_sockfd'[p] # Nobody
        PROVE  \/ kern'[m_sockfd'[p]] = p
               \/ \E y \in Fibers : Closing(y)' /\ stage'[y] = "end" /\ Mine(y)' = p
    <3>1. CASE p = l
      BY <1>3, <1>4, <3>1
    <3>2. CASE p # l
      <4>1. m_sockfd'[p] = m_sockfd[p] /\ m_sockfd[p] \in Fds
        BY <1>0, <1>4, <2>1, <3>2 DEF TypeInv
      <4>2. CASE \E y \in Fibers : Closing(y) /\ stage[y] = "end" /\ Mine(y) = p
        BY <1>6, <4>2
      <4>3. CASE ~\E y \in Fibers : Closing(y) /\ stage[y] = "end" /\ Mine(y) = p
        <5>1. m_sockfd[p] # f /\ kern[m_sockfd[p]] = p
          BY <1>3, <1>a, <2>1, <4>1, <4>3 DEF NumberInv
        <5>2. QED BY <1>3, <4>1, <5>1
      <4>4. QED BY <4>2, <4>3
    <3>3. QED BY <3>1, <3>2
  <2>2. \A g \in Fds : kern[g] # l
    <3>1. SUFFICES ASSUME NEW g \in Fds, kern[g] = l PROVE FALSE
      OBVIOUS
    <3>2. l # Nobody /\ m_sockfd[l] # g
      BY <1>0, <1>1, ServerAssumption
    <3>3. TakeInv
      BY DEF ServerInv
    <3>4. QED BY <1>0, <1>a, <3>1, <3>2, <3>3 DEF LeakInv, Leaked, TakeInv
  <2>3. \A g, h \in Fds : kern'[g] = kern'[h] /\ kern'[g] # Nobody => g = h
    BY <1>3, <1>a, <2>2 DEF NumberInv
  <2>4. QED BY <2>1, <2>3 DEF NumberInv
<1>12. TakeInv'
  <2>1. \A k \in Listeners : Taking(k)' <=> Taking(k)
    BY DEF Taking
  <2>2. QED BY <1>0, <1>3, <1>4, <1>6, <1>a, <1>b, <2>1 DEF TakeInv
<1>13. ConnInv'
  BY <1>0, <1>4, <1>6, <1>a, <1>b DEF ConnInv
<1>14. EntryInv'
  <2>1. \A g : Past(g)' <=> Past(g)
    BY <1>4, <1>6, <1>7 DEF Past
  <2>2. \A g : JustOpened(g)' <=> JustOpened(g)
    BY DEF JustOpened
  <2>3. ~Past(f) /\ ~JustOpened(f)
    BY <1>3 DEF Past, JustOpened, Taking
  <2>4. l # Nobody
    BY <1>0, ServerAssumption
  <2>5. QED BY <1>3, <1>5, <1>a, <2>1, <2>2, <2>3, <2>4 DEF EntryInv
<1>15. NonBlockKept'
  BY <1>1, <1>5 DEF ServerInv, NonBlockKept, Known
<1>16. LeakInv'
  <2>1. \A o : Held(o) => Held(o)'
    BY <1>6 DEF Held, Accepting
  <2>2. Held(l)'
    BY <1>6 DEF Held
  <2>3. \A g \in Fds : kern[g] # Nobody /\ m_sockfd[kern[g]] = g => kern[g] \in Sockets \ {l}
    BY <1>0, <1>1, ServerAssumption DEF TypeInv
  <2>4. \A g \in Fds : kern[g] # Nobody /\ Leaked(g) => Leaked(g)'
    BY <1>3, <1>5 DEF Leaked
  <2>5. QED BY <1>3, <1>4, <1>a, <2>1, <2>2, <2>3, <2>4 DEF LeakInv, Taking
<1>17. QED
  BY <1>8, <1>9, <1>10, <1>11, <1>12, <1>13, <1>14, <1>15, <1>16 DEF ServerInv

\* bind, whether it succeeds or not.
LEMMA BindStep ==
  ASSUME ServerInv, NEW l \in Listeners, Bind(l) \/ BindFails(l)
  PROVE  ServerInv'
<1>1. CASE Bind(l)
  <2>1. PICK f \in Fds : OpenListener(l, f)
    BY <1>1 DEF Bind
  <2>2. /\ CanCall /\ Fresh(l) /\ m_socks' = Append(m_socks, l)
        /\ UNCHANGED <<m_stop, user, stage, conn, acc, drop>>
    BY <1>1 DEF Bind, netVars
  <2>3. QED BY <2>1, <2>2, OpenStep
<1>2. CASE BindFails(l)
  <2>1. PICK f \in Fds : OpenListener(l, f)
    BY <1>2 DEF BindFails
  <2>2. /\ CanCall /\ Fresh(l) /\ drop' = [drop EXCEPT ![User] = <<l>>]
        /\ UNCHANGED <<m_stop, user, stage, conn, acc, m_socks>>
    BY <1>2 DEF BindFails, netVars, serverVars
  <2>3. QED BY <2>1, <2>2, OpenStep
<1>3. QED BY <1>1, <1>2

\* accept_f takes a connection under a number that was free.
LEMMA TryTakesStep ==
  ASSUME ServerInv, NEW l \in Listeners, TryTakes(l)
  PROVE  ServerInv'
<1>0. TypeInv /\ CloseInv /\ NumberInv /\ TakeInv /\ ConnInv /\ EntryInv /\ LeakInv
      /\ Conns \subseteq Sockets
  BY DEF ServerInv, Sockets
<1>1. PICK c \in Conns, f \in Fds :
        /\ conn[c] = "pending" /\ KernelOpen(c, f)
        /\ Set(l, [acc[l] EXCEPT !.at = "got", !.got = c, !.fd = f])
        /\ conn' = [conn EXCEPT ![c] = "accepted"]
  BY DEF TryTakes, Pending
<1>2. /\ UNCHANGED <<nonblock, infos, serverVars, sockVars>>
      /\ ~Taking(l) /\ Accepting(l)
  BY DEF TryTakes, At, Taking, Accepting
<1> DEFINE r == [acc[l] EXCEPT !.at = "got", !.got = c, !.fd = f]
<1>3. r \in AccType /\ r.at = "got" /\ r.got = c /\ r.fd = f
  <2>1. acc[l] \in AccType
    BY <1>0 DEF TypeInv
  <2>2. QED BY <2>1 DEF AccType, AccRecords
<1> HIDE DEF r
<1>4. /\ acc' \in [Listeners -> AccType]
      /\ acc'[l].at = "got" /\ acc'[l].got = c /\ acc'[l].fd = f
      /\ \A k \in Listeners \ {l} : acc'[k] = acc[k]
      /\ \A k \in Listeners : Taking(k)' <=> Taking(k) \/ k = l
      /\ \A k \in Listeners : Accepting(k)' <=> Accepting(k)
  <2>1. acc' = [acc EXCEPT ![l] = r]
    BY <1>1 DEF Set, r
  <2>2. QED BY <1>0, <1>2, <1>3, <2>1 DEF TypeInv, Taking, Accepting
<1>5. /\ kern[f] = Nobody /\ infos[f] = Nobody
      /\ kern' \in [Fds -> Sockets \cup {Nobody}] /\ kern'[f] = c
      /\ \A g \in Fds \ {f} : kern'[g] = kern[g]
      /\ \A k \in Listeners : Taking(k) => acc[k].fd # f
      /\ \A y \in Fibers : Closing(y) /\ stage[y] # "end" => m_sockfd[Mine(y)] # f
      /\ \A p \in Sockets : m_sockfd[p] = f =>
              \E y \in Fibers : Closing(y) /\ stage[y] = "end" /\ Mine(y) = p
  BY <1>0, <1>1, OpenFacts
<1>6. /\ conn' \in [Conns -> {"new", "pending", "accepted", "served", "closed"}]
      /\ conn'[c] = "accepted" /\ \A d \in Conns \ {c} : conn'[d] = conn[d]
  BY <1>0, <1>1 DEF TypeInv
<1> USE DEF serverVars, sockVars
<1>7. /\ \A x, o : Drops(x, o)' <=> Drops(x, o)
      /\ \A x : Closing(x)' <=> Closing(x)
      /\ \A x : Mine(x)' = Mine(x)
  BY <1>2, ListsStay
<1>8. m_sockfd[c] = Nobody /\ \A x \in Fibers : ~Drops(x, c)
  BY <1>0, <1>1 DEF ConnInv
<1>9. \A y \in Fibers : Closing(y) => Mine(y) # c
  BY <1>0, <1>8 DEF CloseInv
<1>10. TypeInv'
  BY <1>0, <1>2, <1>4, <1>5, <1>6 DEF TypeInv
<1>11. CloseInv'
  <2>1. \A y \in Fibers : Closing(y)' /\ stage'[y] = "end" => \A g \in Fds : kern'[g] # Mine(y)'
    BY <1>0, <1>2, <1>5, <1>7, <1>9 DEF CloseInv
  <2>2. QED BY <1>0, <1>2, <1>7, <2>1 DEF CloseInv
<1>12. RunInv'
  BY <1>2, <1>4 DEF ServerInv, RunInv
<1>13. NumberInv'
  <2>1. ASSUME NEW p \in Sockets, m_sockfd[p] # Nobody,
               ~\E y \in Fibers : Closing(y) /\ stage[y] = "end" /\ Mine(y) = p
        PROVE  kern'[m_sockfd[p]] = p
    <3>1. m_sockfd[p] \in Fds /\ m_sockfd[p] # f /\ kern[m_sockfd[p]] = p
      BY <1>0, <1>5, <2>1 DEF NumberInv, TypeInv
    <3>2. QED BY <1>5, <3>1
  <2>2. \A g \in Fds : kern[g] # c
    <3>1. SUFFICES ASSUME NEW g \in Fds, kern[g] = c PROVE FALSE
      OBVIOUS
    <3>2. c # Nobody /\ m_sockfd[c] # g
      BY <1>0, <1>8, ServerAssumption
    <3>3. QED BY <1>0, <1>1, <3>1, <3>2 DEF LeakInv, Leaked, TakeInv
  <2>3. \A g, h \in Fds : kern'[g] = kern'[h] /\ kern'[g] # Nobody => g = h
    BY <1>0, <1>5, <2>2 DEF NumberInv
  <2>4. QED BY <1>2, <1>7, <2>1, <2>3 DEF NumberInv
<1>14. TakeInv'
  <2>1. \A k \in Listeners : Taking(k) => acc[k].got # c
    BY <1>0, <1>1 DEF TakeInv
  <2>2. \A k \in Listeners : Taking(k)' =>
           /\ acc'[k].fd \in Fds /\ acc'[k].got \in Conns
           /\ kern'[acc'[k].fd] = acc'[k].got
           /\ m_sockfd'[acc'[k].got] = Nobody /\ conn'[acc'[k].got] = "accepted"
           /\ \A x \in Fibers : ~Drops(x, acc'[k].got)
    <3>1. SUFFICES ASSUME NEW k \in Listeners, Taking(k)'
                   PROVE  /\ acc'[k].fd \in Fds /\ acc'[k].got \in Conns
                          /\ kern'[acc'[k].fd] = acc'[k].got
                          /\ m_sockfd'[acc'[k].got] = Nobody /\ conn'[acc'[k].got] = "accepted"
                          /\ \A x \in Fibers : ~Drops(x, acc'[k].got)
      OBVIOUS
    <3>2. CASE k = l
      BY <1>2, <1>4, <1>5, <1>6, <1>8, <3>2
    <3>3. CASE k # l
      BY <1>0, <1>2, <1>4, <1>5, <1>6, <2>1, <3>1, <3>3 DEF TakeInv
    <3>4. QED BY <3>2, <3>3
  <2>3. \A j, k \in Listeners : Taking(j)' /\ Taking(k)' /\ j # k => acc'[j].got # acc'[k].got
    BY <1>0, <1>4, <2>1 DEF TakeInv
  <2>4. QED BY <1>7, <2>2, <2>3 DEF TakeInv
<1>15. ConnInv'
  BY <1>0, <1>2, <1>6, <1>7, <1>9 DEF ConnInv
<1>16. EntryInv'
  <2>1. \A g : Past(g)' <=> Past(g)
    BY <1>2, <1>7 DEF Past
  <2>2. \A g : JustOpened(g)' <=> JustOpened(g) \/ g = f
    BY <1>2, <1>4 DEF JustOpened, Taking
  <2>3. QED BY <1>0, <1>2, <1>5, <2>1, <2>2 DEF EntryInv
<1>17. NonBlockKept'
  BY <1>2 DEF ServerInv, NonBlockKept, Known
<1>18. LeakInv'
  <2>1. \A o : Held(o) => Held(o)'
    BY <1>1, <1>2, <1>4, <1>6, <1>7 DEF Held
  <2>2. \A g \in Fds : kern[g] # Nobody /\ Leaked(g) => Leaked(g)'
    BY <1>1, <1>2, <1>5, <1>6 DEF Leaked
  <2>3. QED BY <1>0, <1>2, <1>4, <1>5, <2>1, <2>2 DEF LeakInv
<1>19. QED
  BY <1>10, <1>11, <1>12, <1>13, <1>14, <1>15, <1>16, <1>17, <1>18 DEF ServerInv

\* The accept hook makes an entry for a number that has none.
LEMMA EnterStep ==
  ASSUME ServerInv, NEW l \in Listeners, Enter(l)
  PROVE  ServerInv'
<1> DEFINE f == acc[l].fd
           c == acc[l].got
<1>0. TypeInv /\ CloseInv /\ NumberInv /\ TakeInv /\ ConnInv /\ EntryInv /\ LeakInv
      /\ Conns \subseteq Sockets
  BY DEF ServerInv, Sockets
<1>1. /\ acc[l].at = "got" /\ Taking(l)
      /\ nonblock' = nonblock \cup {f}
      /\ infos' = [infos EXCEPT ![f] = [of |-> c, userNb |-> FALSE, rdtimeout |-> Infinite,
                                      closed |-> FALSE]]
      /\ acc' = [acc EXCEPT ![l] = [acc[l] EXCEPT !.at = "hand"]]
      /\ UNCHANGED <<kern, serverVars, sockVars, netVars>>
  BY DEF Enter, At, Create, Set, Taking
<1>2. /\ f \in Fds /\ c \in Conns /\ kern[f] = c /\ m_sockfd[c] = Nobody
  BY <1>0, <1>1 DEF TakeInv
<1>3. /\ acc' \in [Listeners -> AccType]
      /\ acc'[l].at = "hand" /\ acc'[l].got = c /\ acc'[l].fd = f
      /\ \A k \in Listeners \ {l} : acc'[k] = acc[k]
      /\ \A k \in Listeners : Taking(k)' <=> Taking(k)
      /\ \A k \in Listeners : Accepting(k)' <=> Accepting(k)
  <2> DEFINE r == [acc[l] EXCEPT !.at = "hand"]
  <2>1. r \in AccType /\ r.at = "hand" /\ r.got = c /\ r.fd = f
    <3>1. acc[l] \in AccType
      BY <1>0 DEF TypeInv
    <3>2. QED BY <1>2, <3>1 DEF AccType, AccRecords
  <2> HIDE DEF r
  <2>2. acc' = [acc EXCEPT ![l] = r]
    BY <1>1 DEF r
  <2>3. QED BY <1>0, <1>1, <2>1, <2>2 DEF TypeInv, Taking, Accepting
<1>4. /\ infos' \in [Fds -> Infos \cup {Nobody}] /\ infos'[f] # Nobody /\ infos'[f].of = c
      /\ \A g \in Fds \ {f} : infos'[g] = infos[g]
  <2> DEFINE e == [of |-> c, userNb |-> FALSE, rdtimeout |-> Infinite, closed |-> FALSE]
  <2>1. e \in Infos /\ e.of = c
    BY <1>0, <1>2 DEF Infos
  <2>2. e # Nobody
    BY <2>1, ServerAssumption
  <2> HIDE DEF e
  <2>3. infos' = [infos EXCEPT ![f] = e]
    BY <1>1 DEF e
  <2>4. QED BY <1>0, <1>2, <2>1, <2>2, <2>3 DEF TypeInv
<1> USE DEF serverVars, sockVars, netVars
<1>5. /\ \A x, o : Drops(x, o)' <=> Drops(x, o)
      /\ \A x : Closing(x)' <=> Closing(x)
      /\ \A x : Mine(x)' = Mine(x)
  BY <1>1, ListsStay
<1>6. \A k \in Listeners \ {l} : Taking(k) => acc[k].fd # f
  BY <1>0, <1>1, <1>2 DEF TakeInv
<1>7. ~Past(f)
  <2>1. \A y \in Fibers : Closing(y) /\ stage[y] = "close" => m_sockfd[Mine(y)] # f
    <3>1. SUFFICES ASSUME NEW y \in Fibers, Closing(y), stage[y] = "close", m_sockfd[Mine(y)] = f
                   PROVE  FALSE
      OBVIOUS
    <3>2. kern[f] = Mine(y)
      BY <3>1, ClosingFacts
    <3>3. QED BY <1>2, <3>1, <3>2, ServerAssumption
  <2>2. QED BY <2>1 DEF Past
<1> HIDE DEF f, c
<1>8. TypeInv'
  BY <1>0, <1>1, <1>2, <1>3, <1>4 DEF TypeInv
<1>9. CloseInv'
  BY <1>0, <1>1, <1>5 DEF CloseInv
<1>10. RunInv'
  BY <1>1, <1>3 DEF ServerInv, RunInv
<1>11. NumberInv'
  BY <1>0, <1>1, <1>5 DEF NumberInv
<1>12. TakeInv'
  <2>1. \A k \in Listeners : acc'[k].fd = acc[k].fd /\ acc'[k].got = acc[k].got
    BY <1>3 DEF f, c
  <2>2. QED BY <1>0, <1>1, <1>3, <1>5, <2>1 DEF TakeInv
<1>13. ConnInv'
  BY <1>0, <1>1, <1>5 DEF ConnInv
<1>14. EntryInv'
  <2>1. \A g : Past(g)' <=> Past(g)
    BY <1>1, <1>5 DEF Past
  <2>2. \A g : JustOpened(g)' <=> JustOpened(g) /\ g # f
    BY <1>1, <1>3, <1>6 DEF JustOpened, Taking, f
  <2>3. c # Nobody
    BY <1>0, <1>2, ServerAssumption
  <2>4. QED BY <1>0, <1>1, <1>2, <1>4, <1>7, <2>1, <2>2, <2>3 DEF EntryInv
<1>15. NonBlockKept'
  BY <1>1, <1>4 DEF ServerInv, NonBlockKept, Known
<1>16. LeakInv'
  <2>1. \A o : Held(o) => Held(o)'
    BY <1>1, <1>3, <1>5 DEF Held
  <2>2. \A k \in Listeners : acc'[k].fd = acc[k].fd
    BY <1>3 DEF f
  <2>3. \A g \in Fds \ {f} : Leaked(g) => Leaked(g)'
    BY <1>1, <1>4 DEF Leaked
  <2>4. QED BY <1>0, <1>1, <1>3, <2>1, <2>2, <2>3 DEF LeakInv
<1>17. QED
  BY <1>8, <1>9, <1>10, <1>11, <1>12, <1>13, <1>14, <1>15, <1>16 DEF ServerInv

\* An entry that cannot be made leaves the descriptor to nobody.
LEMMA RefusedStep ==
  ASSUME ServerInv, NEW l \in Listeners, EnterRefused(l)
  PROVE  ServerInv'
<1> DEFINE f == acc[l].fd
           c == acc[l].got
<1>0. TypeInv /\ CloseInv /\ NumberInv /\ TakeInv /\ ConnInv /\ EntryInv /\ LeakInv
      /\ Conns \subseteq Sockets
  BY DEF ServerInv, Sockets
<1>1. /\ acc[l].at = "got" /\ Taking(l)
      /\ nonblock' = nonblock
      /\ infos' = [infos EXCEPT ![f] = [of |-> c, userNb |-> FALSE, rdtimeout |-> Infinite,
                                      closed |-> TRUE]]
      /\ acc' = [acc EXCEPT ![l] = Looping]
      /\ UNCHANGED <<kern, serverVars, sockVars, netVars>>
  BY DEF EnterRefused, At, CreateClosed, Set, Taking
<1>2. /\ f \in Fds /\ c \in Conns /\ kern[f] = c /\ m_sockfd[c] = Nobody
      /\ conn[c] = "accepted"
  BY <1>0, <1>1 DEF TakeInv
<1>3. /\ acc' \in [Listeners -> AccType]
      /\ \A k \in Listeners \ {l} : acc'[k] = acc[k]
      /\ \A k \in Listeners : Taking(k)' <=> Taking(k) /\ k # l
      /\ \A k \in Listeners : Accepting(k)' <=> Accepting(k)
  BY <1>0, <1>1, LoopingIs DEF TypeInv, Taking, Accepting
<1>4. /\ infos' \in [Fds -> Infos \cup {Nobody}] /\ infos'[f] # Nobody /\ infos'[f].of = c
      /\ infos'[f].closed
      /\ \A g \in Fds \ {f} : infos'[g] = infos[g]
  <2> DEFINE e == [of |-> c, userNb |-> FALSE, rdtimeout |-> Infinite, closed |-> TRUE]
  <2>1. e \in Infos /\ e.of = c /\ e.closed
    BY <1>0, <1>2 DEF Infos
  <2>2. e # Nobody
    BY <2>1, ServerAssumption
  <2> HIDE DEF e
  <2>3. infos' = [infos EXCEPT ![f] = e]
    BY <1>1 DEF e
  <2>4. QED BY <1>0, <1>2, <2>1, <2>2, <2>3 DEF TypeInv
<1> USE DEF serverVars, sockVars, netVars
<1>5. /\ \A x, o : Drops(x, o)' <=> Drops(x, o)
      /\ \A x : Closing(x)' <=> Closing(x)
      /\ \A x : Mine(x)' = Mine(x)
  BY <1>1, ListsStay
<1>6. \A k \in Listeners \ {l} : Taking(k) => acc[k].fd # f
  BY <1>0, <1>1, <1>2 DEF TakeInv
<1>7. ~Past(f)
  <2>1. \A y \in Fibers : Closing(y) /\ stage[y] = "close" => m_sockfd[Mine(y)] # f
    <3>1. SUFFICES ASSUME NEW y \in Fibers, Closing(y), stage[y] = "close", m_sockfd[Mine(y)] = f
                   PROVE  FALSE
      OBVIOUS
    <3>2. kern[f] = Mine(y)
      BY <3>1, ClosingFacts
    <3>3. QED BY <1>2, <3>1, <3>2, ServerAssumption
  <2>2. QED BY <2>1 DEF Past
<1> HIDE DEF f, c
<1>8. TypeInv'
  BY <1>0, <1>1, <1>2, <1>3, <1>4 DEF TypeInv
<1>9. CloseInv'
  BY <1>0, <1>1, <1>5 DEF CloseInv
<1>10. RunInv'
  BY <1>1, <1>3 DEF ServerInv, RunInv
<1>11. NumberInv'
  BY <1>0, <1>1, <1>5 DEF NumberInv
<1>12. TakeInv'
  BY <1>0, <1>1, <1>3, <1>5 DEF TakeInv
<1>13. ConnInv'
  BY <1>0, <1>1, <1>5 DEF ConnInv
<1>14. EntryInv'
  <2>1. \A g : Past(g)' <=> Past(g)
    BY <1>1, <1>5 DEF Past
  <2>2. \A g : JustOpened(g)' <=> JustOpened(g) /\ g # f
    BY <1>1, <1>3, <1>6 DEF JustOpened, Taking, f
  <2>3. c # Nobody
    BY <1>0, <1>2, ServerAssumption
  <2>4. QED BY <1>0, <1>1, <1>2, <1>4, <1>7, <2>1, <2>2, <2>3 DEF EntryInv
<1>15. NonBlockKept'
  BY <1>1, <1>4 DEF ServerInv, NonBlockKept, Known
<1>16. LeakInv'
  <2>1. \A o : Held(o) => Held(o)'
    BY <1>1, <1>3, <1>5 DEF Held
  <2>2. \A g \in Fds : g = f \/ Leaked(g) => Leaked(g)'
    BY <1>1, <1>2, <1>4 DEF Leaked
  <2>3. \A k \in Listeners : Taking(k) /\ acc[k].fd # f => Taking(k)' /\ acc'[k].fd = acc[k].fd
    BY <1>3 DEF f
  <2>4. QED BY <1>0, <1>1, <1>2, <2>1, <2>2, <2>3 DEF LeakInv
<1>17. QED
  BY <1>8, <1>9, <1>10, <1>11, <1>12, <1>13, <1>14, <1>15, <1>16 DEF ServerInv

\* accept hands its descriptor over, to a handler or to the close of its own
\* Socket.
LEMMA HandStep ==
  ASSUME ServerInv, NEW l \in Listeners, Hand(l) \/ HandFails(l)
  PROVE  ServerInv'
<1>0. TypeInv /\ CloseInv /\ NumberInv /\ TakeInv /\ ConnInv /\ EntryInv /\ LeakInv
      /\ Conns \subseteq Sockets /\ l \in Fibers /\ l # User /\ l \notin Conns
  BY ServerAssumption DEF ServerInv, Sockets, Fibers
<1>a. acc[l].at = "hand" /\ Taking(l)
  BY DEF Hand, HandFails, At, Taking
<1>b. PICK f \in Fds, c \in Conns : acc[l].fd = f /\ acc[l].got = c
  BY <1>0, <1>a DEF TakeInv
<1>1. /\ acc[l].at = "hand" /\ Taking(l) /\ drop[l] = <<>>
      /\ m_sockfd' = [m_sockfd EXCEPT ![c] = f]
      /\ acc' = [acc EXCEPT ![l] = Looping]
      /\ UNCHANGED <<kern, nonblock, serverVars, stage>>
  BY <1>b DEF Hand, HandFails, At, Set, Taking, Idle, SetTimeout, fdVars
<1>2. /\ kern[f] = c /\ m_sockfd[c] = Nobody /\ conn[c] = "accepted"
      /\ \A x \in Fibers : ~Drops(x, c)
      /\ \A k \in Listeners \ {l} : Taking(k) => acc[k].got # c /\ acc[k].fd # f
  BY <1>0, <1>1, <1>b DEF TakeInv
<1>3. /\ acc' \in [Listeners -> AccType]
      /\ acc'[l].at = "check"
      /\ \A k \in Listeners \ {l} : acc'[k] = acc[k]
      /\ \A k \in Listeners : Taking(k)' <=> Taking(k) /\ k # l
      /\ \A k \in Listeners : Accepting(k)' <=> Accepting(k)
  BY <1>0, <1>1, LoopingIs DEF TypeInv, Taking, Accepting
<1>4. /\ infos' \in [Fds -> Infos \cup {Nobody}]
      /\ \A g \in Fds : infos'[g] = Nobody <=> infos[g] = Nobody
      /\ \A g \in Fds : infos[g] # Nobody =>
           infos'[g].of = infos[g].of /\ infos'[g].closed = infos[g].closed
  <2>1. CASE UNCHANGED infos
    BY <1>0, <2>1 DEF TypeInv
  <2>2. CASE infos[f] # Nobody /\ infos' = [infos EXCEPT ![f].rdtimeout = Timeout]
    <3> DEFINE e == [infos[f] EXCEPT !.rdtimeout = Timeout]
    <3>1. infos[f] \in Infos
      BY <1>0, <1>2, <2>2 DEF TypeInv
    <3>2. e \in Infos /\ e.of = infos[f].of /\ e.closed = infos[f].closed
      BY <3>1 DEF Infos
    <3>3. e # Nobody
      BY <3>2, ServerAssumption
    <3>4. infos' = [infos EXCEPT ![f] = e]
      BY <2>2
    <3> HIDE DEF e
    <3>5. infos'[f] = e /\ \A g \in Fds \ {f} : infos'[g] = infos[g]
      BY <1>0, <3>4 DEF TypeInv
    <3>6. infos' \in [Fds -> Infos \cup {Nobody}]
      BY <1>0, <3>2, <3>4 DEF TypeInv
    <3>7. infos[f] # Nobody
      BY <2>2
    <3>8. QED BY <3>2, <3>3, <3>5, <3>6, <3>7
  <2>3. QED BY <1>b, <2>1, <2>2 DEF Hand, HandFails, SetTimeout, fdVars
<1>5. /\ m_sockfd' \in [Sockets -> Fds \cup {Nobody}] /\ m_sockfd'[c] = f
      /\ \A p \in Sockets \ {c} : m_sockfd'[p] = m_sockfd[p]
  BY <1>0, <1>1, <1>2 DEF TypeInv
<1>6. /\ drop' \in [Fibers -> Seq(Sockets)]
      /\ conn' \in [Conns -> {"new", "pending", "accepted", "served", "closed"}]
      /\ \A d \in Conns \ {c} : conn'[d] = conn[d]
      /\ \A y \in Fibers : \A o : Drops(y, o) => Drops(y, o)'
      /\ \A y \in Fibers : \A o : Drops(y, o)' => Drops(y, o) \/ o = c
      /\ \A y \in Fibers : Closing(y)' <=> Closing(y)
      /\ \A y \in Fibers : Closing(y) => Mine(y)' = Mine(y)
      /\ \A y \in Fibers : drop'[y] = <<>> => stage[y] = "start"
      /\ user = "clear" => drop'[User] = <<>>
      /\ \/ conn'[c] = "served" /\ \A y \in Fibers : ~Drops(y, c)'
         \/ conn'[c] = "accepted" /\ \E y \in Fibers : Drops(y, c)'
  <2>1. CASE Hand(l)
    <3>1. conn' = [conn EXCEPT ![c] = "served"] /\ UNCHANGED <<drop, stage>>
      BY <1>b, <2>1 DEF Hand
    <3>2. /\ \A y, o : Drops(y, o)' <=> Drops(y, o)
          /\ \A y : Closing(y)' <=> Closing(y)
          /\ \A y : Mine(y)' = Mine(y)
      BY <3>1, ListsStay
    <3>3. \A y \in Fibers : drop'[y] = <<>> => stage[y] = "start"
      BY <1>0, <3>1 DEF CloseInv
    <3>4. user = "clear" => drop'[User] = <<>>
      BY <1>0, <3>1 DEF CloseInv
    <3>5. /\ conn' \in [Conns -> {"new", "pending", "accepted", "served", "closed"}]
          /\ conn'[c] = "served" /\ \A d \in Conns \ {c} : conn'[d] = conn[d]
          /\ drop' \in [Fibers -> Seq(Sockets)]
      BY <1>0, <1>2, <3>1 DEF TypeInv
    <3>6. \A y \in Fibers : ~Drops(y, c)'
      BY <1>2, <3>2
    <3>7. QED BY <3>2, <3>3, <3>4, <3>5, <3>6
  <2>2. CASE HandFails(l)
    <3> DEFINE s == <<c>>
    <3>1. s \in Seq(Sockets) /\ \A o : InSeq(o, s) <=> o = c
      BY <1>0, <1>2, One
    <3> HIDE DEF s
    <3>2. drop' = [drop EXCEPT ![l] = s] /\ UNCHANGED <<stage, conn>>
      BY <1>b, <2>2 DEF HandFails, s, netVars
    <3>3. /\ drop' \in [Fibers -> Seq(Sockets)]
          /\ \A y \in Fibers : \A o : Drops(y, o)' <=> Drops(y, o) \/ (y = l /\ InSeq(o, s))
          /\ \A y \in Fibers : Closing(y)' <=> Closing(y)
          /\ \A y \in Fibers : Closing(y) => Mine(y)' = Mine(y)
          /\ \A y \in Fibers : drop'[y] = <<>> => stage[y] = "start"
      BY <1>0, <1>1, <3>1, <3>2, ListGiven
    <3>4. user = "clear" => drop'[User] = <<>>
      BY <1>0, <3>2 DEF CloseInv, TypeInv, Fibers
    <3>5. Drops(l, c)'
      BY <1>0, <3>1, <3>3
    <3>6. QED BY <1>0, <1>2, <3>1, <3>2, <3>3, <3>4, <3>5 DEF TypeInv
  <2>3. QED BY <2>1, <2>2
<1>7. \A y \in Fibers : Closing(y) => Mine(y) # c /\ Mine(y) \in Sockets
  BY <1>0, <1>2, MineFacts DEF CloseInv, Closing
<1> USE DEF serverVars
<1>8. TypeInv'
  BY <1>0, <1>1, <1>3, <1>4, <1>5, <1>6 DEF TypeInv
<1>9. CloseInv'
  <2>1. \A y \in Fibers : Closing(y)' => m_sockfd'[Mine(y)'] # Nobody
    BY <1>0, <1>5, <1>6, <1>7 DEF CloseInv
  <2>2. \A y, z \in Fibers : Closing(y)' /\ Closing(z)' /\ y # z => Mine(y)' # Mine(z)'
    BY <1>0, <1>6 DEF CloseInv
  <2>3. \A y \in Fibers : Closing(y)' /\ stage'[y] = "end" => \A g \in Fds : kern'[g] # Mine(y)'
    BY <1>0, <1>1, <1>6 DEF CloseInv
  <2>4. QED BY <1>1, <1>6, <2>1, <2>2, <2>3 DEF CloseInv
<1>10. RunInv'
  BY <1>1, <1>3 DEF ServerInv, RunInv
<1>11. NumberInv'
  <2>1. ASSUME NEW p \in Sockets, m_sockfd'[p] # Nobody
        PROVE  \/ kern'[m_sockfd'[p]] = p
               \/ \E y \in Fibers : Closing(y)' /\ stage'[y] = "end" /\ Mine(y)' = p
    <3>1. CASE p = c
      BY <1>1, <1>2, <1>5, <3>1
    <3>2. CASE p # c
      BY <1>0, <1>1, <1>5, <1>6, <2>1, <3>2 DEF NumberInv
    <3>3. QED BY <3>1, <3>2
  <2>2. \A g, h \in Fds : kern'[g] = kern'[h] /\ kern'[g] # Nobody => g = h
    BY <1>0, <1>1 DEF NumberInv
  <2>3. QED BY <2>1, <2>2 DEF NumberInv
<1>12. TakeInv'
  BY <1>0, <1>1, <1>2, <1>3, <1>5, <1>6 DEF TakeInv
<1>13. ConnInv'
  <2>1. \A d \in Conns : conn'[d] \in {"new", "pending"} =>
          m_sockfd'[d] = Nobody /\ \A x \in Fibers : ~Drops(x, d)'
    BY <1>0, <1>5, <1>6 DEF ConnInv
  <2>2. \A d \in Conns : conn'[d] = "served" =>
          m_sockfd'[d] # Nobody /\ \A x \in Fibers : Drops(x, d)' => x = d
    BY <1>0, <1>5, <1>6, ServerAssumption DEF ConnInv
  <2>3. \A x \in Fibers : Closing(x)' /\ stage'[x] = "end" /\ Mine(x)' \in Conns => conn'[Mine(x)'] = "closed"
    BY <1>0, <1>1, <1>6, <1>7 DEF ConnInv
  <2>4. QED BY <2>1, <2>2, <2>3 DEF ConnInv
<1>14. EntryInv'
  <2>1. \A g : Past(g)' <=> Past(g)
    BY <1>1, <1>5, <1>6, <1>7 DEF Past
  <2>2. \A g : JustOpened(g)' <=> JustOpened(g)
    BY <1>1, <1>3 DEF JustOpened
  <2>3. QED BY <1>0, <1>1, <1>4, <2>1, <2>2 DEF EntryInv
<1>15. NonBlockKept'
  BY <1>1, <1>4 DEF ServerInv, NonBlockKept, Known
<1>16. LeakInv'
  <2>1. \A o : Held(o) => Held(o)'
    BY <1>1, <1>2, <1>3, <1>6 DEF Held
  <2>2. Held(c)'
    BY <1>6 DEF Held
  <2>3. \A g \in Fds : kern[g] # Nobody => kern[g] \in Sockets
    BY <1>0 DEF TypeInv
  <2>4. \A k \in Listeners : Taking(k) /\ acc[k].fd # f => Taking(k)' /\ acc'[k].fd = acc[k].fd
    BY <1>3, <1>b
  <2>5. \A g \in Fds : kern[g] = c /\ m_sockfd[c] = g => FALSE
    BY <1>2, ServerAssumption
  <2>6. QED
    <3>1. SUFFICES ASSUME NEW g \in Fds, kern[g] # Nobody
                   PROVE  \/ m_sockfd'[kern[g]] = g /\ \E o : o = kern[g] /\ Held(o)'
                          \/ \E k \in Listeners : Taking(k)' /\ acc'[k].fd = g
                          \/ Leaked(g)'
      BY <1>1 DEF LeakInv
    <3>2. CASE g = f
      BY <1>2, <1>5, <2>2, <3>2
    <3>3. CASE g # f
      <4>1. kern[g] # c
        BY <1>0, <1>2, <3>3, ServerAssumption DEF NumberInv
      <4>2. Leaked(g) => Leaked(g)'
        BY <1>1, <1>4, <1>6, <4>1 DEF Leaked
      <4>3. QED BY <1>0, <1>5, <2>1, <2>3, <2>4, <2>5, <3>1, <3>3, <4>2 DEF LeakInv
    <3>4. QED BY <3>2, <3>3
<1>17. QED
  BY <1>8, <1>9, <1>10, <1>11, <1>12, <1>13, <1>14, <1>15, <1>16 DEF ServerInv
-----------------------------------------------------------------------------
(* The peers and the handlers. *)

\* A peer connects.
LEMMA ConnectStep ==
  ASSUME ServerInv, NEW c \in Conns, NEW l \in Listeners, Connect(c, l)
  PROVE  ServerInv'
<1>0. TypeInv /\ TakeInv /\ ConnInv /\ LeakInv
  BY DEF ServerInv
<1>1. /\ conn[c] = "new" /\ conn' = [conn EXCEPT ![c] = "pending"]
      /\ UNCHANGED <<fdVars, serverVars, sockVars, acc>>
  BY DEF Connect
<1>2. /\ conn' \in [Conns -> {"new", "pending", "accepted", "served", "closed"}]
      /\ conn'[c] = "pending" /\ \A d \in Conns \ {c} : conn'[d] = conn[d]
  BY <1>0, <1>1 DEF TypeInv
<1> USE DEF fdVars, serverVars, sockVars
<1>3. /\ \A x, o : Drops(x, o)' <=> Drops(x, o)
      /\ \A x : Closing(x)' <=> Closing(x)
      /\ \A x : Mine(x)' = Mine(x)
  BY <1>1, ListsStay
<1>4. TypeInv' /\ RunInv' /\ NonBlockKept'
  BY <1>1, <1>2 DEF ServerInv, TypeInv, RunInv, NonBlockKept, Known, Accepting
<1>5. CloseInv' /\ NumberInv'
  BY <1>1, <1>3 DEF ServerInv, CloseInv, NumberInv
<1>6. TakeInv'
  BY <1>0, <1>1, <1>2, <1>3 DEF TakeInv, Taking
<1>7. ConnInv'
  BY <1>0, <1>1, <1>2, <1>3 DEF ConnInv
<1>8. EntryInv'
  BY <1>1, <1>3 DEF ServerInv, EntryInv, Past, JustOpened
<1>9. LeakInv'
  <2>1. \A o : Held(o) => Held(o)'
    BY <1>1, <1>2, <1>3 DEF Held, Accepting
  <2>2. QED BY <1>0, <1>1, <1>2, <2>1 DEF LeakInv, Leaked, Taking
<1>10. QED BY <1>4, <1>5, <1>6, <1>7, <1>8, <1>9 DEF ServerInv

\* fcntl by a handler leaves a number with an entry non-blocking.
LEMMA HandlerFcntlStep ==
  ASSUME ServerInv, NEW c \in Conns, HandlerFcntl(c)
  PROVE  ServerInv'
<1> DEFINE f == m_sockfd[c]
<1>0. TypeInv /\ ConnInv /\ EntryInv /\ LeakInv
  BY DEF ServerInv
<1>1. f \in Fds
  BY <1>0 DEF HandlerFcntl, ConnInv, TypeInv, Sockets
<1>2. PICK nb \in BOOLEAN : SetFlags(f, nb)
  BY DEF HandlerFcntl
<1>3. UNCHANGED <<kern, serverVars, sockVars, netVars, acc>>
  BY <1>2 DEF HandlerFcntl, SetFlags
<1>4. /\ infos' \in [Fds -> Infos \cup {Nobody}]
      /\ \A g \in Fds : infos'[g] = Nobody <=> infos[g] = Nobody
      /\ \A g \in Fds : infos[g] # Nobody =>
           infos'[g].of = infos[g].of /\ infos'[g].closed = infos[g].closed
      /\ nonblock' \subseteq Fds
      /\ \A g \in Fds : Known(g) /\ g \in nonblock => g \in nonblock'
  <2>1. CASE ~Known(f)
    BY <1>0, <1>1, <1>2, <2>1 DEF SetFlags, TypeInv, Known
  <2>2. CASE Known(f)
    <3> DEFINE e == [infos[f] EXCEPT !.userNb = nb]
    <3>1. infos[f] \in Infos
      BY <1>0, <1>1, <2>2 DEF TypeInv, Known
    <3>2. e \in Infos /\ e.of = infos[f].of /\ e.closed = infos[f].closed
      BY <3>1 DEF Infos
    <3>3. e # Nobody
      BY <3>2, ServerAssumption
    <3>4. infos' = [infos EXCEPT ![f] = e] /\ nonblock' = nonblock \cup {f}
      BY <1>2, <2>2 DEF SetFlags
    <3> HIDE DEF e, f
    <3>5. infos'[f] = e /\ \A g \in Fds \ {f} : infos'[g] = infos[g]
      BY <1>0, <1>1, <3>4 DEF TypeInv
    <3>6. infos' \in [Fds -> Infos \cup {Nobody}] /\ nonblock' \subseteq Fds
      BY <1>0, <1>1, <3>2, <3>4 DEF TypeInv
    <3>7. QED BY <2>2, <3>2, <3>3, <3>4, <3>5, <3>6 DEF Known
  <2>3. QED BY <2>1, <2>2
<1> USE DEF serverVars, sockVars, netVars
<1>5. /\ \A x, o : Drops(x, o)' <=> Drops(x, o)
      /\ \A x : Closing(x)' <=> Closing(x)
      /\ \A x : Mine(x)' = Mine(x)
  BY <1>3, ListsStay
<1> HIDE DEF f
<1>6. TypeInv'
  BY <1>0, <1>3, <1>4 DEF TypeInv
<1>7. CloseInv' /\ RunInv' /\ NumberInv'
  BY <1>3, <1>5 DEF ServerInv, CloseInv, RunInv, NumberInv, Accepting
<1>8. TakeInv' /\ ConnInv'
  BY <1>3, <1>5 DEF ServerInv, TakeInv, ConnInv, Taking
<1>9. EntryInv'
  <2>1. \A g : Past(g)' <=> Past(g)
    BY <1>3, <1>5 DEF Past
  <2>2. \A g : JustOpened(g)' <=> JustOpened(g)
    BY <1>3 DEF JustOpened
  <2>3. QED BY <1>0, <1>3, <1>4, <2>1, <2>2 DEF EntryInv
<1>10. NonBlockKept'
  BY <1>4 DEF ServerInv, NonBlockKept, Known
<1>11. LeakInv'
  <2>1. \A o : Held(o) => Held(o)'
    BY <1>3, <1>5 DEF Held, Accepting
  <2>2. \A g \in Fds : Leaked(g) => Leaked(g)'
    BY <1>3, <1>4 DEF Leaked
  <2>3. QED BY <1>0, <1>3, <2>1, <2>2 DEF LeakInv, Taking
<1>12. QED BY <1>6, <1>7, <1>8, <1>9, <1>10, <1>11 DEF ServerInv
-----------------------------------------------------------------------------
\* The invariant holds of a new server.
LEMMA ServerInit ==
  ASSUME Init
  PROVE  ServerInv
<1> USE DEF Init, FdInit
<1>1. \A x \in Fibers : drop[x] = <<>> /\ stage[x] = "start"
  OBVIOUS
<1>2. NoFiber \in AccType /\ NoFiber.at = "none"
  BY DEF NoFiber, AccType, AccRecords
<1>3. \A l \in Listeners : acc[l].at = "none"
  BY <1>2
<1>4. TypeInv
  <2>1. <<>> \in Seq(Sockets) /\ <<>> \in Seq(Listeners)
    OBVIOUS
  <2>2. QED BY <1>2, <2>1 DEF TypeInv
<1>5. CloseInv
  BY <1>1 DEF CloseInv, Closing, Fibers
<1>6. RunInv /\ TakeInv
  BY <1>3 DEF RunInv, TakeInv, Taking, Accepting
<1>7. NumberInv /\ NonBlockKept /\ LeakInv
  BY DEF NumberInv, NonBlockKept, Known, LeakInv
<1>8. ConnInv
  <2>1. \A x \in Fibers : \A o : ~Drops(x, o)
    BY <1>1, EmptySeq DEF Drops, InSeq
  <2>2. QED BY <1>1, <2>1 DEF ConnInv, Closing, Sockets
<1>9. EntryInv
  BY DEF EntryInv
<1>10. QED BY <1>4, <1>5, <1>6, <1>7, <1>8, <1>9 DEF ServerInv

\* Every step keeps the invariant.
LEMMA ServerNext ==
  ASSUME ServerInv, [Next]_vars
  PROVE  ServerInv'
<1>1. CASE UserStep \/ StopClear \/ StopFiberRuns
  <2>1. CASE Start
    BY <2>1, StartStep
  <2>2. CASE Stop
    BY <2>2, StopStep
  <2>3. CASE StopClear \/ BindListFails
    BY <2>3, StopClearStep
  <2>4. CASE StopFiberRuns
    BY <2>4, StopFiberStep
  <2>5. ASSUME NEW l \in Listeners, Bind(l) \/ BindFails(l) PROVE ServerInv'
    BY <2>5, BindStep
  <2>6. QED BY <1>1, <2>1, <2>2, <2>3, <2>4, <2>5 DEF UserStep
<1>2. ASSUME NEW x \in Fibers, CloseStep(x) PROVE ServerInv'
  BY <1>2, CloseSkip, CloseBegin, CloseDelStep, CloseDescriptorStep, CloseEndStep DEF CloseStep
<1>3. ASSUME NEW l \in Listeners, AcceptStep(l) PROVE ServerInv'
  BY <1>3, LeaveStep, CallStep, MoveSteps, ExpireStep, TryTakesStep, EnterStep, RefusedStep,
     HandStep DEF AcceptStep
<1>4. ASSUME NEW c \in Conns, ConnStep(c) PROVE ServerInv'
  BY <1>4, HandlerFcntlStep, HandlerEndsStep, ConnectStep DEF ConnStep
<1>5. CASE UNCHANGED vars
  <2>1. UNCHANGED <<fdVars, serverVars, sockVars, netVars, acc>>
    BY <1>5 DEF vars
  <2>2. QED
    BY <2>1, QuietStep
    DEF ServerInv, TypeInv, RunInv, CloseInv, Taking, Accepting, serverVars, netVars
<1>6. QED BY <1>1, <1>2, <1>3, <1>4, <1>5 DEF Next

\* The invariant holds in every state.
LEMMA ServerInvariant == Spec => []ServerInv
<1>1. Init => ServerInv
  BY ServerInit
<1>2. ServerInv /\ [Next]_vars => ServerInv'
  BY ServerNext
<1>3. QED BY <1>1, <1>2, PTL DEF Spec

\* FdManager and close: the entry of a number that is open was made for what is
\* open under it, however often the number has changed hands, but between
\* accept_f and lookUp and between del and close_f; a closed number has none.
THEOREM EntryIsOwnHolds == Spec => []EntryIsOwn
<1>1. ServerInv => EntryIsOwn
  <2>1. \A f : Past(f) <=> Leaving(f)
    BY DEF Past, Leaving, Closing, Mine, Idle
  <2>2. QED BY <2>1 DEF ServerInv, EntryInv, EntryIsOwn
<1>2. QED BY <1>1, ServerInvariant, PTL

\* do_io's assertion: a descriptor with an entry that is not closed is
\* non-blocking for the kernel, whatever handlers have asked of fcntl and whoever
\* had the number before.
THEOREM NonBlockKeptHolds == Spec => []NonBlockKept
<1>1. ServerInv => NonBlockKept
  BY DEF ServerInv
<1>2. QED BY <1>1, ServerInvariant, PTL

\* accept, bind, stop: a descriptor that is open is the number of a Socket that
\* somebody holds or closes, or in a call of accept, or the accepted connection
\* whose entry could not be made; no other path leaks one.
THEOREM NoLeakHolds == Spec => []NoLeak
<1>1. ServerInv => NoLeak
  <2>1. SUFFICES ASSUME ServerInv PROVE NoLeak
    OBVIOUS
  <2>2. TypeInv /\ LeakInv
    BY <2>1 DEF ServerInv
  <2>3. \A x \in Fibers : DOMAIN drop[x] = 1 .. Len(drop[x])
    BY <2>2, LenProperties DEF TypeInv
  <2>4. \A f \in Fds : \A o : m_sockfd[o] = f /\ Held(o) => Owner(f, o)
    BY <2>2, <2>3, BoundIs DEF Held, Owner, Drops, InSeq
  <2>5. QED BY <2>2, <2>4 DEF LeakInv, Leaked, NoLeak, Taking
<1>2. QED BY <1>1, ServerInvariant, PTL
=============================================================================
