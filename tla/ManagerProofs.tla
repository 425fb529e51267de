---------------------------- MODULE ManagerProofs ----------------------------
(***************************************************************************)
(* The two managers.  TimerManager: Timer::cancel finds what it erases,    *)
(* the reactor never sleeps past a timer, and cancel and expiry exclude    *)
(* each other, for every finite set of timers, every interval and every    *)
(* bound on the sleep and the clock.  MySQLManager: the pool never gives a *)
(* connection to two users, for every set of users, connections and names, *)
(* every limit, and however often the database goes down.                  *)
(***************************************************************************)
EXTENDS TimerManager, MySQLManager, FiniteSetTheorems, WellFoundedInduction, TLAPS

(* A finite set of integers that is not empty has a least element.         *)
LEMMA LeastExists ==
  ASSUME NEW S, S \subseteq Int, S # {}, IsFiniteSet(S)
  PROVE  \E d \in S : \A e \in S : d <= e
<1> DEFINE T == {U \in SUBSET S : \E x \in S : U = {d \in S : d <= x}}
<1>1. T \subseteq FiniteSubsetsOf(S)
  BY FS_Subset DEF FiniteSubsetsOf
<1>2. \A x \in S : {d \in S : d <= x} \in T
  OBVIOUS
<1>3. PICK U \in T : \A V \in T : ~ (<<V, U>> \in StrictSubsetOrdering(S))
  <2>1. T # {}
    BY <1>2
  <2> HIDE DEF T
  <2> QED
    BY <1>1, <2>1, FS_StrictSubsetOrderingWellFounded, WFMin
<1>4. PICK d \in S : U = {c \in S : c <= d}
  BY <1>3
<1>5. ASSUME NEW e \in S, ~(d <= e) PROVE FALSE
  <2> DEFINE V == {c \in S : c <= e}
  <2>1. V \in T /\ V \in SUBSET S /\ U \in SUBSET S
    BY <1>2, <1>3
  <2>2. d \in Int /\ e \in Int /\ \A c \in S : c \in Int
    OBVIOUS
  <2>3. V \subseteq U /\ d \in U /\ d \notin V
    <3>1. \A c \in S : c <= e => c <= d
      BY <1>5, <2>2
    <3>2. d <= d
      BY <2>2
    <3>3. d \in U
      BY <1>4, <3>2
    <3>4. V \subseteq U
      BY <1>4, <3>1
    <3>5. d \notin V
      BY <1>5
    <3> QED
      BY <3>3, <3>4, <3>5
  <2>4. <<V, U>> \in StrictSubsetOrdering(S)
    <3> HIDE DEF V
    <3> QED
      BY <2>1, <2>3 DEF StrictSubsetOrdering
  <2> HIDE DEF V
  <2> QED
    BY <2>1, <2>4, <1>3
<1> QED
  <2>1. \A e \in S : d <= e
    BY <1>5
  <2> QED
    BY <2>1

\* Where timers and the clock are; a timer in the set has been added.
TimerType ==
  /\ now \in Nat /\ cur \in Nat /\ nap \in Nat
  /\ m_timers \subseteq Timers /\ task \subseteq Timers
  /\ expire \in [Timers -> Nat]
  /\ \A t \in m_timers : user[t] \notin {"new", "made"}
  /\ user \in [Timers -> {"new", "made", "notify", "armed", "cancelled"}]

SleepInv == TimerType /\ NoOversleep /\ CancelFindsTimer

(* There are no timers at first.                                           *)
LEMMA SleepInit == TimerInit => SleepInv
BY DEF TimerInit, SleepInv, TimerType, NoOversleep, CancelFindsTimer

(* The sleep ends with the earliest timer at the latest.                   *)
LEMMA NextIntervalInv == ASSUME SleepInv, NextInterval PROVE SleepInv'
<1> USE TimerAssumption DEF SleepInv, TimerType
<1> DEFINE Due == {expire[t] - cur : t \in m_timers} \cup {MaxTimeOut}
           nearest == CHOOSE d \in Due : \A e \in Due : d <= e
<1>1. Due \subseteq Int /\ Due # {}
  OBVIOUS
<1>2. IsFiniteSet(Due)
  <2>1. IsFiniteSet(m_timers)
    BY FS_Subset
  <2>2. IsFiniteSet({expire[t] - cur : t \in m_timers})
    <3> DEFINE D == {expire[t] - cur : t \in m_timers}
               g == [t \in m_timers |-> expire[t] - cur]
    <3>1. g \in Surjection(m_timers, D)
      BY DEF Surjection
    <3> HIDE DEF D, g
    <3>2. IsFiniteSet(D)
      BY <2>1, <3>1, FS_Surjection
    <3> QED
      BY <3>2 DEF D
  <2> QED
    BY <2>2, FS_AddElement
<1>3. nearest \in Due /\ \A e \in Due : nearest <= e
  <2> HIDE DEF Due
  <2> QED
    BY <1>1, <1>2, LeastExists
<1>4. nap' = IF nearest >= 0 THEN nearest ELSE 0
  BY DEF NextInterval
<1>5. UNCHANGED <<now, cur, m_timers, task, cancelled, expire, user>>
  BY DEF NextInterval
<1>6. nearest \in Int /\ \A t \in m_timers : nearest <= expire[t] - cur
  <2> HIDE DEF nearest
  <2> QED
    BY <1>1, <1>3
<1>7. nap' \in Nat /\ (nap' > 0 => \A t \in m_timers : cur + nap' <= expire[t])
  <2> HIDE DEF nearest
  <2> QED
    BY <1>4, <1>6
<1> QED
  BY <1>5, <1>7 DEF NoOversleep, CancelFindsTimer

(* The timers of users: a timer that is not the first does not shorten the *)
(* sleep, and one that is has its notify on the way.                       *)
LEMMA UserStepInv == ASSUME SleepInv, NEW t \in Timers, UserStep(t) PROVE SleepInv'
<1> USE TimerAssumption DEF SleepInv, TimerType
<1>1. CASE NewTimer(t)
  <2>1. t \notin m_timers /\ user' \in [Timers -> {"new", "made", "notify", "armed", "cancelled"}]
    BY <1>1 DEF NewTimer
  <2>2. expire' \in [Timers -> Nat] /\ \A u \in m_timers : expire'[u] = expire[u]
    BY <1>1, <2>1 DEF NewTimer
  <2>3. \A u \in Timers : user'[u] = "notify" <=> user[u] = "notify"
    BY <1>1 DEF NewTimer
  <2>4. \A u \in m_timers : user'[u] = user[u]
    BY <1>1, <2>1 DEF NewTimer
  <2> QED
    BY <1>1, <2>1, <2>2, <2>3, <2>4 DEF NewTimer, NoOversleep, CancelFindsTimer
<1>2. CASE AddTimer(t)
  <2>1. /\ m_timers' = m_timers \cup {t} /\ task' = task \cup {t}
        /\ cancelled' = cancelled \ {t}
        /\ user' = [user EXCEPT ![t] = IF First(m_timers', t) THEN "notify" ELSE "armed"]
        /\ UNCHANGED <<now, expire, pipe, reactor, cur, nap>>
    BY <1>2 DEF AddTimer
  <2>2. TimerType'
    BY <2>1
  <2>3. NoOversleep'
    <3> SUFFICES ASSUME reactor = "wait", nap > 0, ~pipe,
                        \A u \in Timers : user'[u] # "notify"
                 PROVE  \A u \in m_timers' : cur + nap <= expire[u]
      BY <2>1 DEF NoOversleep
    <3>1. ~First(m_timers', t)
      BY <2>1
    <3>2. PICK u \in m_timers : ~Before(t, u)
      BY <3>1, <2>1 DEF First
    <3>3. \A v \in Timers : user[v] # "notify"
      BY <2>1, <1>2 DEF AddTimer
    <3>4. \A v \in m_timers : cur + nap <= expire[v]
      BY <3>3 DEF NoOversleep
    <3>5. expire[u] <= expire[t]
      BY <3>2 DEF Before
    <3> QED
      BY <2>1, <3>2, <3>4, <3>5
  <2> QED
    BY <2>1, <2>2, <2>3 DEF CancelFindsTimer
<1>3. CASE Notify(t)
  BY <1>3 DEF Notify, NoOversleep, CancelFindsTimer
<1>4. CASE Cancel(t)
  BY <1>4 DEF Cancel, NoOversleep, CancelFindsTimer
<1> QED
  BY <1>1, <1>2, <1>3, <1>4 DEF UserStep

(* Every step keeps the invariant.                                         *)
LEMMA SleepStep == SleepInv /\ [TimerNext]_timerVars => SleepInv'
<1> SUFFICES ASSUME SleepInv, [TimerNext]_timerVars PROVE SleepInv'
  OBVIOUS
<1> USE DEF SleepInv, TimerType
<1>1. CASE UNCHANGED timerVars
  BY <1>1 DEF timerVars, NoOversleep, CancelFindsTimer
<1>2. CASE Tick
  BY <1>2 DEF Tick, NoOversleep, CancelFindsTimer
<1>3. CASE ReadClock
  BY <1>3 DEF ReadClock, At, NoOversleep, CancelFindsTimer
<1>4. CASE EpollReturns \/ EpollEvent
  BY <1>4 DEF EpollReturns, EpollEvent, At, NoOversleep, CancelFindsTimer
<1>5. CASE GetExpiredTasks
  BY <1>5 DEF GetExpiredTasks, At, NoOversleep, CancelFindsTimer
<1>6. CASE HandOver
  BY <1>6 DEF HandOver, NoOversleep, CancelFindsTimer
<1>7. CASE Drain
  BY <1>7 DEF Drain, At, NoOversleep, CancelFindsTimer
<1> QED
  BY <1>1, <1>2, <1>3, <1>4, <1>5, <1>6, <1>7, NextIntervalInv, UserStepInv
  DEF TimerNext, ReactorStep

(* TimerManager.cpp 50-61: a timer that is neither cancelled nor expired   *)
(* is in the set when cancel erases what find returns.                     *)
THEOREM CancelFindsTimerHolds == TimerSpec => []CancelFindsTimer
<1>1. TimerSpec => []SleepInv
  BY SleepInit, SleepStep, PTL DEF TimerSpec
<1> QED
  BY <1>1, PTL DEF SleepInv

(* TimerManager.cpp 140-170 and Reactor.cpp 290-300: no sleep lasts past a *)
(* timer unless the notify that ends it is on its way.                     *)
THEOREM NoOversleepHolds == TimerSpec => []NoOversleep
<1>1. TimerSpec => []SleepInv
  BY SleepInit, SleepStep, PTL DEF TimerSpec
<1> QED
  BY <1>1, PTL DEF SleepInv

-----------------------------------------------------------------------------
\* A SINGLE timer is handed over once, after it has left the set for good; one
\* that is on its way has lost its fiber, so cancel() comes too late for it.
FireInv ==
  /\ res \in Seq(Timers) /\ fired \in [Timers -> Nat]
  /\ \A i, j \in 1..Len(res) : i < j => res[i] # res[j]
  /\ \A i \in 1..Len(res) : res[i] \notin Loops =>
       /\ fired[res[i]] = 0 /\ res[i] \notin task /\ res[i] \notin m_timers
       /\ user[res[i]] \in {"notify", "armed"}
  /\ \A t \in m_timers : user[t] # "cancelled"
  /\ \A t \in Timers \ Loops : t \in m_timers \/ user[t] \in {"new", "made"} => fired[t] = 0

(* What getExpiredTasks returns: timers of the set, each of them once.     *)
LEMMA InOrderOnce ==
  ASSUME SleepInv, NEW S \in SUBSET m_timers, NEW s \in InOrder(S)
  PROVE  /\ s \in Seq(Timers) /\ \A i \in 1..Len(s) : s[i] \in S
         /\ \A i, j \in 1..Len(s) : i < j => s[i] # s[j]
<1>0. m_timers \subseteq Timers /\ expire \in [Timers -> Nat]
  BY DEF SleepInv, TimerType
<1>1. Cardinality(S) \in Nat
  BY <1>0, TimerAssumption, FS_Subset, FS_CardinalityType
<1>2. s \in [1..Cardinality(S) -> S] /\ S \subseteq Timers
  BY <1>0 DEF InOrder
<1>3. s \in Seq(Timers) /\ Len(s) = Cardinality(S)
  BY <1>1, <1>2
<1>4. \A i, j \in 1..Len(s) : i < j => Before(s[i], s[j])
  BY <1>2, <1>3 DEF InOrder
<1>5. \A t \in Timers : ~Before(t, t)
  BY <1>0, TimerAssumption DEF Before
<1> QED
  BY <1>2, <1>3, <1>4, <1>5

(* The calls of the timers' owners.                                        *)
LEMMA UserFire == ASSUME SleepInv, FireInv, NEW t \in Timers, UserStep(t) PROVE FireInv'
<1>0. user \in [Timers -> {"new", "made", "notify", "armed", "cancelled"}]
  BY DEF SleepInv, TimerType
<1>1. UNCHANGED <<res, fired>>
  BY DEF UserStep, NewTimer, AddTimer, Notify, Cancel
<1>2. \A i \in 1..Len(res) : res[i] \in Timers
  BY DEF FireInv
<1>3. CASE NewTimer(t)
  BY <1>0, <1>1, <1>2, <1>3, TimerAssumption DEF NewTimer, FireInv, SleepInv, TimerType
<1>4. CASE AddTimer(t)
  BY <1>0, <1>1, <1>2, <1>4, TimerAssumption DEF AddTimer, FireInv, SleepInv, TimerType
<1>5. CASE Notify(t)
  BY <1>0, <1>1, <1>2, <1>5, TimerAssumption DEF Notify, FireInv, SleepInv, TimerType
<1>6. CASE Cancel(t)
  BY <1>0, <1>1, <1>2, <1>6, TimerAssumption DEF Cancel, FireInv, SleepInv, TimerType
<1> QED
  BY <1>3, <1>4, <1>5, <1>6 DEF UserStep

(* The first of the list is handed over; it comes only once in it.         *)
LEMMA HandOverFire == ASSUME SleepInv, FireInv, HandOver PROVE FireInv'
<1>0. UNCHANGED <<m_timers, task, user>>
  BY DEF HandOver
<1>1. CASE res # <<>> /\ res' = Tail(res) /\ fired' = [fired EXCEPT ![Head(res)] = fired[Head(res)] + 1]
  <2>1. /\ res \in Seq(Timers) /\ fired \in [Timers -> Nat] /\ Len(res) > 0
        /\ Head(res) = res[1] /\ res[1] \in Timers
    BY <1>1 DEF FireInv
  <2>2. /\ res' \in Seq(Timers) /\ Len(res') = Len(res) - 1
        /\ \A i \in 1..Len(res') : i + 1 \in 1..Len(res) /\ res'[i] = res[i + 1]
    BY <1>1, <2>1
  <2>3. \A i, j \in 1..Len(res') : i < j => res'[i] # res'[j]
    <3>1. \A i, j \in 1..Len(res') : i < j => i + 1 < j + 1
      BY <2>1, <2>2
    <3>2. \A i, j \in 1..Len(res) : i < j => res[i] # res[j]
      BY DEF FireInv
    <3> QED
      BY <2>2, <3>1, <3>2
  <2>4. \A i \in 1..Len(res') : res'[i] # Head(res) /\ res'[i] \in Timers
    <3>1. 1 \in 1..Len(res) /\ \A i \in 1..Len(res') : 1 < i + 1
      BY <2>1, <2>2
    <3>2. \A i, j \in 1..Len(res) : i < j => res[i] # res[j]
      BY DEF FireInv
    <3>3. \A i \in 1..Len(res) : res[i] \in Timers
      BY <2>1
    <3> QED
      BY <2>1, <2>2, <3>1, <3>2, <3>3
  <2>5. fired' \in [Timers -> Nat] /\ \A t \in Timers : t # Head(res) => fired'[t] = fired[t]
    BY <1>1, <2>1
  <2>6. \A i \in 1..Len(res') : res'[i] \notin Loops =>
          /\ fired'[res'[i]] = 0 /\ res'[i] \notin task /\ res'[i] \notin m_timers
          /\ user[res'[i]] \in {"notify", "armed"}
    <3> SUFFICES ASSUME NEW i \in 1..Len(res'), res'[i] \notin Loops
                 PROVE  /\ fired'[res'[i]] = 0 /\ res'[i] \notin task
                        /\ res'[i] \notin m_timers
                        /\ user[res'[i]] \in {"notify", "armed"}
      OBVIOUS
    <3>1. i + 1 \in 1..Len(res) /\ res'[i] = res[i + 1]
      BY <2>2
    <3>2. fired'[res'[i]] = fired[res'[i]]
      BY <2>4, <2>5
    <3> QED
      BY <3>1, <3>2 DEF FireInv
  <2>7. 1 \in 1..Len(res)
    BY <2>1
  <2>8. \A t \in Timers \ Loops : t \in m_timers \/ user[t] \in {"new", "made"} => fired'[t] = 0
    <3>1. Head(res) \notin Loops => /\ Head(res) \notin m_timers
                                   /\ user[Head(res)] \notin {"new", "made"}
      BY <2>1, <2>7 DEF FireInv
    <3> QED
      BY <2>5, <3>1 DEF FireInv
  <2> QED
    BY <1>0, <2>2, <2>3, <2>5, <2>6, <2>8 DEF FireInv
<1>2. CASE UNCHANGED <<res, fired>>
  BY <1>0, <1>2 DEF FireInv
<1> QED
  BY <1>1, <1>2 DEF HandOver

(* Every step keeps the invariant.                                         *)
LEMMA FireStep == SleepInv /\ FireInv /\ [TimerNext]_timerVars => FireInv'
<1> SUFFICES ASSUME SleepInv, FireInv, [TimerNext]_timerVars PROVE FireInv'
  OBVIOUS
<1>1. CASE UNCHANGED <<res, fired, m_timers, task, user>>
  BY <1>1 DEF FireInv
<1>2. CASE GetExpiredTasks
  <2> DEFINE due == {t \in m_timers : expire[t] <= now}
  <2>1. /\ res' \in InOrder(due) /\ m_timers' = m_timers \ (due \ Loops)
        /\ task' = task \ (due \ Loops) /\ UNCHANGED <<user, fired>>
    BY <1>2 DEF GetExpiredTasks
  <2>2. due \in SUBSET m_timers
    OBVIOUS
  <2>3. /\ res' \in Seq(Timers) /\ \A i \in 1..Len(res') : res'[i] \in due
        /\ \A i, j \in 1..Len(res') : i < j => res'[i] # res'[j]
    <3> HIDE DEF due
    <3> QED
      BY <2>1, <2>2, InOrderOnce
  <2>4. \A t \in m_timers : t \in Timers /\ user[t] \in {"notify", "armed"}
    BY DEF FireInv, SleepInv, TimerType
  <2> QED
    BY <2>1, <2>3, <2>4 DEF FireInv
<1>3. CASE Tick \/ ReadClock \/ NextInterval \/ EpollReturns \/ EpollEvent \/ Drain
           \/ UNCHANGED timerVars
  BY <1>1, <1>3 DEF Tick, ReadClock, NextInterval, EpollReturns, EpollEvent, Drain, timerVars
<1> QED
  BY <1>2, <1>3, HandOverFire, UserFire DEF TimerNext, ReactorStep

(* TimerManager.cpp 42-62 and 90-114: cancel() that returns true and       *)
(* expiry exclude each other, and a SINGLE timer fires once.               *)
THEOREM CancelPreventsFiringHolds == TimerSpec => CancelPreventsFiring
<1>1. TimerInit => FireInv
  BY DEF TimerInit, FireInv
<1>2. TimerSpec => [](SleepInv /\ FireInv)
  BY <1>1, SleepInit, SleepStep, FireStep, PTL DEF TimerSpec
<1>3. SleepInv /\ FireInv /\ [TimerNext]_timerVars =>
        [\A t \in Timers \ Loops :
           fired'[t] # fired[t] => fired[t] = 0 /\ user[t] # "cancelled"]_timerVars
  <2> SUFFICES ASSUME SleepInv, FireInv, TimerNext, NEW t \in Timers \ Loops, fired'[t] # fired[t]
               PROVE  fired[t] = 0 /\ user[t] # "cancelled"
    BY DEF timerVars
  <2>1. HandOver
    <3>1. ASSUME NEW u \in Timers, UserStep(u) PROVE fired' = fired
      BY <3>1 DEF UserStep, NewTimer, AddTimer, Notify, Cancel
    <3> QED
      BY <3>1 DEF TimerNext, ReactorStep, Tick, ReadClock, NextInterval, EpollReturns,
                  EpollEvent, GetExpiredTasks, Drain
  <2>2. res # <<>> /\ fired' = [fired EXCEPT ![Head(res)] = fired[Head(res)] + 1]
    BY <2>1 DEF HandOver
  <2>3. t = Head(res)
    BY <2>2 DEF FireInv
  <2>4. 1 \in 1..Len(res) /\ res[1] = t
    BY <2>2, <2>3 DEF FireInv
  <2> QED
    BY <2>4 DEF FireInv
<1> QED
  BY <1>2, <1>3, PTL DEF TimerSpec, CancelPreventsFiring
-----------------------------------------------------------------------------
Places == {"idle", "want", "connect", "ping", "use", "borrow"}
Having == {"connect", "ping", "use", "borrow"}

\* What the pool and its users are made of.
PoolType ==
    /\ deq \in [Names -> Seq(Conns)]
    /\ m_name \in [Conns -> Names]
    /\ at \in [Users -> Places]
    /\ conn \in [Users -> Conns \cup {NoConn}]

\* A user on the way to a statement, or in one, has a connection.
HasConn == \A u \in Users : at[u] \in Having => conn[u] \in Conns

\* ExclusiveUse in terms of positions.
OneUser == \A u, v \in Users : conn[u] = conn[v] /\ conn[u] # NoConn => u = v
UsedOrPooled ==
    \A u \in Users, n \in Names : \A i \in DOMAIN deq[n] : deq[n][i] # conn[u]
OnePosition ==
    \A m, n \in Names : \A i \in DOMAIN deq[m], j \in DOMAIN deq[n] :
        deq[m][i] = deq[n][j] => m = n /\ i = j

PoolInv == PoolType /\ HasConn /\ OneUser /\ UsedOrPooled /\ OnePosition

(* The invariant implies the property.                                     *)
LEMMA PoolInvExclusive == PoolInv => ExclusiveUse
BY DEF PoolInv, OneUser, UsedOrPooled, OnePosition, ExclusiveUse, Elems

(* No connection is in use or in the pool at first.                        *)
LEMMA PoolInvInit == Init => PoolInv
<1> SUFFICES ASSUME Init PROVE PoolInv
  OBVIOUS
<1> USE PoolAssumption DEF Init
<1>1. PoolType
  BY DEF PoolType, Places
<1>2. HasConn
  BY DEF HasConn, Having
<1>3. OneUser
  BY DEF OneUser
<1>4. UsedOrPooled /\ OnePosition
  BY DEF UsedOrPooled, OnePosition
<1> QED
  BY <1>1, <1>2, <1>3, <1>4 DEF PoolInv

(* getConn gives out a connection that is neither used nor pooled.         *)
LEMMA NewConnInv ==
    ASSUME PoolInv, NEW u \in Users, NEW n \in Names, NewConn(u, n),
           at' = [at EXCEPT ![u] = "connect"]
    PROVE  PoolInv'
<1> USE PoolAssumption DEF PoolInv
<1>1. PICK c \in Unused :
         /\ m_name' = [m_name EXCEPT ![c] = IF n \in known THEN n ELSE Root]
         /\ conn' = [conn EXCEPT ![u] = c]
         /\ deq' = deq
  BY DEF NewConn
<1>2. /\ c \in Conns
      /\ \A v \in Users : conn[v] # c
      /\ \A m \in Names : \A i \in DOMAIN deq[m] : deq[m][i] # c
  BY <1>1 DEF Unused, InPool, InUse, Elems
<1>3. PoolType'
  BY <1>1, <1>2 DEF PoolType, Places
<1>4. HasConn'
  BY <1>1, <1>2 DEF HasConn, PoolType, Having
<1>5. OneUser'
  BY <1>1, <1>2 DEF OneUser, PoolType
<1>6. UsedOrPooled' /\ OnePosition'
  BY <1>1, <1>2 DEF UsedOrPooled, OnePosition, PoolType
<1> QED
  BY <1>3, <1>4, <1>5, <1>6

(* The front of the pool changes from the pool to its user.                *)
LEMMA PooledConnInv ==
    ASSUME PoolInv, NEW u \in Users, NEW n \in Names, PooledConn(u, n),
           at' = [at EXCEPT ![u] = "connect"]
    PROVE  PoolInv'
<1> USE DEF PoolInv
<1> DEFINE c == deq[n][1]
<1>1. /\ deq[n] \in Seq(Conns) /\ deq[n] # <<>> /\ 1 \in DOMAIN deq[n]
      /\ c \in Conns
  BY DEF PoolType, PooledConn
<1>2. /\ conn' = [conn EXCEPT ![u] = c]
      /\ deq' = [deq EXCEPT ![n] = Tail(@)]
      /\ m_name' = m_name
  BY <1>1 DEF PooledConn
<1>3. /\ \A v \in Users : conn[v] # c
      /\ \A m \in Names : \A i \in DOMAIN deq[m] : deq[m][i] = c => m = n /\ i = 1
  BY <1>1 DEF UsedOrPooled, OnePosition
<1>4. /\ deq' \in [Names -> Seq(Conns)]
      /\ \A m \in Names \ {n} : deq'[m] = deq[m]
      /\ \A i \in DOMAIN deq'[n] :
            /\ i \in Nat \ {0}
            /\ i + 1 \in DOMAIN deq[n] /\ deq'[n][i] = deq[n][i + 1]
  BY <1>1, <1>2 DEF PoolType
<1>5. PoolType'
  BY <1>1, <1>2, <1>4 DEF PoolType, Places
<1>6. HasConn'
  BY <1>1, <1>2 DEF HasConn, PoolType, Having
<1>7. OneUser'
  BY <1>1, <1>2, <1>3 DEF OneUser, PoolType
<1>8. UsedOrPooled'
  <2> SUFFICES ASSUME NEW v \in Users, NEW m \in Names, NEW i \in DOMAIN deq'[m]
               PROVE  deq'[m][i] # conn'[v]
    BY DEF UsedOrPooled
  <2>1. PICK j \in DOMAIN deq[m] : deq'[m][i] = deq[m][j] /\ (m = n => j # 1)
    BY <1>4
  <2> QED
    BY <2>1, <1>2, <1>3 DEF UsedOrPooled, PoolType
<1>9. OnePosition'
  <2> SUFFICES ASSUME NEW m \in Names, NEW k \in Names, NEW i \in DOMAIN deq'[m],
                      NEW j \in DOMAIN deq'[k], deq'[m][i] = deq'[k][j]
               PROVE  m = k /\ i = j
    BY DEF OnePosition
  <2>1. /\ m = n => i + 1 \in DOMAIN deq[m] /\ deq'[m][i] = deq[m][i + 1]
        /\ m # n => i \in DOMAIN deq[m] /\ deq'[m][i] = deq[m][i]
        /\ k = n => j + 1 \in DOMAIN deq[k] /\ deq'[k][j] = deq[k][j + 1]
        /\ k # n => j \in DOMAIN deq[k] /\ deq'[k][j] = deq[k][j]
    BY <1>4
  <2>2. m = k
    BY <2>1 DEF OnePosition
  <2>3. CASE m = n
    <3>1. i \in Nat /\ j \in Nat /\ i + 1 = j + 1
      BY <2>1, <2>2, <2>3, <1>4 DEF OnePosition
    <3> QED
      BY <3>1, <2>2
  <2>4. CASE m # n
    BY <2>1, <2>2, <2>4 DEF OnePosition
  <2> QED
    BY <2>3, <2>4
<1> QED
  BY <1>5, <1>6, <1>7, <1>8, <1>9

(* A user lets go of its connection, which goes nowhere: Drop, in connect, *)
(* ping, addConn without room and the destructor of a command.             *)
LEMMA DropInv ==
    ASSUME PoolInv, NEW u \in Users, conn[u] \in Conns, NEW next \in {"idle", "want"},
           Drop(u, next), UNCHANGED deq
    PROVE  PoolInv'
<1> USE PoolAssumption DEF PoolInv, Drop
<1>1. PoolType'
  BY DEF PoolType, Places
<1>2. HasConn'
  BY DEF HasConn, PoolType, Having
<1>3. OneUser'
  BY DEF OneUser, PoolType
<1>4. UsedOrPooled' /\ OnePosition'
  BY DEF UsedOrPooled, OnePosition, PoolType
<1> QED
  BY <1>1, <1>2, <1>3, <1>4

(* A connection that goes back leaves its user in the same step.           *)
LEMMA AddConnInv ==
    ASSUME PoolInv, NEW u \in Users, AddConn(u)
    PROVE  PoolInv'
<1> USE PoolAssumption DEF PoolInv
<1> DEFINE c == conn[u]
           n == m_name[c]
<1>1. c \in Conns /\ n \in Names /\ deq[n] \in Seq(Conns) /\ at[u] = "use"
  BY DEF AddConn, HasConn, PoolType, Having
<1>2. CASE Drop(u, "idle") /\ UNCHANGED deq
  BY <1>1, <1>2, DropInv
<1>3. CASE /\ deq' = [deq EXCEPT ![n] = Append(@, c)]
           /\ at' = [at EXCEPT ![u] = "idle"]
           /\ conn' = [conn EXCEPT ![u] = NoConn]
           /\ UNCHANGED m_name
  <2>1. /\ deq' \in [Names -> Seq(Conns)]
        /\ \A m \in Names \ {n} : deq'[m] = deq[m]
        /\ \A i \in DOMAIN deq'[n] :
              \/ i \in DOMAIN deq[n] /\ deq'[n][i] = deq[n][i]
              \/ i = Len(deq[n]) + 1 /\ deq'[n][i] = c
    BY <1>1, <1>3 DEF PoolType
  <2>2. \A m \in Names : \A i \in DOMAIN deq[m] : deq[m][i] # c
    BY DEF UsedOrPooled
  <2>3. PoolType'
    BY <1>3, <2>1 DEF PoolType, Places
  <2>4. HasConn'
    BY <1>3 DEF HasConn, PoolType, Having
  <2>5. OneUser'
    BY <1>3 DEF OneUser, PoolType
  <2>6. UsedOrPooled'
    <3> SUFFICES ASSUME NEW v \in Users, NEW m \in Names, NEW i \in DOMAIN deq'[m]
                 PROVE  deq'[m][i] # conn'[v]
      BY DEF UsedOrPooled
    <3>1. /\ deq'[m][i] \in Conns
          /\ deq'[m][i] = c \/ (i \in DOMAIN deq[m] /\ deq'[m][i] = deq[m][i])
      <4>1. deq'[m] \in Seq(Conns)
        BY <2>1
      <4>2. CASE m = n
        BY <2>1, <4>1, <4>2
      <4>3. CASE m # n
        BY <2>1, <4>1, <4>3
      <4> QED
        BY <4>2, <4>3
    <3>2. CASE v = u
      BY <3>1, <3>2, <1>3 DEF PoolType
    <3>3. CASE v # u
      BY <3>1, <3>3, <1>1, <1>3 DEF PoolType, OneUser, UsedOrPooled
    <3> QED
      BY <3>2, <3>3
  <2>7. OnePosition'
    <3> SUFFICES ASSUME NEW m \in Names, NEW k \in Names, NEW i \in DOMAIN deq'[m],
                        NEW j \in DOMAIN deq'[k], deq'[m][i] = deq'[k][j]
                 PROVE  m = k /\ i = j
      BY DEF OnePosition
    <3>1. \/ i \in DOMAIN deq[m] /\ deq'[m][i] = deq[m][i]
          \/ m = n /\ i = Len(deq[n]) + 1 /\ deq'[m][i] = c
      BY <2>1
    <3>2. \/ j \in DOMAIN deq[k] /\ deq'[k][j] = deq[k][j]
          \/ k = n /\ j = Len(deq[n]) + 1 /\ deq'[k][j] = c
      BY <2>1
    <3> QED
      BY <3>1, <3>2, <2>2 DEF OnePosition
  <2> QED
    BY <2>3, <2>4, <2>5, <2>6, <2>7
<1> QED
  BY <1>2, <1>3 DEF AddConn

(* Steps that move no connection.                                          *)
LEMMA StillInv ==
    ASSUME PoolInv, NEW u \in Users, NEW kind \in Places,
           kind \in Having => at[u] \in Having,
           at' = [at EXCEPT ![u] = kind], UNCHANGED <<deq, m_name, conn>>
    PROVE  PoolInv'
BY DEF PoolInv, PoolType, HasConn, OneUser, UsedOrPooled, OnePosition, Places, Having

(* Every step keeps the invariant.                                         *)
LEMMA PoolInvStep == PoolInv /\ [Next]_vars => PoolInv'
<1> SUFFICES ASSUME PoolInv, [Next]_vars PROVE PoolInv'
  OBVIOUS
<1>1. CASE Down \/ Up \/ UNCHANGED vars
  BY <1>1 DEF Down, Up, vars, poolVars, userVars, dbVars, PoolInv, PoolType,
              HasConn, OneUser, UsedOrPooled, OnePosition
<1>2. ASSUME NEW u \in Users, NEW n \in Names, GetConn(u, n) PROVE PoolInv'
  BY <1>2, NewConnInv, PooledConnInv DEF GetConn
<1>3. ASSUME NEW u \in Users, at[u] \in Having PROVE conn[u] \in Conns
  BY <1>3 DEF PoolInv, HasConn
<1>4. ASSUME NEW u \in Users, Connect(u) PROVE PoolInv'
  <2>1. at[u] \in Having /\ conn[u] \in Conns /\ "ping" \in Places /\ UNCHANGED deq
    BY <1>3, <1>4 DEF Connect, Having, Places
  <2>2. CASE at' = [at EXCEPT ![u] = "ping"] /\ UNCHANGED <<conn, m_name>>
    BY <2>1, <2>2, StillInv
  <2>3. CASE Drop(u, "want")
    BY <2>1, <2>3, DropInv
  <2> QED
    BY <1>4, <2>2, <2>3 DEF Connect
<1>5. ASSUME NEW u \in Users, Ping(u) PROVE PoolInv'
  <2>1. at[u] \in Having /\ conn[u] \in Conns /\ UNCHANGED deq
    BY <1>3, <1>5 DEF Ping, Having
  <2>2. ASSUME NEW kind \in {"use", "borrow"}, at' = [at EXCEPT ![u] = kind],
               UNCHANGED <<conn, m_name>>
        PROVE  PoolInv'
    <3>1. kind \in Places
      BY DEF Places
    <3> QED
      BY <2>1, <2>2, <3>1, StillInv
  <2>3. CASE Drop(u, "want")
    BY <2>1, <2>3, DropInv
  <2> QED
    BY <1>5, <2>2, <2>3 DEF Ping
<1>6. ASSUME NEW u \in Users, Forget(u) PROVE PoolInv'
  <2>1. at[u] \in Having /\ conn[u] \in Conns
    BY <1>3, <1>6 DEF Forget, Having
  <2> QED
    BY <1>6, <2>1, DropInv DEF Forget
<1>7. ASSUME NEW u \in Users, Ask(u) PROVE PoolInv'
  <2>1. "want" \in Places /\ "want" \notin Having
    BY DEF Places, Having
  <2> QED
    BY <1>7, <2>1, StillInv DEF Ask, poolVars
<1> QED
  BY <1>1, <1>2, <1>4, <1>5, <1>6, <1>7, AddConnInv DEF Next, Try

(* mysql.cpp 843-908: a connection has one user, or one place in the pool, *)
(* never both.                                                             *)
THEOREM ExclusiveUseHolds == Spec => []ExclusiveUse
<1>1. Spec => []PoolInv
  BY PoolInvInit, PoolInvStep, PTL DEF Spec
<1> QED
  BY <1>1, PoolInvExclusive, PTL
=============================================================================
