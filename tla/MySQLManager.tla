---------------------------- MODULE MySQLManager ----------------------------
(***************************************************************************)
(* MySQLManager's pool of connections and those who use it: a guard or a   *)
(* command that gives its connection back, and a command or a transaction  *)
(* that does not.  The database may go down, which ends every session, and *)
(* come up again; users whose getConn returned nullptr try again.          *)
(***************************************************************************)
EXTENDS Integers, Sequences

CONSTANTS Users,        \* threads or fibers
          Conns,        \* MySQLConn objects, a set of numbers
          Names, Root,  \* names of connections, and "root"
          NoConn,       \* nullptr
          MaxConns,     \* m_maxConns
          MaxDowns      \* times the database goes down

ASSUME PoolAssumption == MaxConns \in Nat /\ Root \in Names /\ NoConn \notin Conns

VARIABLES
    known,      \* the keys of m_conns
    deq,        \* name -> m_conns[name]
    m_name,     \* connection -> its name
    m_mysql,    \* connection -> "null", or the session of it: "live" or "dead"
    at,         \* user -> "idle", "want", "connect", "ping", "use" or "borrow"
    conn,       \* user -> the connection it has
    up, downs   \* the database

poolVars == <<known, deq, m_name>>
userVars == <<at, conn>>
dbVars == <<up, downs>>
vars == <<poolVars, m_mysql, userVars, dbVars>>

Elems(s) == {s[i] : i \in DOMAIN s}
InPool(c) == \E n \in Names : c \in Elems(deq[n])
InUse(c) == \E u \in Users : conn[u] = c
Unused == {c \in Conns : ~InPool(c) /\ ~InUse(c)}
-----------------------------------------------------------------------------
(* getConn under the lock.  The first connection of a name keeps the name  *)
(* that the constructor gives it, "root".                                  *)
NewConn(u, n) ==
    /\ n \notin known \/ deq[n] = <<>>
    /\ \E c \in Unused :
          /\ \A d \in Unused : c <= d
          /\ m_name' = [m_name EXCEPT ![c] = IF n \in known THEN n ELSE Root]
          /\ m_mysql' = [m_mysql EXCEPT ![c] = "null"]
          /\ conn' = [conn EXCEPT ![u] = c]
    /\ known' = known \cup {n}
    /\ UNCHANGED deq

(* Mutant: the connection is read and not taken out.                       *)
PooledConnStays(u, n) ==
    /\ n \in known /\ deq[n] # <<>>
    /\ conn' = [conn EXCEPT ![u] = Head(deq[n])]
    /\ UNCHANGED <<poolVars, m_mysql>>

PooledConn(u, n) ==
    /\ n \in known /\ deq[n] # <<>>
    /\ conn' = [conn EXCEPT ![u] = Head(deq[n])]
    /\ deq' = [deq EXCEPT ![n] = Tail(@)]
    /\ UNCHANGED <<known, m_name, m_mysql>>

GetConn(u, n) ==
    /\ at[u] = "want"
    /\ NewConn(u, n) \/ PooledConn(u, n)
    /\ at' = [at EXCEPT ![u] = "connect"]
    /\ UNCHANGED dbVars

(* u is done with its connection and nobody else has it: it is deleted,    *)
(* its session left as it is.                                              *)
Drop(u, next) ==
    /\ at' = [at EXCEPT ![u] = next]
    /\ conn' = [conn EXCEPT ![u] = NoConn]
    /\ m_mysql' = [m_mysql EXCEPT ![conn[u]] = "null"]
    /\ m_name' = [m_name EXCEPT ![conn[u]] = Root]

(* MySQLConn::connect: a session that is there is taken to be good, since  *)
(* m_hasError is set only on the way to the deletion.                      *)
Connect(u) ==
    LET c == conn[u]
    IN  /\ at[u] = "connect"
        /\ \/ /\ m_mysql[c] # "null" \/ up
              /\ at' = [at EXCEPT ![u] = "ping"]
              /\ m_mysql' = [m_mysql EXCEPT ![c] = IF @ = "null" THEN "live" ELSE @]
              /\ UNCHANGED <<conn, m_name>>
           \/ /\ m_mysql[c] = "null" /\ ~up
              /\ Drop(u, "want")
        /\ UNCHANGED <<known, deq, dbVars>>

(* Mutant: a connection that does not answer goes back to the pool.        *)
PingKeeps(u) ==
    LET c == conn[u]
        n == m_name[c]
    IN  /\ at[u] = "ping"
        /\ \/ /\ m_mysql[c] = "live"
              /\ \E kind \in {"use", "borrow"} : at' = [at EXCEPT ![u] = kind]
              /\ UNCHANGED <<conn, deq>>
           \/ /\ m_mysql[c] = "dead"
              /\ deq' = [deq EXCEPT ![n] = Append(@, c)]
              /\ at' = [at EXCEPT ![u] = "want"]
              /\ conn' = [conn EXCEPT ![u] = NoConn]
        /\ UNCHANGED <<known, m_name, m_mysql, dbVars>>

(* MySQLConn::ping.  The connection goes to a guard or a command that will *)
(* return it, or to one that will not.                                     *)
Ping(u) ==
    LET c == conn[u]
    IN  /\ at[u] = "ping"
        /\ \/ /\ m_mysql[c] = "live"
              /\ \E kind \in {"use", "borrow"} : at' = [at EXCEPT ![u] = kind]
              /\ UNCHANGED <<conn, m_mysql, m_name>>
           \/ /\ m_mysql[c] = "dead"
              /\ Drop(u, "want")
        /\ UNCHANGED <<known, deq, dbVars>>

(* addConn's test: one connection over the limit is still taken.           *)
Room(n) == Len(deq[n]) <= MaxConns

(* addConn, by ~MySQLConnGuard or by ~MySQLCommand with m_close set.  The  *)
(* close of a connection that has no room does nothing, m_connect being    *)
(* set.                                                                    *)
AddConn(u) ==
    LET c == conn[u]
        n == m_name[c]
    IN  /\ at[u] = "use"
        /\ \/ /\ n \notin known \/ Room(n)
              /\ deq' = [deq EXCEPT ![n] = Append(@, c)]
              /\ at' = [at EXCEPT ![u] = "idle"]
              /\ conn' = [conn EXCEPT ![u] = NoConn]
              /\ UNCHANGED <<m_name, m_mysql>>
           \/ /\ n \in known /\ ~Room(n)
              /\ Drop(u, "idle")
              /\ UNCHANGED deq
        /\ known' = known \cup {n}
        /\ UNCHANGED dbVars

(* ~MySQLCommand without m_close, so also the end of a transaction.        *)
Forget(u) == at[u] = "borrow" /\ Drop(u, "idle") /\ UNCHANGED <<known, deq, dbVars>>
-----------------------------------------------------------------------------
Ask(u) ==
    /\ at[u] = "idle"
    /\ at' = [at EXCEPT ![u] = "want"]
    /\ UNCHANGED <<poolVars, m_mysql, conn, dbVars>>

Down ==
    /\ up /\ downs < MaxDowns
    /\ up' = FALSE /\ downs' = downs + 1
    /\ m_mysql' = [c \in Conns |-> IF m_mysql[c] = "live" THEN "dead" ELSE m_mysql[c]]
    /\ UNCHANGED <<poolVars, userVars>>

Up == ~up /\ up' = TRUE /\ UNCHANGED <<poolVars, m_mysql, userVars, downs>>

Init ==
    /\ known = {} /\ deq = [n \in Names |-> <<>>]
    /\ m_name = [c \in Conns |-> Root]
    /\ m_mysql = [c \in Conns |-> "null"]
    /\ at = [u \in Users |-> "idle"] /\ conn = [u \in Users |-> NoConn]
    /\ up = TRUE /\ downs = 0

Try(u) == (\E n \in Names : GetConn(u, n)) \/ Connect(u) \/ Ping(u)

Next == Down \/ Up \/ \E u \in Users : Ask(u) \/ Try(u) \/ AddConn(u) \/ Forget(u)

(* Users go on with what they have begun, and the database is repaired.    *)
Spec == Init /\ [][Next]_vars /\ WF_vars(Up) /\ \A u \in Users : WF_vars(Try(u))
-----------------------------------------------------------------------------
(* getConn and addConn: a connection has one user, or is in one place of   *)
(* the pool, never both: two statements never share a session.             *)
ExclusiveUse ==
    /\ \A u, v \in Users : conn[u] = conn[v] /\ conn[u] # NoConn => u = v
    /\ \A u \in Users, n \in Names : conn[u] \notin Elems(deq[n])
    /\ \A m, n \in Names : \A i \in DOMAIN deq[m], j \in DOMAIN deq[n] :
           deq[m][i] = deq[n][j] => m = n /\ i = j

(* addConn's comment: over the limit means over m_maxConns.                *)
PoolWithinLimit == \A n \in Names : Len(deq[n]) <= MaxConns

(* A connection is given back under the name that it was asked for.        *)
(* getConn keeps "root" for the first of each name.                        *)
ReturnsHome == \A n \in Names : \A c \in Elems(deq[n]) : m_name[c] = n

(* getConn: with the database up for good, whoever keeps asking is served: *)
(* every failure takes a dead connection out of the pool.                  *)
RetryServed == \A u \in Users : (at[u] = "want") ~> (at[u] \in {"use", "borrow"})
=============================================================================
