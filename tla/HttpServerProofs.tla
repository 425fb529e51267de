-------------------------- MODULE HttpServerProofs --------------------------
(***************************************************************************)
(* One connection of an HttpServer and the table of servlets, for every    *)
(* set of addresses, globs, servlets and requests: the servlet that        *)
(* answers is the one whose registration stands, and what it is given is   *)
(* what was sent, if the parser keeps what it owes recvRequest.            *)
(***************************************************************************)
EXTENDS HttpServer, SeqFacts, WellFoundedInduction

-----------------------------------------------------------------------------
(* The table of servlets                                                   *)

(* A set of naturals that is not empty has a least element.                *)
LEMMA LeastNat ==
    ASSUME NEW S \in SUBSET Nat, S # {} PROVE \E i \in S : \A j \in S : i <= j
<1>1. PICK i \in S : \A j \in S : <<j, i>> \notin OpToRel(<, Nat)
  BY NatLessThanWellFounded, WFMin
<1>2. \A j \in S : ~(j < i)
  BY <1>1 DEF OpToRel
<1> QED
  BY <1>2

Changes == [table : {"datas", "globs"}, key : Paths \cup Patterns,
            servlet : {{}} \cup {{s} : s \in Servlets}]

(* The tables and their history; an address or a glob has an entry exactly *)
(* while it stands, and the globs are in the order in which they came to.  *)
TableInv ==
    /\ ops \in Seq(Changes)
    /\ m_globs \in Seq(Patterns \X Servlets)
    /\ \A path \in Paths : path \in DOMAIN m_datas <=> Standing("datas", path) # {}
    /\ \A path \in DOMAIN m_datas : \A i \in Standing("datas", path) : ops[i].servlet = {m_datas[path]}
    /\ \A g \in Patterns : Standing("globs", g) # {} => \E i \in DOMAIN m_globs : m_globs[i][1] = g
    /\ \A i \in DOMAIN m_globs : \E h \in Standing("globs", m_globs[i][1]) :
          /\ ops[h].servlet = {m_globs[i][2]}
          /\ \A j \in DOMAIN m_globs : j < i =>
                \A k \in Standing("globs", m_globs[j][1]) : k < h

(* A change ends what stood for its key and leaves the other keys alone.   *)
LEMMA RecordStanding ==
    ASSUME ops \in Seq(Changes), NEW t, NEW k, NEW s, Record(t, k, s),
           NEW u, NEW key
    PROVE  Standing(u, key)' =
               IF u = t /\ key = k THEN (IF s = {} THEN {} ELSE {Len(ops) + 1})
               ELSE Standing(u, key)
<1> DEFINE c == [table |-> t, key |-> k, servlet |-> s]
<1>1. /\ Len(ops) \in Nat /\ DOMAIN ops = 1..Len(ops)
      /\ ops' = Append(ops, c)
  BY DEF Record
<1>2. /\ DOMAIN ops' = 1..(Len(ops) + 1) /\ ops'[Len(ops) + 1] = c
      /\ \A i \in 1..Len(ops) : ops'[i] = ops[i]
  <2> HIDE DEF c
  <2> QED
    BY <1>1
<1>3. c.table = t /\ c.key = k /\ c.servlet = s
  OBVIOUS
<1> HIDE DEF c
<1>4. CASE u = t /\ key = k
  BY <1>1, <1>2, <1>3, <1>4 DEF Standing
<1>5. CASE ~(u = t /\ key = k)
  BY <1>1, <1>2, <1>3, <1>5 DEF Standing
<1> QED
  BY <1>4, <1>5
(* A glob has one entry.                                                   *)
LEMMA GlobOnce ==
    ASSUME TableInv, NEW i \in DOMAIN m_globs, NEW j \in DOMAIN m_globs,
           m_globs[i][1] = m_globs[j][1]
    PROVE  i = j
<1>1. i \in Nat /\ j \in Nat /\ \A t, k : Standing(t, k) \subseteq Nat
  BY DEF TableInv, Standing
<1>2. ASSUME NEW a \in DOMAIN m_globs, NEW b \in DOMAIN m_globs, a < b,
             m_globs[a][1] = m_globs[b][1]
      PROVE  FALSE
  <2>1. PICK h \in Standing("globs", m_globs[b][1]) :
           \A c \in DOMAIN m_globs : c < b => \A k \in Standing("globs", m_globs[c][1]) : k < h
    BY DEF TableInv
  <2>2. h < h /\ h \in Nat
    BY <1>1, <1>2, <2>1
  <2> QED
    BY <2>2
<1> QED
  BY <1>1, <1>2

(* Erasing a glob keeps the others and their order: from says where they   *)
(* were.                                                                   *)
LEMMA WithoutKeeps ==
    ASSUME TableInv, NEW g
    PROVE  LET w == Without(m_globs, g)
           IN  /\ w \in Seq(Patterns \X Servlets)
               /\ \E from \in [DOMAIN w -> DOMAIN m_globs] :
                     /\ \A i \in DOMAIN w : w[i] = m_globs[from[i]] /\ w[i][1] # g
                     /\ \A i, j \in DOMAIN w : i < j => from[i] < from[j]
                     /\ \A n \in DOMAIN m_globs : m_globs[n][1] # g =>
                           \E i \in DOMAIN w : from[i] = n
<1> DEFINE w == Without(m_globs, g)
           E == Patterns \X Servlets
           at == {i \in DOMAIN m_globs : m_globs[i][1] = g}
<1>1. m_globs \in Seq(E) /\ Len(m_globs) \in Nat /\ DOMAIN m_globs = 1..Len(m_globs)
  BY DEF TableInv
<1>2. CASE at = {}
  <2>1. w = m_globs
    BY <1>2 DEF Without
  <2> DEFINE from == [i \in DOMAIN m_globs |-> i]
  <2>2. /\ from \in [DOMAIN w -> DOMAIN m_globs]
        /\ \A i \in DOMAIN w : w[i] = m_globs[from[i]] /\ w[i][1] # g
        /\ \A i, j \in DOMAIN w : i < j => from[i] < from[j]
        /\ \A n \in DOMAIN m_globs : m_globs[n][1] # g => \E i \in DOMAIN w : from[i] = n
    BY <1>2, <2>1
  <2> HIDE DEF from
  <2> QED
    BY <1>1, <2>1, <2>2
<1>3. CASE at # {}
  <2> DEFINE first == CHOOSE i \in at : \A j \in at : i <= j
  <2>1. first \in at
    <3>1. at \in SUBSET Nat
      BY <1>1
    <3>2. \E i \in at : \A j \in at : i <= j
      <4> HIDE DEF at
      <4> QED
        BY <1>3, <3>1, LeastNat
    <3> HIDE DEF at
    <3> QED
      BY <3>2
  <2>2. \A i \in DOMAIN m_globs : m_globs[i][1] = g => i = first
    BY <2>1, GlobOnce
  <2> DEFINE a == SubSeq(m_globs, 1, first - 1)
             b == SubSeq(m_globs, first + 1, Len(m_globs))
  <2>3. w = a \o b
    BY <1>3 DEF Without
  <2> HIDE DEF first, E
  <2>4. /\ first \in 1..Len(m_globs) /\ m_globs[first][1] = g
        /\ \A i \in 1..Len(m_globs) : m_globs[i] \in E
    BY <1>1, <2>1
  <2>5. /\ a \in Seq(E) /\ Len(a) = first - 1
        /\ \A i \in 1..(first - 1) : a[i] = m_globs[i]
    <3>1. 1 \in Int /\ first - 1 \in Int /\ \A i \in 1..(first - 1) : m_globs[i] \in E
      BY <1>1, <2>4
    <3> QED
      BY <1>1, <2>4, <3>1, SubSeqProperties
  <2>6. /\ b \in Seq(E) /\ Len(b) = Len(m_globs) - first
        /\ \A i \in 1..(Len(m_globs) - first) : b[i] = m_globs[first + i]
    <3>1. PICK d : d = Len(m_globs)
      OBVIOUS
    <3>2. first \in Nat /\ d \in first..Len(m_globs)
      BY <1>1, <2>4, <3>1
    <3>3. /\ SubSeq(m_globs, first + 1, d) \in Seq(E) /\ Len(SubSeq(m_globs, first + 1, d)) = d - first
          /\ \A i \in 1..(d - first) : SubSeq(m_globs, first + 1, d)[i] = m_globs[first + i]
      BY <1>1, <3>2, PartFacts
    <3>4. b = SubSeq(m_globs, first + 1, d)
      BY <3>1
    <3> HIDE DEF b
    <3> QED
      BY <3>1, <3>3, <3>4
  <2> HIDE DEF a, b
  <2>7. /\ w \in Seq(E) /\ DOMAIN w = 1..(Len(m_globs) - 1)
        /\ \A i \in 1..(Len(m_globs) - 1) :
              w[i] = IF i < first THEN m_globs[i] ELSE m_globs[i + 1]
    <3>1. w \in Seq(E) /\ Len(w) = Len(a) + Len(b)
      BY <2>3, <2>5, <2>6, ConcatProperties
    <3>2. \A i \in 1..Len(w) : w[i] = IF i <= Len(a) THEN a[i] ELSE b[i - Len(a)]
      BY <2>3, <2>5, <2>6, ConcatProperties
    <3> HIDE DEF w
    <3>3. Len(w) = Len(m_globs) - 1 /\ DOMAIN w = 1..Len(w)
      BY <1>1, <2>4, <2>5, <2>6, <3>1
    <3>4. ASSUME NEW i \in 1..Len(w)
          PROVE  w[i] = IF i < first THEN m_globs[i] ELSE m_globs[i + 1]
      <4>1. CASE i < first
        BY <1>1, <2>4, <2>5, <3>2, <3>3, <4>1
      <4>2. CASE ~(i < first)
        <5>1. i - (first - 1) \in 1..(Len(m_globs) - first) /\ first + (i - (first - 1)) = i + 1
          BY <1>1, <2>4, <3>3, <4>2
        <5> QED
          BY <1>1, <2>4, <2>5, <2>6, <3>2, <3>3, <4>2, <5>1
      <4> QED
        BY <4>1, <4>2
    <3> QED
      BY <3>1, <3>3, <3>4
  <2> DEFINE from == [i \in DOMAIN w |-> IF i < first THEN i ELSE i + 1]
  <2> HIDE DEF w, at
  <2>8. /\ from \in [DOMAIN w -> DOMAIN m_globs]
        /\ \A i \in DOMAIN w : w[i] = m_globs[from[i]] /\ from[i] # first
        /\ \A i, j \in DOMAIN w : i < j => from[i] < from[j]
    BY <1>1, <2>4, <2>7
  <2>9. ASSUME NEW n \in DOMAIN m_globs, m_globs[n][1] # g
        PROVE  \E i \in DOMAIN w : from[i] = n
    <3> DEFINE i == IF n < first THEN n ELSE n - 1
    <3>1. i \in DOMAIN w /\ from[i] = n
      BY <1>1, <2>4, <2>7, <2>9
    <3> QED
      BY <3>1
  <2>10. \A i \in DOMAIN w : w[i][1] # g
    BY <2>2, <2>8
  <2> HIDE DEF from
  <2> QED
    BY <2>7, <2>8, <2>9, <2>10 DEF w, E
<1> QED
  BY <1>2, <1>3

(* A servlet for an address, or none.                                      *)
LEMMA DatasInv ==
    ASSUME TableInv, NEW path \in Paths,
           DelServlet(path) \/ \E s \in Servlets : AddServlet(path, s)
    PROVE  TableInv'
<1>1. /\ ops \in Seq(Changes) /\ Len(ops) \in Nat /\ DOMAIN ops = 1..Len(ops)
      /\ m_globs' = m_globs
  <2>1. ops \in Seq(Changes) /\ m_globs' = m_globs
    BY DEF TableInv, DelServlet, AddServlet
  <2> QED
    BY <2>1
<1>2. ASSUME NEW r \in {{}} \cup {{s} : s \in Servlets}, Record("datas", path, r),
             DOMAIN m_datas' = IF r = {} THEN DOMAIN m_datas \ {path} ELSE DOMAIN m_datas \cup {path},
             \A x \in DOMAIN m_datas \ {path} : m_datas'[x] = m_datas[x],
             r # {} => r = {m_datas'[path]}
      PROVE  TableInv'
  <2>1. /\ \A g : Standing("globs", g)' = Standing("globs", g)
        /\ \A x : x # path => Standing("datas", x)' = Standing("datas", x)
        /\ Standing("datas", path)' = IF r = {} THEN {} ELSE {Len(ops) + 1}
    BY <1>1, <1>2, RecordStanding
  <2> DEFINE c == [table |-> "datas", key |-> path, servlet |-> r]
  <2>2. ops' = Append(ops, c) /\ c \in Changes /\ c.servlet = r
    BY <1>2 DEF Record, Changes
  <2> HIDE DEF c
  <2>3. ops' \in Seq(Changes) /\ ops'[Len(ops) + 1].servlet = r
        /\ \A i \in DOMAIN ops : ops'[i] = ops[i]
    BY <1>1, <2>2
  <2>4. \A t, k : Standing(t, k) \subseteq DOMAIN ops
    BY DEF Standing
  <2>5. \A x \in Paths : x \in DOMAIN m_datas' <=> Standing("datas", x)' # {}
    BY <1>2, <2>1 DEF TableInv
  <2>6. ASSUME NEW x \in DOMAIN m_datas', NEW i \in Standing("datas", x)'
        PROVE  ops'[i].servlet = {m_datas'[x]}
    <3>1. CASE x = path
      BY <1>2, <2>1, <2>3, <2>6, <3>1
    <3>2. CASE x # path
      BY <1>2, <2>1, <2>3, <2>4, <2>6, <3>2 DEF TableInv
    <3> QED
      BY <3>1, <3>2
  <2>7. ASSUME NEW i \in DOMAIN m_globs
        PROVE  \E h \in Standing("globs", m_globs[i][1])' :
                  /\ ops'[h].servlet = {m_globs[i][2]}
                  /\ \A j \in DOMAIN m_globs : j < i =>
                        \A k \in Standing("globs", m_globs[j][1])' : k < h
    <3>1. PICK h \in Standing("globs", m_globs[i][1]) :
             /\ ops[h].servlet = {m_globs[i][2]}
             /\ \A j \in DOMAIN m_globs : j < i =>
                   \A k \in Standing("globs", m_globs[j][1]) : k < h
      BY DEF TableInv
    <3>2. h \in DOMAIN ops /\ ops'[h] = ops[h] /\ h \in Standing("globs", m_globs[i][1])'
      BY <1>1, <2>1, <2>3, <2>4, <3>1
    <3> QED
      BY <1>1, <2>1, <3>1, <3>2
  <2> QED
    BY <1>1, <2>1, <2>3, <2>5, <2>6, <2>7 DEF TableInv
<1>3. CASE DelServlet(path)
  BY <1>2, <1>3 DEF DelServlet
<1>4. ASSUME NEW s \in Servlets, AddServlet(path, s) PROVE TableInv'
  BY <1>2, <1>4 DEF AddServlet
<1> QED
  BY <1>3, <1>4

(* A servlet for a glob, at the end of the list, or none.                  *)
LEMMA GlobsInv ==
    ASSUME TableInv, NEW g \in Patterns,
           DelGlobServlet(g) \/ \E s \in Servlets : AddGlobServlet(g, s)
    PROVE  TableInv'
<1> DEFINE w == Without(m_globs, g)
           E == Patterns \X Servlets
           now(r, k) == IF k = g THEN IF r = {} THEN {} ELSE {Len(ops) + 1}
                        ELSE Standing("globs", k)
<1>1. /\ ops \in Seq(Changes) /\ Len(ops) \in Nat /\ DOMAIN ops = 1..Len(ops)
      /\ m_datas' = m_datas
  <2>1. ops \in Seq(Changes) /\ m_datas' = m_datas
    BY DEF TableInv, DelGlobServlet, AddGlobServlet
  <2> QED
    BY <2>1
<1>2. /\ w \in Seq(E)
      /\ \E from \in [DOMAIN w -> DOMAIN m_globs] :
            /\ \A i \in DOMAIN w : w[i] = m_globs[from[i]] /\ w[i][1] # g
            /\ \A i, j \in DOMAIN w : i < j => from[i] < from[j]
            /\ \A n \in DOMAIN m_globs : m_globs[n][1] # g => \E i \in DOMAIN w : from[i] = n
  BY WithoutKeeps
<1>3. \A t, k : Standing(t, k) \subseteq DOMAIN ops
  BY DEF Standing
<1> HIDE DEF w, E
<1>4. PICK from \in [DOMAIN w -> DOMAIN m_globs] :
         /\ \A i \in DOMAIN w : w[i] = m_globs[from[i]] /\ w[i][1] # g
         /\ \A i, j \in DOMAIN w : i < j => from[i] < from[j]
         /\ \A n \in DOMAIN m_globs : m_globs[n][1] # g => \E i \in DOMAIN w : from[i] = n
  BY <1>2
<1>5. ASSUME NEW r \in {{}} \cup {{s} : s \in Servlets}, Record("globs", g, r)
      PROVE  /\ ops' \in Seq(Changes)
             /\ \A i \in DOMAIN ops : ops'[i] = ops[i]
             /\ ops'[Len(ops) + 1].servlet = r
             /\ \A k : Standing("globs", k)' = now(r, k)
             /\ \A k : Standing("datas", k)' = Standing("datas", k)
  <2> DEFINE c == [table |-> "globs", key |-> g, servlet |-> r]
  <2>1. ops' = Append(ops, c) /\ c \in Changes /\ c.servlet = r
    BY <1>5 DEF Record, Changes
  <2>2. \A t, k : Standing(t, k)' = IF t = "globs" /\ k = g
                                   THEN IF r = {} THEN {} ELSE {Len(ops) + 1}
                                   ELSE Standing(t, k)
    BY <1>1, <1>5, RecordStanding
  <2> HIDE DEF c
  <2> QED
    BY <1>1, <2>1, <2>2
<1>6. ASSUME NEW r \in {{}} \cup {{s} : s \in Servlets}, Record("globs", g, r),
             NEW i \in DOMAIN w
      PROVE  \E h \in now(r, w[i][1]) :
                /\ h \in DOMAIN ops
                /\ ops'[h].servlet = {w[i][2]}
                /\ \A j \in DOMAIN w : j < i =>
                      \A k \in now(r, w[j][1]) : k < h
  <2>1. from[i] \in DOMAIN m_globs /\ w[i] = m_globs[from[i]] /\ w[i][1] # g
    BY <1>4, <1>6
  <2>2. PICK h \in Standing("globs", m_globs[from[i]][1]) :
           /\ ops[h].servlet = {m_globs[from[i]][2]}
           /\ \A j \in DOMAIN m_globs : j < from[i] =>
                 \A k \in Standing("globs", m_globs[j][1]) : k < h
    BY <2>1 DEF TableInv
  <2>3. h \in DOMAIN ops /\ h \in now(r, w[i][1]) /\ ops'[h] = ops[h]
    BY <1>3, <1>5, <1>6, <2>1, <2>2
  <2>4. ASSUME NEW j \in DOMAIN w, j < i, NEW k \in now(r, w[j][1])
        PROVE  k < h
    <3>1. from[j] \in DOMAIN m_globs /\ w[j] = m_globs[from[j]] /\ w[j][1] # g /\ from[j] < from[i]
      BY <1>4, <1>6, <2>4
    <3>2. k \in Standing("globs", m_globs[from[j]][1])
      BY <1>5, <1>6, <2>4, <3>1
    <3> QED
      BY <2>2, <3>1, <3>2
  <2> QED
    BY <2>1, <2>2, <2>3, <2>4
<1>7. ASSUME NEW r \in {{}} \cup {{s} : s \in Servlets}, Record("globs", g, r)
      PROVE  /\ \A path \in Paths : path \in DOMAIN m_datas' <=> Standing("datas", path)' # {}
             /\ \A path \in DOMAIN m_datas' : \A i \in Standing("datas", path)' :
                   ops'[i].servlet = {m_datas'[path]}
             /\ \A x \in Patterns : x # g /\ now(r, x) # {} =>
                   \E i \in DOMAIN w : w[i][1] = x
  <2>1. \A path : Standing("datas", path)' = Standing("datas", path)
    BY <1>5, <1>7
  <2>2. \A path \in DOMAIN m_datas' : \A i \in Standing("datas", path)' :
           ops'[i].servlet = {m_datas'[path]}
    BY <1>1, <1>3, <1>5, <1>7, <2>1 DEF TableInv
  <2>3. ASSUME NEW x \in Patterns, x # g, now(r, x) # {}
        PROVE  \E i \in DOMAIN w : w[i][1] = x
    <3>1. PICK n \in DOMAIN m_globs : m_globs[n][1] = x
      BY <1>5, <1>7, <2>3 DEF TableInv
    <3> QED
      BY <1>4, <2>3, <3>1
  <2> QED
    BY <1>1, <2>1, <2>2, <2>3 DEF TableInv
<1>8. ASSUME NEW r \in {{}} \cup {{s} : s \in Servlets}, Record("globs", g, r),
             m_globs' \in Seq(E),
             \A x \in Patterns : now(r, x) # {} => \E i \in DOMAIN m_globs' : m_globs'[i][1] = x,
             \A i \in DOMAIN m_globs' : \E h \in now(r, m_globs'[i][1]) :
                /\ ops'[h].servlet = {m_globs'[i][2]}
                /\ \A j \in DOMAIN m_globs' : j < i => \A k \in now(r, m_globs'[j][1]) : k < h
      PROVE  TableInv'
  <2>1. \A k : Standing("globs", k)' = now(r, k)
    BY <1>5, <1>8
  <2> HIDE DEF now
  <2>2. \A x \in Patterns : Standing("globs", x)' # {} => \E i \in DOMAIN m_globs' : m_globs'[i][1] = x
    BY <1>8, <2>1
  <2>3. ASSUME NEW i \in DOMAIN m_globs'
        PROVE  (\E h \in Standing("globs", m_globs[i][1]) :
                  /\ ops[h].servlet = {m_globs[i][2]}
                  /\ \A j \in DOMAIN m_globs : j < i =>
                        \A k \in Standing("globs", m_globs[j][1]) : k < h)'
    <3>1. PICK h \in now(r, m_globs'[i][1]) :
             /\ ops'[h].servlet = {m_globs'[i][2]}
             /\ \A j \in DOMAIN m_globs' : j < i => \A k \in now(r, m_globs'[j][1]) : k < h
      BY <1>8, <2>3
    <3>2. h \in Standing("globs", m_globs[i][1])'
      BY <1>8, <2>1, <3>1
    <3>3. \A j \in DOMAIN m_globs' : j < i => \A k \in Standing("globs", m_globs[j][1])' : k < h
      BY <1>8, <2>1, <3>1
    <3> QED
      BY <1>8, <3>1, <3>2, <3>3
  <2>4. m_globs' \in Seq(Patterns \X Servlets)
    BY <1>8 DEF E
  <2> QED
    BY <1>5, <1>7, <1>8, <2>2, <2>3, <2>4 DEF TableInv
<1>9. CASE DelGlobServlet(g)
  <2>1. m_globs' = w /\ Record("globs", g, {})
    BY <1>9 DEF DelGlobServlet, w
  <2>2. \A x \in Patterns : now({}, x) # {} => \E i \in DOMAIN w : w[i][1] = x
    BY <1>5, <1>7, <2>1
  <2>3. ASSUME NEW i \in DOMAIN w
        PROVE  \E h \in now({}, w[i][1]) :
                  /\ ops'[h].servlet = {w[i][2]}
                  /\ \A j \in DOMAIN w : j < i =>
                        \A k \in now({}, w[j][1]) : k < h
    BY <1>6, <2>1
  <2> HIDE DEF now
  <2> QED
    BY <1>2, <1>8, <2>1, <2>2, <2>3
<1>10. ASSUME NEW s \in Servlets, AddGlobServlet(g, s) PROVE TableInv'
  <2> DEFINE e == <<g, s>>
             v == Append(w, e)
  <2>1. m_globs' = v /\ Record("globs", g, {s}) /\ e \in E /\ e[1] = g /\ e[2] = s
    BY <1>10 DEF AddGlobServlet, w, E
  <2> HIDE DEF e
  <2>2. /\ v \in Seq(E) /\ Len(w) \in Nat /\ DOMAIN w = 1..Len(w)
        /\ DOMAIN v = 1..(Len(w) + 1) /\ v[Len(w) + 1] = e
        /\ \A i \in DOMAIN w : v[i] = w[i]
    BY <1>2, <2>1
  <2> HIDE DEF v
  <2>3. now({s}, g) = {Len(ops) + 1} /\ ops'[Len(ops) + 1].servlet = {s}
    BY <1>5, <2>1
  <2>4. ASSUME NEW x \in Patterns, now({s}, x) # {}
        PROVE  \E i \in DOMAIN v : v[i][1] = x
    <3>1. CASE x = g
      BY <2>1, <2>2, <3>1
    <3>2. CASE x # g
      <4>1. PICK i \in DOMAIN w : w[i][1] = x
        BY <1>7, <2>1, <2>4, <3>2
      <4> QED
        BY <2>2, <4>1
    <3> QED
      BY <3>1, <3>2
  <2>5. ASSUME NEW i \in DOMAIN v
        PROVE  \E h \in now({s}, v[i][1]) :
                  /\ ops'[h].servlet = {v[i][2]}
                  /\ \A j \in DOMAIN v : j < i =>
                        \A k \in now({s}, v[j][1]) : k < h
    <3>1. CASE i = Len(w) + 1
      <4>1. \A j \in DOMAIN v : j < i => j \in DOMAIN w /\ v[j] = w[j] /\ w[j][1] # g
        BY <1>4, <2>2, <3>1
      <4>2. \A x : x # g => \A k \in now({s}, x) : k < Len(ops) + 1
        BY <1>1, <1>3, <1>5, <2>1
      <4> QED
        BY <2>1, <2>2, <2>3, <3>1, <4>1, <4>2
    <3>2. CASE i # Len(w) + 1
      <4>1. i \in DOMAIN w /\ \A j \in DOMAIN v : j < i => j \in DOMAIN w
        BY <2>2, <2>5, <3>2
      <4>2. PICK h \in now({s}, w[i][1]) :
               /\ ops'[h].servlet = {w[i][2]}
               /\ \A j \in DOMAIN w : j < i =>
                     \A k \in now({s}, w[j][1]) : k < h
        BY <1>6, <2>1, <4>1
      <4> QED
        BY <2>2, <4>1, <4>2
    <3> QED
      BY <3>1, <3>2
  <2>6. {s} \in {{}} \cup {{x} : x \in Servlets}
    OBVIOUS
  <2> HIDE DEF now
  <2>7. m_globs' \in Seq(E) /\ Record("globs", g, {s})
    BY <2>1, <2>2
  <2>8. \A x \in Patterns : now({s}, x) # {} => \E i \in DOMAIN m_globs' : m_globs'[i][1] = x
    BY <2>1, <2>4
  <2>9. \A i \in DOMAIN m_globs' : \E h \in now({s}, m_globs'[i][1]) :
           /\ ops'[h].servlet = {m_globs'[i][2]}
           /\ \A j \in DOMAIN m_globs' : j < i => \A k \in now({s}, m_globs'[j][1]) : k < h
    BY <2>1, <2>5
  <2> QED
    BY <1>8, <2>6, <2>7, <2>8, <2>9
<1> QED
  BY <1>9, <1>10

LEMMA TableInit == Init => TableInv
<1> SUFFICES ASSUME Init PROVE TableInv
  OBVIOUS
<1>1. m_datas = <<>> /\ m_globs = <<>> /\ ops = <<>>
  BY DEF Init
<1>2. DOMAIN m_datas = {} /\ DOMAIN m_globs = {} /\ DOMAIN ops = {}
  BY <1>1
<1>3. \A t, k : Standing(t, k) = {}
  BY <1>2 DEF Standing
<1>4. ops \in Seq(Changes) /\ m_globs \in Seq(Patterns \X Servlets)
  BY <1>1
<1> QED
  BY <1>2, <1>3, <1>4 DEF TableInv

LEMMA TableStep == TableInv /\ [Next]_vars => TableInv'
<1> SUFFICES ASSUME TableInv, [Next]_vars PROVE TableInv'
  OBVIOUS
<1>1. CASE Register
  BY <1>1, DatasInv, GlobsInv DEF Register
<1>2. CASE UNCHANGED tableVars
  <2>1. \A t, k : Standing(t, k)' = Standing(t, k)
    BY <1>2 DEF Standing, tableVars
  <2> QED
    BY <1>2, <2>1 DEF TableInv, tableVars
<1> QED
  BY <1>1, <1>2 DEF Next, Send, Leave, Recv, ReadHead, ReadBody, EndOfFile, Timeout, ReadFails,
     Serve, vars

(* The first glob that matches is the one whose registration has stood     *)
(* longest.                                                                *)
LEMMA TableMatch == TableInv => MatchIsStanding
<1> SUFFICES ASSUME TableInv, NEW path \in Paths
             PROVE  LET own == Standing("datas", path)
                        globs == UNION {Standing("globs", g) : g \in {g \in Patterns : fnmatch(g, path)}}
                        from == IF own # {} THEN own ELSE globs
                    IN  \/ from = {} /\ GetMatchServlet(path) = Default
                        \/ \E i \in from : (\A j \in from : i <= j)
                                           /\ GetMatchServlet(path) \in ops[i].servlet
  BY DEF MatchIsStanding
<1> DEFINE own == Standing("datas", path)
           globs == UNION {Standing("globs", g) : g \in {g \in Patterns : fnmatch(g, path)}}
           hits == {i \in DOMAIN m_globs : fnmatch(m_globs[i][1], path)}
<1>1. \A t, k : /\ Standing(t, k) \subseteq Nat
                /\ \A i, j \in Standing(t, k) : i = j
  <2>1. DOMAIN ops \subseteq Nat
    BY DEF TableInv
  <2> QED
    BY <2>1 DEF Standing
<1>2. m_globs \in Seq(Patterns \X Servlets) /\ DOMAIN m_globs \subseteq Nat
  BY DEF TableInv
<1>3. CASE own # {}
  <2>1. PICK i \in own : TRUE
    BY <1>3
  <2>2. path \in DOMAIN m_datas /\ ops[i].servlet = {m_datas[path]}
    BY <1>3, <2>1 DEF TableInv
  <2>3. GetMatchServlet(path) \in ops[i].servlet
    BY <2>2 DEF GetMatchServlet
  <2>4. \A j \in own : i <= j
    BY <1>1, <2>1
  <2> QED
    BY <1>3, <2>1, <2>3, <2>4
<1>4. CASE own = {} /\ hits = {}
  <2>1. path \notin DOMAIN m_datas
    BY <1>4 DEF TableInv
  <2>2. GetMatchServlet(path) = Default
    BY <1>4, <2>1 DEF GetMatchServlet, FirstGlob
  <2>3. ASSUME NEW g \in Patterns, fnmatch(g, path) PROVE Standing("globs", g) = {}
    <3>1. Standing("globs", g) # {} => \E i \in DOMAIN m_globs : m_globs[i][1] = g
      BY DEF TableInv
    <3> QED
      BY <1>4, <2>3, <3>1
  <2>4. globs = {}
    BY <2>3
  <2> QED
    BY <1>4, <2>2, <2>4
<1>5. CASE own = {} /\ hits # {}
  <2> DEFINE first == CHOOSE i \in hits : \A j \in hits : i <= j
  <2>1. first \in hits /\ \A j \in hits : first <= j
    <3>1. hits \in SUBSET Nat
      BY <1>2
    <3> HIDE DEF hits
    <3>2. \E i \in hits : \A j \in hits : i <= j
      BY <1>5, <3>1, LeastNat
    <3> QED
      BY <3>2
  <2>2. GetMatchServlet(path) = m_globs[first][2]
    <3>1. path \notin DOMAIN m_datas
      BY <1>5 DEF TableInv
    <3> QED
      BY <1>5, <3>1 DEF GetMatchServlet, FirstGlob
  <2> HIDE DEF first
  <2>3. PICK h \in Standing("globs", m_globs[first][1]) : ops[h].servlet = {m_globs[first][2]}
    BY <2>1 DEF TableInv
  <2>4. h \in globs
    <3>1. m_globs[first][1] \in Patterns /\ fnmatch(m_globs[first][1], path)
      BY <1>2, <2>1
    <3> QED
      BY <2>3, <3>1
  <2>5. ASSUME NEW k \in globs PROVE h <= k
    <3>1. PICK g \in Patterns : fnmatch(g, path) /\ k \in Standing("globs", g)
      BY <2>5
    <3>2. PICK i \in DOMAIN m_globs : m_globs[i][1] = g
      BY <3>1 DEF TableInv
    <3>3. i \in hits /\ first <= i /\ first \in Nat /\ i \in Nat /\ first \in DOMAIN m_globs
      BY <1>2, <2>1, <3>1, <3>2
    <3>4. CASE i = first
      BY <1>1, <2>3, <3>1, <3>2, <3>4
    <3>5. CASE first < i
      <4>1. PICK b \in Standing("globs", m_globs[i][1]) :
               \A j \in DOMAIN m_globs : j < i => \A c \in Standing("globs", m_globs[j][1]) : c < b
        BY DEF TableInv
      <4>2. h < b /\ b = k
        BY <1>1, <2>3, <3>1, <3>2, <3>3, <3>5, <4>1
      <4> QED
        BY <1>1, <2>3, <3>1, <4>2
    <3> QED
      BY <3>3, <3>4, <3>5
  <2> HIDE DEF globs
  <2>6. GetMatchServlet(path) \in ops[h].servlet
    BY <2>2, <2>3
  <2> QED
    BY <1>5, <2>4, <2>5, <2>6 DEF globs
<1> QED
  BY <1>3, <1>4, <1>5

(* getMatchServlet: whatever is added, replaced and deleted, and in which  *)
(* order, an address is answered by the servlet last registered for it;    *)
(* or else by the one of the matching globs that has stood longest; or     *)
(* else by the default.                                                    *)
THEOREM MatchIsStandingHolds == Spec => []MatchIsStanding
<1> QED
  BY TableInit, TableStep, TableMatch, PTL DEF Spec
-----------------------------------------------------------------------------
(* The connection                                                          *)

(* A part of what is left of a sequence behind k is a part of it.          *)
LEMMA PartOfRest ==
    ASSUME NEW S, NEW s \in Seq(S), NEW k \in 0..Len(s),
           NEW a \in 1..(Len(s) - k + 1), NEW b \in (a - 1)..(Len(s) - k)
    PROVE  SubSeq(SubSeq(s, k + 1, Len(s)), a, b) = SubSeq(s, k + a, k + b)
<1>1. Len(s) \in Nat /\ k \in Nat
  BY LenProperties
<1>2. PICK c \in 1..(Len(s) + 1) :
         /\ c = k + 1 /\ Len(s) \in (c - 1)..Len(s) /\ a \in 1..(Len(s) - c + 2)
         /\ b \in (a - 1)..(Len(s) - c + 1) /\ c + a - 1 = k + a /\ c + b - 1 = k + b
  BY <1>1
<1> QED
  BY <1>2, PartOfPart

(* A request is its head and then its body.                                *)
LEMMA RequestParts ==
    ASSUME NEW r \in Requests
    PROVE  /\ Request(r) \in Seq(AnyByte) /\ Len(Request(r)) = Len(r.head) + Len(r.body)
           /\ Len(r.head) \in Nat \ {0} /\ Len(r.body) \in Nat
           /\ r.body \in Seq(AnyByte) /\ (Len(r.body) = 0 <=> r.body = <<>>)
           /\ \A i \in 1..Len(r.head) : Request(r)[i] = r.head[i]
           /\ \A a \in 1..(Len(r.body) + 1) : \A b \in (a - 1)..Len(r.body) :
                 SubSeq(Request(r), Len(r.head) + a, Len(r.head) + b) = SubSeq(r.body, a, b)
<1> DEFINE h == r.head
           c == r.body
           R == Request(r)
<1>1. h \in Seq(AnyByte) /\ c \in Seq(AnyByte) /\ h # <<>>
  BY ScriptAssumption
<1>2. R = h \o c
  BY DEF Request
<1> HIDE DEF h, c, R
<1>3. Len(h) \in Nat /\ Len(c) \in Nat /\ Len(h) # 0 /\ (Len(c) = 0 <=> c = <<>>)
  BY <1>1, EmptySeq, LenProperties
<1>4. /\ R \in Seq(AnyByte) /\ Len(R) = Len(h) + Len(c)
      /\ \A i \in 1..(Len(h) + Len(c)) : R[i] = IF i <= Len(h) THEN h[i] ELSE c[i - Len(h)]
  BY <1>1, <1>2, ConcatProperties
<1>5. \A i \in 1..Len(h) : R[i] = h[i]
  BY <1>3, <1>4
<1>6. SubSeq(R, Len(h) + 1, Len(R)) = c
  <2> DEFINE t == SubSeq(R, Len(h) + 1, Len(R))
  <2>1. Len(h) + 1 \in Int /\ Len(R) \in Int /\ \A i \in (Len(h) + 1)..Len(R) : R[i] \in AnyByte
    BY <1>3, <1>4, ElementOfSeq
  <2>2. /\ t \in Seq(AnyByte)
        /\ Len(t) = IF Len(h) + 1 <= Len(R) THEN Len(R) - (Len(h) + 1) + 1 ELSE 0
        /\ \A i \in 1..(Len(R) - (Len(h) + 1) + 1) : t[i] = R[Len(h) + 1 + i - 1]
    BY <2>1, SubSeqProperties
  <2> HIDE DEF t
  <2>3. Len(t) = Len(c) /\ Len(R) - (Len(h) + 1) + 1 = Len(c)
    BY <1>3, <1>4, <2>2
  <2>4. ASSUME NEW i \in 1..Len(c) PROVE t[i] = c[i]
    <3>1. Len(h) + 1 + i - 1 \in 1..(Len(h) + Len(c)) /\ ~(Len(h) + 1 + i - 1 <= Len(h))
          /\ Len(h) + 1 + i - 1 - Len(h) = i
      BY <1>3
    <3> QED
      BY <1>4, <2>2, <2>3, <3>1
  <2>5. t = c
    BY <1>1, <2>2, <2>3, <2>4, SeqEqual
  <2> QED
    BY <2>5 DEF t
<1>7. ASSUME NEW a \in 1..(Len(c) + 1), NEW b \in (a - 1)..Len(c)
      PROVE  SubSeq(R, Len(h) + a, Len(h) + b) = SubSeq(c, a, b)
  <2>1. Len(h) \in 0..Len(R) /\ Len(R) - Len(h) = Len(c)
    BY <1>3, <1>4
  <2>2. SubSeq(SubSeq(R, Len(h) + 1, Len(R)), a, b) = SubSeq(R, Len(h) + a, Len(h) + b)
    <3>1. R \in Seq(AnyByte) /\ a \in 1..(Len(R) - Len(h) + 1) /\ b \in (a - 1)..(Len(R) - Len(h))
      BY <1>4, <2>1
    <3> QED
      BY <2>1, <3>1, PartOfRest
  <2> QED
    BY <1>6, <2>2
<1> QED
  BY <1>1, <1>3, <1>4, <1>5, <1>7 DEF h, c, R

(* The first request of the script has been sent and read up to k.         *)
Sent(k) ==
    LET r == Head(script)
    IN  /\ script # <<>> /\ client # "ready"
        /\ wire = SubSeq(Request(r), k + 1, Len(Request(r)))
        /\ headLeft = IF k < Len(r.head) THEN Len(r.head) - k ELSE 0

(* The loop of recvRequest: between requests with a new parser, or at a    *)
(* break of the head with a parser that may have come this far.            *)
InHead(mid) ==
    \/ wire = <<>> /\ client # "waiting" /\ \E rel \in BOOLEAN : p = NewParser(rel)
    \/ \E k \in Breaks(Head(script)), rel \in BOOLEAN :
          Sent(k) /\ p \in mid[Head(script)][rel][k]

(* readFixSize: the request has the body up to m, waits for what is left   *)
(* of it, and with all of it will be what was sent.                        *)
InBody ==
    LET r == Head(script)
    IN  \E m \in Len(r.head)..(Len(Request(r)) - 1) :
          /\ Sent(m) /\ left = Len(Request(r)) - m
          /\ "m_data" \in DOMAIN p /\ "body" \in DOMAIN p.m_data
          /\ p.m_data.body = SubSeq(r.body, 1, m - Len(r.head))
          /\ AsSent(InitParam(InitRequest([p.m_data EXCEPT !.body = r.body])), r.want)

InServe ==
    /\ script # <<>> /\ client # "ready" /\ wire = <<>>
    /\ AsSent(p.m_data, Head(script).want)

Where(mid) ==
    /\ st = "head" => InHead(mid)
    /\ st = "body" => InBody
    /\ st = "serve" => InServe
    /\ st = "closed" => client = "gone" \/ idle \/ ~keepAlive

(* Where the connection is, as long as no read has ended inside a line.    *)
SessInv(mid) ==
    /\ script \in Seq(Requests) /\ (client = "waiting" => script # <<>>) /\ cuts \in Nat
    /\ client \in {"ready", "waiting", "gone"} /\ st \in {"head", "body", "serve", "closed"}
    /\ cuts = 0 => Where(mid)

(* A read of the first request, at k: what it gives and what it leaves.    *)
LEMMA TakeSent ==
    ASSUME script \in Seq(Requests), cuts \in Nat, NEW k \in Nat, Sent(k),
           NEW n \in 1..Len(wire), k < Len(Request(Head(script))), Take(n), cuts' = 0
    PROVE  LET r == Head(script)
               R == Request(r)
           IN  /\ r \in Requests /\ cuts = 0
               /\ k + n \in 1..Len(R) /\ Len(wire) = Len(R) - k
               /\ \A a \in 1..(n + 1) : SubSeq(wire, a, n) = SubSeq(R, k + a, k + n)
               /\ Sent(k + n)'
               /\ k + n < Len(r.head) => k + n \in Breaks(r)
<1> DEFINE r == Head(script)
           R == Request(r)
           H == Len(r.head)
           m == k + n
<1>1. r \in Requests
  BY HeadTailProperties DEF Sent
<1>2. /\ R \in Seq(AnyByte) /\ Len(R) \in Nat /\ H \in Nat \ {0} /\ H <= Len(R)
      /\ \A i \in 1..H : R[i] = r.head[i]
  <2> HIDE DEF r
  <2>1. /\ R \in Seq(AnyByte) /\ Len(R) = H + Len(r.body)
        /\ H \in Nat \ {0} /\ Len(r.body) \in Nat /\ \A i \in 1..H : R[i] = r.head[i]
    BY <1>1, RequestParts
  <2> HIDE DEF R, H
  <2> QED
    BY <2>1
<1>3. /\ wire = SubSeq(R, k + 1, Len(R)) /\ headLeft = IF k < H THEN H - k ELSE 0
      /\ script # <<>> /\ client # "ready"
  BY DEF Sent
<1>4. /\ wire' = SubSeq(wire, n + 1, Len(wire))
      /\ headLeft' = IF n < headLeft THEN headLeft - n ELSE 0
      /\ cuts' = IF n < headLeft /\ wire[n] # LF THEN cuts + 1 ELSE cuts
      /\ client' = client /\ script' = script
  BY DEF Take
<1>5. cuts = 0 /\ (n < headLeft => wire[n] = LF)
  BY <1>4
<1> HIDE DEF r, R, H
<1>6. /\ k \in 0..Len(R) /\ 1 \in 1..(Len(R) - k + 1) /\ Len(R) - k \in (1 - 1)..(Len(R) - k)
      /\ k < Len(R)
  BY <1>2 DEF R, r
<1>7. Len(wire) = Len(R) - k /\ \A i \in 1..(Len(R) - k) : wire[i] = R[k + i]
  <2>1. k + 1 \in Int /\ Len(R) \in Int /\ \A i \in (k + 1)..Len(R) : R[i] \in AnyByte
    BY <1>2, <1>6, ElementOfSeq
  <2>2. /\ Len(wire) = IF k + 1 <= Len(R) THEN Len(R) - (k + 1) + 1 ELSE 0
        /\ \A i \in 1..(Len(R) - (k + 1) + 1) : wire[i] = R[k + 1 + i - 1]
    BY <1>3, <2>1, SubSeqProperties
  <2>3. /\ (IF k + 1 <= Len(R) THEN Len(R) - (k + 1) + 1 ELSE 0) = Len(R) - k
        /\ Len(R) - (k + 1) + 1 = Len(R) - k
        /\ \A i \in 1..(Len(R) - k) : k + 1 + i - 1 = k + i
    BY <1>2, <1>6
  <2> QED
    BY <2>2, <2>3
<1>8. m \in 1..Len(R) /\ n \in 1..(Len(R) - k)
  BY <1>2, <1>6, <1>7
<1>9. ASSUME NEW a \in 1..(n + 1) PROVE SubSeq(wire, a, n) = SubSeq(R, k + a, k + n)
  <2>1. a \in 1..(Len(R) - k + 1) /\ n \in (a - 1)..(Len(R) - k)
    BY <1>2, <1>6, <1>8
  <2> QED
    BY <1>2, <1>3, <1>6, <2>1, PartOfRest
<1>10. wire' = SubSeq(R, m + 1, Len(R))
  <2>1. n + 1 \in 1..(Len(R) - k + 1) /\ Len(R) - k \in (n + 1 - 1)..(Len(R) - k)
    BY <1>2, <1>6, <1>8
  <2>2. SubSeq(SubSeq(R, k + 1, Len(R)), n + 1, Len(R) - k) = SubSeq(R, k + (n + 1), k + (Len(R) - k))
    BY <1>2, <1>6, <2>1, PartOfRest
  <2>3. k + (n + 1) = m + 1 /\ k + (Len(R) - k) = Len(R)
    BY <1>2
  <2> QED
    BY <1>3, <1>4, <1>7, <2>2, <2>3
<1>11. headLeft' = IF m < H THEN H - m ELSE 0
  BY <1>2, <1>3, <1>4, <1>8
<1>12. Sent(m)'
  BY <1>3, <1>4, <1>10, <1>11 DEF Sent, r, R, H
<1>13. ASSUME m < H PROVE m \in Breaks(r)
  <2>1. n < headLeft /\ m \in 1..(H - 1)
    BY <1>2, <1>3, <1>8, <1>13
  <2>2. wire[n] = LF /\ wire[n] = R[m] /\ R[m] = r.head[m]
    BY <1>2, <1>5, <1>7, <1>8, <2>1
  <2> QED
    BY <2>1, <2>2 DEF Breaks, H
<1> QED
  BY <1>1, <1>5, <1>7, <1>8, <1>9, <1>12, <1>13 DEF r, R, H, m

(* The head is read, and m bytes of the request with it: recvRequest has   *)
(* what was sent, or waits for exactly the bytes that are missing.         *)
LEMMA HeadDoneStep ==
    ASSUME NEW q, script \in Seq(Requests), HeadIs(q, Head(script)),
           NEW m \in Len(Head(script).head)..Len(Request(Head(script))),
           script' = script, Sent(m)',
           HeadDone(q, SubSeq(Request(Head(script)), Len(Head(script).head) + 1, m))
    PROVE  (st' = "body" /\ InBody') \/ (st' = "serve" /\ InServe')
<1> DEFINE r == Head(script)
           R == Request(r)
           H == Len(r.head)
           B == Len(r.body)
           rest == SubSeq(R, H + 1, m)
           d == q.m_data
<1>1. script # <<>> /\ script' # <<>> /\ client' # "ready" /\ r \in Requests
      /\ wire' = SubSeq(R, m + 1, Len(R))
  <2>1. script' # <<>> /\ client' # "ready" /\ wire' = SubSeq(R, m + 1, Len(R))
    BY DEF Sent
  <2> QED
    BY <2>1, HeadTailProperties
<1>2. /\ "m_data" \in DOMAIN q /\ "body" \in DOMAIN d /\ GetContentLength(d) = B
      /\ AsSent(InitParam(InitRequest(IF r.body # <<>> THEN [d EXCEPT !.body = r.body] ELSE d)), r.want)
  BY DEF HeadIs
<1> DEFINE here == IF B >= Len(rest) THEN rest ELSE SubSeq(rest, 1, B)
           got == IF B > 0 THEN [d EXCEPT !.body = here] ELSE d
<1>3. IF B > Len(rest)
      THEN /\ st' = "body" /\ left' = B - Len(rest)
           /\ p' = [q EXCEPT !.m_data = got]
      ELSE /\ st' = "serve" /\ left' = 0
           /\ p' = [q EXCEPT !.m_data = InitParam(InitRequest(got))]
  BY <1>2 DEF HeadDone
<1> HIDE DEF r
<1>4. /\ R \in Seq(AnyByte) /\ Len(R) = H + B /\ H \in Nat \ {0} /\ B \in Nat
      /\ r.body \in Seq(AnyByte) /\ (B = 0 <=> r.body = <<>>)
      /\ \A a \in 1..(B + 1) : \A b \in (a - 1)..B : SubSeq(R, H + a, H + b) = SubSeq(r.body, a, b)
  BY <1>1, RequestParts
<1>5. m \in H..Len(R)
  BY DEF r
<1> HIDE DEF R, H
<1>6. m \in Nat /\ m - H \in 0..B /\ H + (m - H) = m /\ (m = Len(R) <=> m - H = B)
  BY <1>4, <1>5 DEF B
<1>7. rest = SubSeq(r.body, 1, m - H) /\ Len(rest) = m - H
  <2>1. 1 \in 1..(B + 1) /\ m - H \in (1 - 1)..B
    BY <1>4, <1>6
  <2>2. SubSeq(R, H + 1, H + (m - H)) = SubSeq(r.body, 1, m - H)
    BY <1>4, <2>1
  <2>3. Len(SubSeq(r.body, 1, m - H)) = m - H
    <3>1. 1 \in Int /\ m - H \in Int /\ \A i \in 1..(m - H) : r.body[i] \in AnyByte
      BY <1>4, <1>6, ElementOfSeq
    <3>2. Len(SubSeq(r.body, 1, m - H)) = IF 1 <= m - H THEN m - H - 1 + 1 ELSE 0
      BY <3>1, SubSeqProperties
    <3> QED
      BY <1>4, <1>6, <3>2
  <2> QED
    BY <1>6, <2>2, <2>3
<1> HIDE DEF rest, B, d
<1>8. here = rest
  BY <1>4, <1>6, <1>7
<1>9. CASE m < Len(R)
  <2>1. B > Len(rest) /\ B > 0 /\ B - Len(rest) = Len(R) - m /\ m \in H..(Len(R) - 1)
    BY <1>4, <1>5, <1>6, <1>7, <1>9
  <2>2. st' = "body" /\ left' = Len(R) - m /\ p' = [q EXCEPT !.m_data = [d EXCEPT !.body = rest]]
    BY <1>3, <1>8, <2>1
  <2>3. /\ "m_data" \in DOMAIN p' /\ p'.m_data = [d EXCEPT !.body = rest]
    BY <1>2, <2>2
  <2>4. /\ "body" \in DOMAIN p'.m_data /\ p'.m_data.body = rest
        /\ [p'.m_data EXCEPT !.body = r.body] = [d EXCEPT !.body = r.body]
    BY <1>2, <2>3
  <2>5. AsSent(InitParam(InitRequest([p'.m_data EXCEPT !.body = r.body])), r.want)
    <3>1. r.body # <<>>
      BY <1>4, <2>1
    <3> QED
      BY <1>2, <2>4, <3>1
  <2>6. /\ left' = Len(R) - m /\ "m_data" \in DOMAIN p' /\ "body" \in DOMAIN p'.m_data
        /\ p'.m_data.body = SubSeq(r.body, 1, m - H)
    BY <1>7, <2>2, <2>3, <2>4
  <2>7. InBody'
    BY <2>1, <2>5, <2>6 DEF InBody, r, R, H
  <2> QED
    BY <2>2, <2>7
<1>10. CASE m = Len(R)
  <2>1. rest = r.body
    BY <1>4, <1>6, <1>7, <1>10, SubSeqFull DEF B
  <2>2. got = IF r.body # <<>> THEN [d EXCEPT !.body = r.body] ELSE d
    <3>1. here = r.body /\ (B > 0 <=> r.body # <<>>)
      BY <1>4, <1>8, <2>1
    <3> HIDE DEF here
    <3> QED
      BY <3>1
  <2> HIDE DEF got
  <2>3. st' = "serve" /\ p' = [q EXCEPT !.m_data = InitParam(InitRequest(got))]
    BY <1>3, <1>4, <1>6, <1>7, <1>10
  <2>4. p'.m_data = InitParam(InitRequest(got))
    BY <1>2, <2>3
  <2>5. wire' = <<>>
    BY <1>1, <1>4, <1>10, SubSeqEmpty
  <2>6. AsSent(p'.m_data, r.want)
    BY <1>2, <2>2, <2>4
  <2>7. InServe'
    BY <1>1, <2>5, <2>6 DEF InServe, r
  <2> QED
    BY <2>3, <2>7
<1> QED
  BY <1>4, <1>5, <1>9, <1>10

(* A read in recvRequest's loop that does not end inside a line.           *)
LEMMA ReadHeadStep ==
    ASSUME NEW mid, ParsesByLine(mid), SessInv(mid), NEW n \in 1..Len(wire), ReadHead(n), cuts' = 0
    PROVE  Where(mid)' /\ st' \in {"head", "body", "serve", "closed"}
<1> DEFINE r == Head(script)
           R == Request(r)
           H == Len(r.head)
<1>1. /\ script \in Seq(Requests) /\ cuts \in Nat /\ st = "head" /\ Take(n)
      /\ script' = script
  BY DEF SessInv, ReadHead, Take
<1>2. cuts = 0
  <2>1. cuts' = cuts \/ cuts' = cuts + 1
    BY <1>1 DEF Take
  <2> QED
    BY <1>1, <2>1
<1>3. PICK k \in Breaks(r), rel \in BOOLEAN : Sent(k) /\ p \in mid[r][rel][k]
  <2>1. wire # <<>>
    OBVIOUS
  <2> QED
    BY <1>1, <1>2, <2>1 DEF SessInv, Where, InHead
<1>4. r \in Requests
  BY <1>1, <1>3, HeadTailProperties DEF Sent
<1> HIDE DEF r
<1>5. /\ R \in Seq(AnyByte) /\ Len(R) = H + Len(r.body) /\ H \in Nat \ {0} /\ Len(r.body) \in Nat
  BY <1>4, RequestParts
<1>6. k \in Nat /\ k < H /\ k < Len(R)
  <2>1. k \in Nat /\ k < H
    BY <1>3, <1>5 DEF Breaks
  <2> HIDE DEF R, H
  <2> QED
    BY <1>5, <2>1
<1> DEFINE m == k + n
<1>7. /\ m \in 1..Len(R) /\ Len(wire) = Len(R) - k
      /\ \A a \in 1..(n + 1) : SubSeq(wire, a, n) = SubSeq(R, k + a, m)
      /\ Sent(m)'
      /\ m < H => m \in Breaks(r)
  BY <1>1, <1>3, <1>6, TakeSent DEF r
<1> HIDE DEF R, H, m
<1> DEFINE x == Execute(p, SubSeq(R, k + 1, m))
<1>8. n \in Nat \ {0} /\ SubSeq(wire, 1, n) = SubSeq(R, k + 1, m)
  <2>1. n \in Nat \ {0}
    BY <1>5, <1>6, <1>7
  <2>2. 1 \in 1..(n + 1)
    BY <2>1
  <2> QED
    BY <1>7, <2>1, <2>2
<1>9. \/ (HasError(x.p) \/ x.p.thrown) /\ Closed /\ p' = x.p
      \/ ~HasError(x.p) /\ ~x.p.thrown /\ ~IsFinished(x.p) /\ p' = x.p /\ st' = st
      \/ ~HasError(x.p) /\ ~x.p.thrown /\ IsFinished(x.p) /\ HeadDone(x.p, SubSeq(wire, x.n + 1, n))
  BY <1>8 DEF ReadHead
<1>10. CASE m < H
  <2>1. m \in Breaks(r) /\ k < m
    BY <1>6, <1>7, <1>8, <1>10 DEF m
  <2>2. ~HasError(x.p) /\ ~x.p.thrown /\ ~IsFinished(x.p) /\ x.p \in mid[r][rel][m]
    BY <1>3, <1>4, <2>1 DEF ParsesByLine, R
  <2> HIDE DEF x
  <2>3. st' = "head" /\ p' \in mid[r][rel][m]
    BY <1>1, <1>9, <2>2
  <2>4. InHead(mid)'
    BY <1>1, <1>7, <2>1, <2>3 DEF InHead, r
  <2> QED
    BY <2>3, <2>4 DEF Where
<1>11. CASE ~(m < H)
  <2>1. m \in H..Len(R)
    BY <1>5, <1>7, <1>11
  <2>2. /\ ~HasError(x.p) /\ ~x.p.thrown /\ IsFinished(x.p)
        /\ x.n = H - k /\ HeadIs(x.p, r)
    BY <1>3, <1>4, <2>1 DEF ParsesByLine, R, H
  <2> HIDE DEF x
  <2>3. HeadDone(x.p, SubSeq(wire, x.n + 1, n))
    BY <1>9, <2>2
  <2>4. SubSeq(wire, H - k + 1, n) = SubSeq(R, H + 1, m)
    <3>1. H - k + 1 \in 1..(n + 1) /\ k + (H - k + 1) = H + 1
      BY <1>5, <1>6, <1>8, <1>11 DEF m
    <3> QED
      BY <1>7, <3>1
  <2>5. SubSeq(wire, x.n + 1, n) = SubSeq(R, H + 1, m)
    <3>1. x.n + 1 = H - k + 1
      BY <1>5, <1>6, <2>2
    <3> QED
      BY <2>4, <3>1
  <2>6. (st' = "body" /\ InBody') \/ (st' = "serve" /\ InServe')
    BY <1>1, <1>7, <2>1, <2>2, <2>3, <2>5, HeadDoneStep DEF r, R, H
  <2> QED
    BY <2>6 DEF Where
<1> QED
  BY <1>10, <1>11

(* A read of readFixSize.                                                  *)
LEMMA ReadBodyStep ==
    ASSUME NEW mid, SessInv(mid), NEW n \in 1..Len(wire), ReadBody(n), cuts' = 0
    PROVE  Where(mid)' /\ st' \in {"head", "body", "serve", "closed"}
<1> DEFINE r == Head(script)
           R == Request(r)
           H == Len(r.head)
           B == Len(r.body)
<1>1. /\ script \in Seq(Requests) /\ cuts \in Nat /\ st = "body" /\ Take(n)
      /\ script' = script /\ left' = left - n
  BY DEF SessInv, ReadBody, Take
<1>2. cuts = 0
  <2>1. cuts' = cuts \/ cuts' = cuts + 1
    BY <1>1 DEF Take
  <2> QED
    BY <1>1, <2>1
<1>3. PICK m \in H..(Len(R) - 1) :
         /\ Sent(m) /\ left = Len(R) - m
         /\ "m_data" \in DOMAIN p /\ "body" \in DOMAIN p.m_data
         /\ p.m_data.body = SubSeq(r.body, 1, m - H)
         /\ AsSent(InitParam(InitRequest([p.m_data EXCEPT !.body = r.body])), r.want)
  BY <1>1, <1>2 DEF SessInv, Where, InBody
<1>4. r \in Requests /\ script # <<>> /\ client # "ready" /\ client' = client
  BY <1>1, <1>3, HeadTailProperties DEF Sent, Take
<1> DEFINE piece == SubSeq(wire, 1, n)
           req == [p.m_data EXCEPT !.body = @ \o piece]
<1>5. IF n < left THEN p' = [p EXCEPT !.m_data = req] /\ st' = "body"
      ELSE p' = [p EXCEPT !.m_data = InitParam(InitRequest(req))] /\ st' = "serve"
  BY <1>1 DEF ReadBody
<1> HIDE DEF r
<1>6. /\ R \in Seq(AnyByte) /\ Len(R) = H + B /\ H \in Nat \ {0} /\ B \in Nat
      /\ r.body \in Seq(AnyByte)
      /\ \A a \in 1..(B + 1) : \A b \in (a - 1)..B : SubSeq(R, H + a, H + b) = SubSeq(r.body, a, b)
  BY <1>4, RequestParts
<1> HIDE DEF R, H, B
<1>7. m \in Nat /\ m < Len(R)
  BY <1>3, <1>6
<1>8. /\ m + n \in 1..Len(R) /\ Len(wire) = Len(R) - m /\ n \in Nat \ {0} /\ n <= left
      /\ SubSeq(wire, 1, n) = SubSeq(R, m + 1, m + n)
      /\ Sent(m + n)'
  <2>1. /\ m + n \in 1..Len(R) /\ Len(wire) = Len(R) - m
        /\ \A a \in 1..(n + 1) : SubSeq(wire, a, n) = SubSeq(R, m + a, m + n)
        /\ Sent(m + n)'
    BY <1>1, <1>3, <1>7, TakeSent DEF r, R
  <2>2. n <= left
    BY DEF ReadBody
  <2>3. n \in Nat \ {0}
    BY <1>6, <1>7, <2>1
  <2> QED
    BY <2>1, <2>2, <2>3
<1> DEFINE a == m - H
           b == m + n - H
           len == Len(R)
<1>9. /\ H \in Nat /\ B \in Nat /\ len = H + B /\ m \in Nat /\ H <= m /\ m < len
       /\ n \in Nat \ {0} /\ m + n <= len /\ left = len - m /\ n <= left /\ left' = left - n
  BY <1>1, <1>3, <1>6, <1>7, <1>8
<1> HIDE DEF len
<1>10. /\ a \in 0..B /\ b \in a..B /\ a + 1 \in 1..(B + 1) /\ b \in (a + 1 - 1)..B
      /\ H + (a + 1) = m + 1 /\ H + b = m + n
  BY <1>9
<1> HIDE DEF a, b
<1>11. piece = SubSeq(r.body, a + 1, b)
  <2>1. SubSeq(R, H + (a + 1), H + b) = SubSeq(r.body, a + 1, b)
    <3>1. PICK u \in 1..(B + 1) : u = a + 1 /\ b \in (u - 1)..B
      BY <1>10
    <3> QED
      BY <1>6, <3>1
  <2>2. H + (a + 1) = m + 1 /\ H + b = m + n
    BY <1>10
  <2>3. SubSeq(wire, 1, n) = SubSeq(R, m + 1, m + n)
    BY <1>8
  <2> QED
    BY <2>1, <2>2, <2>3
<1>12. SubSeq(r.body, 1, a) \o piece = SubSeq(r.body, 1, b)
  <2>1. 1 \in 1..(B + 1) /\ a \in (1 - 1)..B /\ b \in a..B
    BY <1>6, <1>10
  <2> QED
    BY <1>6, <1>11, <2>1, ConcatAdjacentSubSeq DEF B
<1>13. req = [p.m_data EXCEPT !.body = SubSeq(r.body, 1, b)]
  BY <1>3, <1>12 DEF a
<1> HIDE DEF req, piece
<1>14. CASE n < left
  <2>1. m + n \in H..(Len(R) - 1) /\ left' = Len(R) - (m + n)
    BY <1>9, <1>14 DEF len
  <2>2. st' = "body" /\ p' = [p EXCEPT !.m_data = req]
    BY <1>5, <1>14
  <2>3. "m_data" \in DOMAIN p' /\ p'.m_data = req
    BY <1>3, <2>2
  <2>4. /\ "body" \in DOMAIN p'.m_data /\ p'.m_data.body = SubSeq(r.body, 1, b)
        /\ [p'.m_data EXCEPT !.body = r.body] = [p.m_data EXCEPT !.body = r.body]
    BY <1>3, <1>13, <2>3
  <2>5. AsSent(InitParam(InitRequest([p'.m_data EXCEPT !.body = r.body])), r.want)
    BY <1>3, <2>4
  <2>6. InBody'
    <3>1. PICK j : j = m + n
      OBVIOUS
    <3>2. Sent(j)'
      BY <1>8, <3>1
    <3>3. j \in H..(Len(R) - 1) /\ left' = Len(R) - j /\ b = j - H
      BY <1>9, <2>1, <3>1 DEF b
    <3> QED
      BY <1>1, <2>3, <2>4, <2>5, <3>2, <3>3 DEF InBody, r, R, H
  <2> QED
    BY <2>2, <2>6 DEF Where
<1>15. CASE ~(n < left)
  <2>1. m + n = Len(R) /\ b = B
    BY <1>9, <1>15 DEF b, len
  <2>2. st' = "serve" /\ p' = [p EXCEPT !.m_data = InitParam(InitRequest(req))]
    BY <1>5, <1>15
  <2>3. p'.m_data = InitParam(InitRequest(req))
    BY <1>3, <2>2
  <2>4. req = [p.m_data EXCEPT !.body = r.body]
    BY <1>6, <1>13, <2>1, SubSeqFull DEF B
  <2>5. wire' = <<>>
    <3>1. wire' = SubSeq(R, m + n + 1, Len(R))
      BY <1>1, <1>8 DEF Sent, r, R
    <3> QED
      BY <1>6, <2>1, <3>1, SubSeqEmpty
  <2>6. AsSent(p'.m_data, r.want)
    BY <1>3, <2>3, <2>4
  <2>7. InServe'
    BY <1>1, <1>4, <2>5, <2>6 DEF InServe, r
  <2> QED
    BY <2>2, <2>7 DEF Where
<1> QED
  BY <1>14, <1>15

LEMMA SessInit == ASSUME NEW mid PROVE Init => SessInv(mid)
<1> SUFFICES ASSUME Init PROVE SessInv(mid)
  OBVIOUS
<1>1. script \in Seq(Requests)
  BY ScriptAssumption DEF Init
<1> QED
  BY <1>1 DEF Init, SessInv, Where, InHead

LEMMA SessStep ==
    ASSUME NEW mid, ParsesByLine(mid) PROVE SessInv(mid) /\ [Next]_vars => SessInv(mid)'
<1> SUFFICES ASSUME SessInv(mid), [Next]_vars PROVE SessInv(mid)'
  OBVIOUS
<1>1. CASE Send
  <2>1. /\ script' = script /\ cuts' = cuts /\ client = "ready" /\ client' = "waiting" /\ script # <<>>
        /\ st' = st /\ p' = p /\ idle' = idle /\ keepAlive' = keepAlive
        /\ wire' = wire \o Request(Head(script)) /\ headLeft' = Len(Head(script).head)
    BY <1>1 DEF Send, sessionVars
  <2>2. ASSUME cuts = 0 PROVE Where(mid)'
    <3>1. st # "body" /\ st # "serve"
      BY <2>1, <2>2 DEF SessInv, Where, InBody, InServe, Sent
    <3>2. ASSUME st = "head" PROVE InHead(mid)'
      <4> DEFINE r == Head(script)
                 R == Request(r)
      <4>1. wire = <<>> /\ \E rel \in BOOLEAN : p = NewParser(rel)
        BY <2>1, <2>2, <3>2 DEF SessInv, Where, InHead, Sent
      <4>2. r \in Requests
        BY <2>1, HeadTailProperties DEF SessInv
      <4>3. R \in Seq(AnyByte) /\ Len(r.head) \in Nat \ {0}
        BY <4>2, RequestParts
      <4>4. wire' = SubSeq(R, 0 + 1, Len(R))
        BY <2>1, <4>1, <4>3, ConcatEmptySeq, SubSeqFull
      <4>5. headLeft' = IF 0 < Len(r.head) THEN Len(r.head) - 0 ELSE 0
        BY <2>1, <4>3
      <4>6. Sent(0)'
        BY <2>1, <4>4, <4>5 DEF Sent
      <4>7. 0 \in Breaks(r) /\ \E rel \in BOOLEAN : p \in mid[r][rel][0]
        BY <4>1, <4>2 DEF Breaks, ParsesByLine
      <4> QED
        BY <2>1, <4>6, <4>7 DEF InHead
    <3> QED
      BY <2>1, <2>2, <3>1, <3>2 DEF SessInv, Where
  <2> QED
    BY <2>1, <2>2 DEF SessInv
<1>2. CASE Leave
  <2>1. /\ script' = script /\ cuts' = cuts /\ wire' = wire /\ headLeft' = headLeft /\ client' = "gone"
        /\ st' = st /\ p' = p /\ left' = left /\ idle' = idle /\ keepAlive' = keepAlive
    BY <1>2 DEF Leave, sessionVars
  <2>2. \A k : Sent(k) => Sent(k)'
    BY <2>1 DEF Sent
  <2>3. ASSUME cuts = 0 PROVE Where(mid)'
    <3>1. st = "head" => InHead(mid)'
      BY <2>1, <2>2, <2>3 DEF SessInv, Where, InHead
    <3>2. st = "body" => InBody'
      BY <2>1, <2>2, <2>3 DEF SessInv, Where, InBody
    <3>3. st = "serve" => InServe'
      BY <2>1, <2>3 DEF SessInv, Where, InServe
    <3> QED
      BY <2>1, <3>1, <3>2, <3>3 DEF Where
  <2> QED
    BY <2>1, <2>3 DEF SessInv
<1>3. ASSUME NEW n \in 1..Len(wire), ReadHead(n) \/ ReadBody(n) PROVE SessInv(mid)'
  <2>1. script' = script /\ client' = client /\ (cuts' = cuts \/ cuts' = cuts + 1)
    BY <1>3 DEF ReadHead, ReadBody, Take
  <2>2. cuts' = 0 => Where(mid)'
    BY <1>3, ReadHeadStep, ReadBodyStep
  <2>3. st' \in {"head", "body", "serve", "closed"}
    BY <1>3 DEF SessInv, ReadHead, ReadBody, Closed, HeadDone
  <2> QED
    BY <2>1, <2>2, <2>3 DEF SessInv
<1>4. CASE EndOfFile \/ Timeout
  <2>1. /\ script' = script /\ cuts' = cuts /\ client' = client /\ st' = "closed"
        /\ client' = "gone" \/ idle'
    BY <1>4 DEF EndOfFile, Timeout, ReadFails, Closed
  <2> QED
    BY <2>1 DEF SessInv, Where
<1>5. CASE Serve
  <2>1. /\ st = "serve" /\ cuts' = cuts /\ wire' = wire /\ keepAlive' = keepAlive
        /\ IF client = "waiting" THEN client' = "ready" /\ script' = Tail(script)
           ELSE client' = client /\ script' = script
        /\ IF keepAlive THEN st' = "head" /\ \E r \in BOOLEAN : p' = NewParser(r)
           ELSE st' = "closed" /\ p' = p
    BY <1>5 DEF Serve
  <2>2. ASSUME cuts = 0 PROVE wire' = <<>> /\ script # <<>> /\ client' # "waiting"
    BY <2>1, <2>2 DEF SessInv, Where, InServe
  <2>3. cuts' = 0 => Where(mid)'
    BY <2>1, <2>2 DEF Where, InHead
  <2>4. script' \in Seq(Requests)
    BY <2>1, HeadTailProperties DEF SessInv
  <2> QED
    BY <2>1, <2>3, <2>4 DEF SessInv
<1>6. CASE UNCHANGED <<netVars, sessionVars>>
  <2>1. /\ script' = script /\ cuts' = cuts /\ wire' = wire /\ headLeft' = headLeft /\ client' = client
        /\ st' = st /\ p' = p /\ left' = left /\ idle' = idle /\ keepAlive' = keepAlive
    BY <1>6 DEF netVars, sessionVars
  <2>2. \A k : Sent(k)' <=> Sent(k)
    BY <2>1 DEF Sent
  <2>3. (InHead(mid)' <=> InHead(mid)) /\ (InServe' <=> InServe)
    BY <2>1, <2>2 DEF InHead, InServe
  <2>4. InBody' <=> InBody
    BY <2>1, <2>2 DEF InBody
  <2> QED
    BY <2>1, <2>3, <2>4 DEF SessInv, Where
<1> QED
  BY <1>1, <1>2, <1>3, <1>4, <1>5, <1>6 DEF Next, Recv, Register, vars

(* recvRequest, given a parser that keeps its contract: for every script   *)
(* of requests, however the bytes are cut into reads at ends of lines, and *)
(* whatever the body's reads are, the servlet is given what was sent.      *)
THEOREM RequestDeliveredHolds ==
    ASSUME NEW mid, ParsesByLine(mid) PROVE Spec => []RequestDelivered
<1>1. Init => SessInv(mid)
  BY SessInit
<1>2. SessInv(mid) /\ [Next]_vars => SessInv(mid)'
  BY SessStep
<1>3. SessInv(mid) => RequestDelivered
  BY DEF SessInv, Where, InServe, RequestDelivered
<1> QED
  BY <1>1, <1>2, <1>3, PTL DEF Spec

(* recvRequest, given such a parser: the connection of a peer that is      *)
(* there, in time and read line by line ends only for m_keepAlive.         *)
THEOREM NoSpuriousCloseHolds ==
    ASSUME NEW mid, ParsesByLine(mid) PROVE Spec => []NoSpuriousClose
<1>1. Init => SessInv(mid)
  BY SessInit
<1>2. SessInv(mid) /\ [Next]_vars => SessInv(mid)'
  BY SessStep
<1>3. SessInv(mid) => NoSpuriousClose
  BY DEF SessInv, Where, NoSpuriousClose
<1> QED
  BY <1>1, <1>2, <1>3, PTL DEF Spec
=============================================================================
