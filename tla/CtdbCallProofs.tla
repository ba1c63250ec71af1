--------------------------- MODULE CtdbCallProofs ---------------------------
(***************************************************************************)
(* In a cluster in which nothing fails every call takes effect exactly     *)
(* once: the cluster implements CtdbRecord, for any number of records.     *)
(***************************************************************************)
EXTENDS CtdbClusterProofs

-----------------------------------------------------------------------------
(* Packets on the way *)

Queues == [Node -> [Node -> Seq(Packet)]]
Parkings == [Node -> Seq(Parked)]

\* Where a packet on the way is.
LEMMA Places ==
    ASSUME NEW ch, NEW df, NEW d
    PROVE  d \in OnTheWay(ch, df) <=>
             \/ \E a, b \in Node : \E i \in DOMAIN ch[a][b] : d = <<ch[a][b][i], b>>
             \/ \E b \in Node : \E i \in DOMAIN df[b] : d = <<df[b][i].pkt, b>>
<1> DEFINE C == UNION {UNION {{<<ch[a][b][i], b>> : i \in DOMAIN ch[a][b]} : b \in Node} : a \in Node}
           P == UNION {{<<df[b][i].pkt, b>> : i \in DOMAIN df[b]} : b \in Node}
<1>1. d \in C <=> \E a, b \in Node : \E i \in DOMAIN ch[a][b] : d = <<ch[a][b][i], b>>
  <2>1. ASSUME d \in C
        PROVE  \E a, b \in Node : \E i \in DOMAIN ch[a][b] : d = <<ch[a][b][i], b>>
    BY <2>1
  <2>2. ASSUME NEW a \in Node, NEW b \in Node, NEW i \in DOMAIN ch[a][b], d = <<ch[a][b][i], b>>
        PROVE  d \in C
    <3>1. d \in {<<ch[a][b][j], b>> : j \in DOMAIN ch[a][b]}
      BY <2>2
    <3>2. d \in UNION {{<<ch[a][e][j], e>> : j \in DOMAIN ch[a][e]} : e \in Node}
      BY <3>1
    <3> QED BY <3>2
  <2> QED BY <2>1, <2>2
<1>2. d \in P <=> \E b \in Node : \E i \in DOMAIN df[b] : d = <<df[b][i].pkt, b>>
  <2>1. ASSUME d \in P
        PROVE  \E b \in Node : \E i \in DOMAIN df[b] : d = <<df[b][i].pkt, b>>
    BY <2>1
  <2>2. ASSUME NEW b \in Node, NEW i \in DOMAIN df[b], d = <<df[b][i].pkt, b>> PROVE d \in P
    BY <2>2
  <2> QED BY <2>1, <2>2
<1>3. OnTheWay(ch, df) = C \cup P
  BY DEF OnTheWay
<1> HIDE DEF C, P
<1> QED BY <1>1, <1>2, <1>3

\* The packets in queues and the parked ones are on the way.
LEMMA ArePlaces ==
    ASSUME NEW ch, NEW df
    PROVE  /\ \A a, b \in Node : \A i \in DOMAIN ch[a][b] : <<ch[a][b][i], b>> \in OnTheWay(ch, df)
           /\ \A b \in Node : \A i \in DOMAIN df[b] : <<df[b][i].pkt, b>> \in OnTheWay(ch, df)
<1>1. ASSUME NEW a \in Node, NEW b \in Node, NEW i \in DOMAIN ch[a][b]
      PROVE  <<ch[a][b][i], b>> \in OnTheWay(ch, df)
  BY Places
<1>2. ASSUME NEW b \in Node, NEW i \in DOMAIN df[b]
      PROVE  <<df[b][i].pkt, b>> \in OnTheWay(ch, df)
  BY Places
<1> QED BY <1>1, <1>2

\* What is left of T once d is taken out of the queues: ch and df are left.
Left(T, ch, df, d) == AtMostOne(T, ch, df) /\ (d \in T => ~ Present(T, ch, df))

\* t is s without its element h; g says where those that are left came from.
Lacks(t, s, h, g) ==
    /\ h \in DOMAIN s
    /\ \A j \in DOMAIN t : g[j] \in DOMAIN s /\ g[j] # h /\ t[j] = s[g[j]]
    /\ \A i, j \in DOMAIN t : g[i] = g[j] => i = j
    /\ \A i \in DOMAIN s : i # h => \E j \in DOMAIN t : g[j] = i

\* Taking packet h out of a queue.
LEMMA TakeQueued ==
    ASSUME NEW ch, NEW df, NEW c2, NEW m \in Node, NEW n \in Node, NEW h, NEW g,
           Lacks(c2[m][n], ch[m][n], h, g),
           \A x, y \in Node : x # m \/ y # n => c2[x][y] = ch[x][y],
           NEW d, d = <<ch[m][n][h], n>>
    PROVE  /\ OnTheWay(ch, df) = OnTheWay(c2, df) \cup {d}
           /\ \A T : AtMostOne(T, ch, df) => Left(T, c2, df, d)
<1>a. /\ h \in DOMAIN ch[m][n]
      /\ \A j \in DOMAIN c2[m][n] :
            g[j] \in DOMAIN ch[m][n] /\ g[j] # h /\ c2[m][n][j] = ch[m][n][g[j]]
      /\ \A i, j \in DOMAIN c2[m][n] : g[i] = g[j] => i = j
      /\ \A i \in DOMAIN ch[m][n] : i # h => \E j \in DOMAIN c2[m][n] : g[j] = i
  BY DEF Lacks
<1> USE <1>a
<1>1. ASSUME NEW x \in Node, NEW y \in Node, NEW j \in DOMAIN c2[x][y]
      PROVE  \E i \in DOMAIN ch[x][y] :
                /\ c2[x][y][j] = ch[x][y][i]
                /\ x = m /\ y = n => i = g[j] /\ i # h
                /\ x # m \/ y # n => i = j
  <2>1. CASE x = m /\ y = n
    BY <2>1
  <2>2. CASE x # m \/ y # n
    BY <2>2
  <2> QED BY <2>1, <2>2
<1>2. ASSUME NEW x \in Node, NEW y \in Node, NEW i \in DOMAIN ch[x][y], x # m \/ y # n \/ i # h
      PROVE  \E j \in DOMAIN c2[x][y] : c2[x][y][j] = ch[x][y][i]
  <2>1. CASE x = m /\ y = n
    <3>1. i \in DOMAIN ch[m][n] /\ i # h
      BY <1>2, <2>1
    <3>2. PICK j \in DOMAIN c2[m][n] : g[j] = i
      BY <3>1
    <3>3. c2[m][n][j] = ch[m][n][i]
      BY <3>2
    <3> QED BY <2>1, <3>3
  <2>2. CASE x # m \/ y # n
    BY <2>2
  <2> QED BY <2>1, <2>2
<1>3. ASSUME NEW e \in OnTheWay(ch, df) PROVE e \in OnTheWay(c2, df) \cup {d}
  <2>1. ASSUME NEW a \in Node, NEW b \in Node, NEW i \in DOMAIN ch[a][b], e = <<ch[a][b][i], b>>
        PROVE  e \in OnTheWay(c2, df) \cup {d}
    <3>1. CASE a = m /\ b = n /\ i = h
      BY <2>1, <3>1
    <3>2. CASE a # m \/ b # n \/ i # h
      <4>1. PICK j \in DOMAIN c2[a][b] : c2[a][b][j] = ch[a][b][i]
        BY <1>2, <3>2
      <4>2. <<c2[a][b][j], b>> \in OnTheWay(c2, df)
        BY ArePlaces
      <4> QED BY <2>1, <4>1, <4>2
    <3> QED BY <3>1, <3>2
  <2>2. ASSUME NEW b \in Node, NEW i \in DOMAIN df[b], e = <<df[b][i].pkt, b>>
        PROVE  e \in OnTheWay(c2, df) \cup {d}
    BY <2>2, ArePlaces
  <2>3. \/ \E a, b \in Node : \E i \in DOMAIN ch[a][b] : e = <<ch[a][b][i], b>>
        \/ \E b \in Node : \E i \in DOMAIN df[b] : e = <<df[b][i].pkt, b>>
    BY <1>3, Places
  <2> QED BY <2>1, <2>2, <2>3
<1>4. ASSUME NEW e \in OnTheWay(c2, df) PROVE e \in OnTheWay(ch, df)
  <2>1. ASSUME NEW a \in Node, NEW b \in Node, NEW i \in DOMAIN c2[a][b], e = <<c2[a][b][i], b>>
        PROVE  e \in OnTheWay(ch, df)
    BY <1>1, <2>1, ArePlaces
  <2>2. ASSUME NEW b \in Node, NEW i \in DOMAIN df[b], e = <<df[b][i].pkt, b>>
        PROVE  e \in OnTheWay(ch, df)
    BY <2>2, ArePlaces
  <2>3. \/ \E a, b \in Node : \E i \in DOMAIN c2[a][b] : e = <<c2[a][b][i], b>>
        \/ \E b \in Node : \E i \in DOMAIN df[b] : e = <<df[b][i].pkt, b>>
    BY <1>4, Places
  <2> QED BY <2>1, <2>2, <2>3
<1>5. d \in OnTheWay(ch, df)
  BY ArePlaces
<1>6. ASSUME NEW T, AtMostOne(T, ch, df) PROVE AtMostOne(T, c2, df)
  <2>1. ASSUME NEW a \in Node, NEW b \in Node, NEW i \in DOMAIN c2[a][b], <<c2[a][b][i], b>> \in T
        PROVE OnlyQueued(T, c2, a, b, i) /\ NoneOfParked(T, df)
    <3>1. PICK u \in DOMAIN ch[a][b] :
                /\ c2[a][b][i] = ch[a][b][u]
                /\ a = m /\ b = n => u = g[i] /\ u # h
                /\ a # m \/ b # n => u = i
      BY <1>1
    <3>2. OnlyQueued(T, ch, a, b, u) /\ NoneOfParked(T, df)
      BY <1>6, <2>1, <3>1 DEF AtMostOne
    <3>3. ASSUME NEW x \in Node, NEW y \in Node, NEW j \in DOMAIN c2[x][y], <<c2[x][y][j], y>> \in T
          PROVE  x = a /\ y = b /\ j = i
      <4>1. PICK v \in DOMAIN ch[x][y] :
                /\ c2[x][y][j] = ch[x][y][v]
                /\ x = m /\ y = n => v = g[j] /\ v # h
                /\ x # m \/ y # n => v = j
        BY <1>1
      <4>2. x = a /\ y = b /\ u = v
        BY <3>2, <3>3, <4>1 DEF OnlyQueued
      <4>3. CASE a = m /\ b = n
        <5>1. g[i] = g[j] /\ i \in DOMAIN c2[m][n] /\ j \in DOMAIN c2[m][n]
          BY <3>1, <4>1, <4>2, <4>3
        <5> QED BY <4>2, <5>1
      <4>4. CASE a # m \/ b # n
        BY <3>1, <4>1, <4>2, <4>4
      <4> QED BY <4>3, <4>4
    <3> QED BY <3>2, <3>3 DEF OnlyQueued
  <2> QED BY <1>6, <2>1 DEF AtMostOne
<1>7. ASSUME NEW T, AtMostOne(T, ch, df), d \in T, NEW e \in OnTheWay(c2, df), e \in T
      PROVE FALSE
  <2>a. OnlyQueued(T, ch, m, n, h) /\ NoneOfParked(T, df)
    BY <1>7 DEF AtMostOne
  <2>1. ASSUME NEW b \in Node, NEW i \in DOMAIN df[b], e = <<df[b][i].pkt, b>> PROVE FALSE
    BY <1>7, <2>1, <2>a DEF NoneOfParked
  <2>2. ASSUME NEW a \in Node, NEW b \in Node, NEW i \in DOMAIN c2[a][b], e = <<c2[a][b][i], b>>
        PROVE FALSE
    <3>1. PICK u \in DOMAIN ch[a][b] :
                /\ c2[a][b][i] = ch[a][b][u]
                /\ a = m /\ b = n => u = g[i] /\ u # h
                /\ a # m \/ b # n => u = i
      BY <1>1
    <3>2. <<ch[a][b][u], b>> \in T
      BY <1>7, <2>2, <3>1
    <3>3. a = m /\ b = n /\ u = h
      BY <2>a, <3>2 DEF OnlyQueued
    <3> QED BY <3>1, <3>3
  <2>3. \/ \E a, b \in Node : \E i \in DOMAIN c2[a][b] : e = <<c2[a][b][i], b>>
        \/ \E b \in Node : \E i \in DOMAIN df[b] : e = <<df[b][i].pkt, b>>
    BY <1>7, Places
  <2> QED BY <2>1, <2>2, <2>3
<1> QED BY <1>3, <1>4, <1>5, <1>6, <1>7 DEF Left, Present

\* Taking parked packet h.
LEMMA TakeParked ==
    ASSUME NEW ch, NEW df, NEW d2, NEW n \in Node, NEW h, NEW g,
           Lacks(d2[n], df[n], h, g),
           \A y \in Node : y # n => d2[y] = df[y],
           NEW d, d = <<df[n][h].pkt, n>>
    PROVE  /\ OnTheWay(ch, df) = OnTheWay(ch, d2) \cup {d}
           /\ \A T : AtMostOne(T, ch, df) => Left(T, ch, d2, d)
<1>a. /\ h \in DOMAIN df[n]
      /\ \A j \in DOMAIN d2[n] : g[j] \in DOMAIN df[n] /\ g[j] # h /\ d2[n][j] = df[n][g[j]]
      /\ \A i, j \in DOMAIN d2[n] : g[i] = g[j] => i = j
      /\ \A i \in DOMAIN df[n] : i # h => \E j \in DOMAIN d2[n] : g[j] = i
  BY DEF Lacks
<1> USE <1>a
<1>1. ASSUME NEW y \in Node, NEW j \in DOMAIN d2[y]
      PROVE  \E i \in DOMAIN df[y] :
                /\ d2[y][j] = df[y][i]
                /\ y = n => i = g[j] /\ i # h
                /\ y # n => i = j
  <2>1. CASE y = n
    BY <2>1
  <2>2. CASE y # n
    BY <2>2
  <2> QED BY <2>1, <2>2
<1>2. ASSUME NEW y \in Node, NEW i \in DOMAIN df[y], y # n \/ i # h
      PROVE  \E j \in DOMAIN d2[y] : d2[y][j] = df[y][i]
  <2>1. CASE y = n
    <3>1. i \in DOMAIN df[n] /\ i # h
      BY <1>2, <2>1
    <3>2. PICK j \in DOMAIN d2[n] : g[j] = i
      BY <3>1
    <3>3. d2[n][j] = df[n][i]
      BY <3>2
    <3> QED BY <2>1, <3>3
  <2>2. CASE y # n
    BY <2>2
  <2> QED BY <2>1, <2>2
<1>3. ASSUME NEW e \in OnTheWay(ch, df) PROVE e \in OnTheWay(ch, d2) \cup {d}
  <2>1. ASSUME NEW b \in Node, NEW i \in DOMAIN df[b], e = <<df[b][i].pkt, b>>
        PROVE  e \in OnTheWay(ch, d2) \cup {d}
    <3>1. CASE b = n /\ i = h
      BY <2>1, <3>1
    <3>2. CASE b # n \/ i # h
      <4>1. PICK j \in DOMAIN d2[b] : d2[b][j] = df[b][i]
        BY <1>2, <3>2
      <4>2. <<d2[b][j].pkt, b>> \in OnTheWay(ch, d2)
        BY ArePlaces
      <4> QED BY <2>1, <4>1, <4>2
    <3> QED BY <3>1, <3>2
  <2>2. ASSUME NEW a \in Node, NEW b \in Node, NEW i \in DOMAIN ch[a][b], e = <<ch[a][b][i], b>>
        PROVE  e \in OnTheWay(ch, d2) \cup {d}
    BY <2>2, ArePlaces
  <2>3. \/ \E a, b \in Node : \E i \in DOMAIN ch[a][b] : e = <<ch[a][b][i], b>>
        \/ \E b \in Node : \E i \in DOMAIN df[b] : e = <<df[b][i].pkt, b>>
    BY <1>3, Places
  <2> QED BY <2>1, <2>2, <2>3
<1>4. ASSUME NEW e \in OnTheWay(ch, d2) PROVE e \in OnTheWay(ch, df)
  <2>1. ASSUME NEW b \in Node, NEW i \in DOMAIN d2[b], e = <<d2[b][i].pkt, b>>
        PROVE  e \in OnTheWay(ch, df)
    <3>1. PICK u \in DOMAIN df[b] : d2[b][i] = df[b][u]
      BY <1>1
    <3> QED BY <2>1, <3>1, ArePlaces
  <2>2. ASSUME NEW a \in Node, NEW b \in Node, NEW i \in DOMAIN ch[a][b], e = <<ch[a][b][i], b>>
        PROVE  e \in OnTheWay(ch, df)
    BY <2>2, ArePlaces
  <2>3. \/ \E a, b \in Node : \E i \in DOMAIN ch[a][b] : e = <<ch[a][b][i], b>>
        \/ \E b \in Node : \E i \in DOMAIN d2[b] : e = <<d2[b][i].pkt, b>>
    BY <1>4, Places
  <2> QED BY <2>1, <2>2, <2>3
<1>5. d \in OnTheWay(ch, df)
  BY ArePlaces
<1>6. ASSUME NEW T, AtMostOne(T, ch, df) PROVE AtMostOne(T, ch, d2)
  <2>1. ASSUME NEW b \in Node, NEW i \in DOMAIN d2[b], <<d2[b][i].pkt, b>> \in T
        PROVE OnlyOneParked(T, d2, b, i)
    <3>1. PICK u \in DOMAIN df[b] :
                /\ d2[b][i] = df[b][u]
                /\ b = n => u = g[i] /\ u # h
                /\ b # n => u = i
      BY <1>1
    <3>2. OnlyOneParked(T, df, b, u)
      BY <1>6, <2>1, <3>1 DEF AtMostOne
    <3>3. ASSUME NEW y \in Node, NEW j \in DOMAIN d2[y], <<d2[y][j].pkt, y>> \in T
          PROVE  y = b /\ j = i
      <4>1. PICK v \in DOMAIN df[y] :
                /\ d2[y][j] = df[y][v]
                /\ y = n => v = g[j] /\ v # h
                /\ y # n => v = j
        BY <1>1
      <4>2. y = b /\ u = v
        BY <3>2, <3>3, <4>1 DEF OnlyOneParked
      <4>3. CASE b = n
        <5>1. g[i] = g[j] /\ i \in DOMAIN d2[n] /\ j \in DOMAIN d2[n]
          BY <3>1, <4>1, <4>2, <4>3
        <5> QED BY <4>2, <5>1
      <4>4. CASE b # n
        BY <3>1, <4>1, <4>2, <4>4
      <4> QED BY <4>3, <4>4
    <3> QED BY <3>3 DEF OnlyOneParked
  <2>2. ASSUME NoneOfParked(T, df) PROVE NoneOfParked(T, d2)
    BY <1>1, <2>2 DEF NoneOfParked
  <2> QED BY <1>6, <2>1, <2>2 DEF AtMostOne
<1>7. ASSUME NEW T, AtMostOne(T, ch, df), d \in T, NEW e \in OnTheWay(ch, d2), e \in T
      PROVE FALSE
  <2>a. OnlyOneParked(T, df, n, h)
    BY <1>7 DEF AtMostOne
  <2>1. ASSUME NEW a \in Node, NEW b \in Node, NEW i \in DOMAIN ch[a][b], e = <<ch[a][b][i], b>>
        PROVE FALSE
    <3>1. NoneOfParked(T, df)
      BY <1>7, <2>1 DEF AtMostOne
    <3> QED BY <1>7, <3>1 DEF NoneOfParked
  <2>2. ASSUME NEW b \in Node, NEW i \in DOMAIN d2[b], e = <<d2[b][i].pkt, b>>
        PROVE FALSE
    <3>1. PICK u \in DOMAIN df[b] :
                /\ d2[b][i] = df[b][u]
                /\ b = n => u = g[i] /\ u # h
                /\ b # n => u = i
      BY <1>1
    <3>2. <<df[b][u].pkt, b>> \in T
      BY <1>7, <2>2, <3>1
    <3>3. b = n /\ u = h
      BY <2>a, <3>2 DEF OnlyOneParked
    <3> QED BY <3>1, <3>3
  <2>3. \/ \E a, b \in Node : \E i \in DOMAIN ch[a][b] : e = <<ch[a][b][i], b>>
        \/ \E b \in Node : \E i \in DOMAIN d2[b] : e = <<d2[b][i].pkt, b>>
    BY <1>7, Places
  <2> QED BY <2>1, <2>2, <2>3
<1> QED BY <1>3, <1>4, <1>5, <1>6, <1>7 DEF Left, Present

\* t is s with one more element q, the h-th.
Gains(t, s, h, q) ==
    /\ h \notin DOMAIN s /\ DOMAIN t = DOMAIN s \cup {h}
    /\ \A j \in DOMAIN s : t[j] = s[j]
    /\ t[h] = q

\* Sending a packet.
LEMMA AddQueued ==
    ASSUME NEW ch, NEW df, NEW c2, NEW m \in Node, NEW n \in Node, NEW h, NEW q,
           Gains(c2[m][n], ch[m][n], h, q),
           \A x, y \in Node : x # m \/ y # n => c2[x][y] = ch[x][y]
    PROVE  /\ OnTheWay(c2, df) = OnTheWay(ch, df) \cup {<<q, n>>}
           /\ \A T : Left(T, ch, df, <<q, n>>) => AtMostOne(T, c2, df)
<1>a. /\ h \notin DOMAIN ch[m][n] /\ DOMAIN c2[m][n] = DOMAIN ch[m][n] \cup {h}
      /\ \A j \in DOMAIN ch[m][n] : c2[m][n][j] = ch[m][n][j]
      /\ c2[m][n][h] = q
  BY DEF Gains
<1> USE <1>a
<1>1. ASSUME NEW x \in Node, NEW y \in Node, NEW j \in DOMAIN c2[x][y]
      PROVE  \/ x = m /\ y = n /\ j = h /\ c2[x][y][j] = q
             \/ j \in DOMAIN ch[x][y] /\ c2[x][y][j] = ch[x][y][j]
  <2>1. CASE x = m /\ y = n
    BY <2>1
  <2>2. CASE x # m \/ y # n
    BY <2>2
  <2> QED BY <2>1, <2>2
<1>2. ASSUME NEW x \in Node, NEW y \in Node, NEW j \in DOMAIN ch[x][y]
      PROVE  j \in DOMAIN c2[x][y] /\ c2[x][y][j] = ch[x][y][j]
  <2>1. CASE x = m /\ y = n
    BY <2>1
  <2>2. CASE x # m \/ y # n
    BY <2>2
  <2> QED BY <2>1, <2>2
<1>3. ASSUME NEW e \in OnTheWay(c2, df) PROVE e \in OnTheWay(ch, df) \cup {<<q, n>>}
  <2>1. ASSUME NEW a \in Node, NEW b \in Node, NEW i \in DOMAIN c2[a][b], e = <<c2[a][b][i], b>>
        PROVE  e \in OnTheWay(ch, df) \cup {<<q, n>>}
    BY <1>1, <2>1, ArePlaces
  <2>2. ASSUME NEW b \in Node, NEW i \in DOMAIN df[b], e = <<df[b][i].pkt, b>>
        PROVE  e \in OnTheWay(ch, df) \cup {<<q, n>>}
    BY <2>2, ArePlaces
  <2>3. \/ \E a, b \in Node : \E i \in DOMAIN c2[a][b] : e = <<c2[a][b][i], b>>
        \/ \E b \in Node : \E i \in DOMAIN df[b] : e = <<df[b][i].pkt, b>>
    BY <1>3, Places
  <2> QED BY <2>1, <2>2, <2>3
<1>4. ASSUME NEW e \in OnTheWay(ch, df) PROVE e \in OnTheWay(c2, df)
  <2>1. ASSUME NEW a \in Node, NEW b \in Node, NEW i \in DOMAIN ch[a][b], e = <<ch[a][b][i], b>>
        PROVE  e \in OnTheWay(c2, df)
    <3>1. <<c2[a][b][i], b>> \in OnTheWay(c2, df)
      BY <1>2, ArePlaces
    <3> QED BY <1>2, <2>1, <3>1
  <2>2. ASSUME NEW b \in Node, NEW i \in DOMAIN df[b], e = <<df[b][i].pkt, b>>
        PROVE  e \in OnTheWay(c2, df)
    BY <2>2, ArePlaces
  <2>3. \/ \E a, b \in Node : \E i \in DOMAIN ch[a][b] : e = <<ch[a][b][i], b>>
        \/ \E b \in Node : \E i \in DOMAIN df[b] : e = <<df[b][i].pkt, b>>
    BY <1>4, Places
  <2> QED BY <2>1, <2>2, <2>3
<1>5. <<q, n>> \in OnTheWay(c2, df)
  <2>1. h \in DOMAIN c2[m][n] /\ <<c2[m][n][h], n>> \in OnTheWay(c2, df)
    BY ArePlaces
  <2> QED BY <2>1
<1>6. ASSUME NEW T, Left(T, ch, df, <<q, n>>) PROVE AtMostOne(T, c2, df)
  <2>0. AtMostOne(T, ch, df)
    BY <1>6 DEF Left
  <2>1. ASSUME NEW a \in Node, NEW b \in Node, NEW i \in DOMAIN c2[a][b], <<c2[a][b][i], b>> \in T
        PROVE OnlyQueued(T, c2, a, b, i) /\ NoneOfParked(T, df)
    <3>1. CASE <<q, n>> \in T
      <4>1. \A d \in OnTheWay(ch, df) : d \notin T
        BY <1>6, <3>1 DEF Left, Present
      <4>2. NoneOfParked(T, df)
        BY <4>1, ArePlaces DEF NoneOfParked
      <4>3. \A x, y \in Node : \A j \in DOMAIN c2[x][y] :
              <<c2[x][y][j], y>> \in T => x = m /\ y = n /\ j = h
        BY <1>1, <4>1, ArePlaces
      <4>4. a = m /\ b = n /\ i = h
        BY <2>1, <4>3
      <4> QED BY <4>2, <4>3, <4>4 DEF OnlyQueued
    <3>2. CASE <<q, n>> \notin T
      <4>1. i \in DOMAIN ch[a][b] /\ <<ch[a][b][i], b>> \in T
        BY <1>1, <2>1, <3>2
      <4>2. OnlyQueued(T, ch, a, b, i) /\ NoneOfParked(T, df)
        BY <2>0, <4>1 DEF AtMostOne
      <4>3. ASSUME NEW x \in Node, NEW y \in Node, NEW j \in DOMAIN c2[x][y],
                   <<c2[x][y][j], y>> \in T
            PROVE  x = a /\ y = b /\ j = i
        <5>1. j \in DOMAIN ch[x][y] /\ <<ch[x][y][j], y>> \in T
          BY <1>1, <3>2, <4>3
        <5> QED BY <4>2, <5>1 DEF OnlyQueued
      <4> QED BY <4>2, <4>3 DEF OnlyQueued
    <3> QED BY <3>1, <3>2
  <2> QED BY <2>0, <2>1 DEF AtMostOne
<1> QED BY <1>3, <1>4, <1>5, <1>6

\* Parking a packet.
LEMMA AddParked ==
    ASSUME NEW ch, NEW df, NEW d2, NEW n \in Node, NEW h, NEW e0,
           Gains(d2[n], df[n], h, e0),
           \A y \in Node : y # n => d2[y] = df[y]
    PROVE  /\ OnTheWay(ch, d2) = OnTheWay(ch, df) \cup {<<e0.pkt, n>>}
           /\ \A T : Left(T, ch, df, <<e0.pkt, n>>) => AtMostOne(T, ch, d2)
<1>a. /\ h \notin DOMAIN df[n] /\ DOMAIN d2[n] = DOMAIN df[n] \cup {h}
      /\ \A j \in DOMAIN df[n] : d2[n][j] = df[n][j]
      /\ d2[n][h] = e0
  BY DEF Gains
<1> USE <1>a
<1> DEFINE q == e0.pkt
<1>1. ASSUME NEW y \in Node, NEW j \in DOMAIN d2[y]
      PROVE  \/ y = n /\ j = h /\ d2[y][j].pkt = q
             \/ j \in DOMAIN df[y] /\ d2[y][j] = df[y][j]
  <2>1. CASE y = n
    BY <2>1
  <2>2. CASE y # n
    BY <2>2
  <2> QED BY <2>1, <2>2
<1>2. ASSUME NEW y \in Node, NEW j \in DOMAIN df[y]
      PROVE  j \in DOMAIN d2[y] /\ d2[y][j] = df[y][j]
  <2>1. CASE y = n
    BY <2>1
  <2>2. CASE y # n
    BY <2>2
  <2> QED BY <2>1, <2>2
<1>3. ASSUME NEW e \in OnTheWay(ch, d2) PROVE e \in OnTheWay(ch, df) \cup {<<q, n>>}
  <2>1. ASSUME NEW b \in Node, NEW i \in DOMAIN d2[b], e = <<d2[b][i].pkt, b>>
        PROVE  e \in OnTheWay(ch, df) \cup {<<q, n>>}
    BY <1>1, <2>1, ArePlaces
  <2>2. ASSUME NEW a \in Node, NEW b \in Node, NEW i \in DOMAIN ch[a][b], e = <<ch[a][b][i], b>>
        PROVE  e \in OnTheWay(ch, df) \cup {<<q, n>>}
    BY <2>2, ArePlaces
  <2>3. \/ \E a, b \in Node : \E i \in DOMAIN ch[a][b] : e = <<ch[a][b][i], b>>
        \/ \E b \in Node : \E i \in DOMAIN d2[b] : e = <<d2[b][i].pkt, b>>
    BY <1>3, Places
  <2> QED BY <2>1, <2>2, <2>3
<1>4. ASSUME NEW e \in OnTheWay(ch, df) PROVE e \in OnTheWay(ch, d2)
  <2>1. ASSUME NEW b \in Node, NEW i \in DOMAIN df[b], e = <<df[b][i].pkt, b>>
        PROVE  e \in OnTheWay(ch, d2)
    <3>1. <<d2[b][i].pkt, b>> \in OnTheWay(ch, d2)
      BY <1>2, ArePlaces
    <3> QED BY <1>2, <2>1, <3>1
  <2>2. ASSUME NEW a \in Node, NEW b \in Node, NEW i \in DOMAIN ch[a][b], e = <<ch[a][b][i], b>>
        PROVE  e \in OnTheWay(ch, d2)
    BY <2>2, ArePlaces
  <2>3. \/ \E a, b \in Node : \E i \in DOMAIN ch[a][b] : e = <<ch[a][b][i], b>>
        \/ \E b \in Node : \E i \in DOMAIN df[b] : e = <<df[b][i].pkt, b>>
    BY <1>4, Places
  <2> QED BY <2>1, <2>2, <2>3
<1>5. <<q, n>> \in OnTheWay(ch, d2)
  <2>1. h \in DOMAIN d2[n] /\ <<d2[n][h].pkt, n>> \in OnTheWay(ch, d2)
    BY ArePlaces
  <2> QED BY <2>1
<1>6. ASSUME NEW T, Left(T, ch, df, <<q, n>>) PROVE AtMostOne(T, ch, d2)
  <2>0. AtMostOne(T, ch, df)
    BY <1>6 DEF Left
  <2>1. CASE <<q, n>> \in T
    <3>1. \A d \in OnTheWay(ch, df) : d \notin T
      BY <1>6, <2>1 DEF Left, Present
    <3>2. \A a, b \in Node : \A i \in DOMAIN ch[a][b] : <<ch[a][b][i], b>> \notin T
      BY <3>1, ArePlaces
    <3>3. \A y \in Node : \A j \in DOMAIN d2[y] : <<d2[y][j].pkt, y>> \in T => y = n /\ j = h
      BY <1>1, <3>1, ArePlaces
    <3>4. ASSUME NEW b \in Node, NEW i \in DOMAIN d2[b], <<d2[b][i].pkt, b>> \in T
          PROVE  OnlyOneParked(T, d2, b, i)
      <4>1. b = n /\ i = h
        BY <3>3, <3>4
      <4> QED BY <3>3, <4>1 DEF OnlyOneParked
    <3> QED BY <3>2, <3>4 DEF AtMostOne
  <2>2. CASE <<q, n>> \notin T
    <3>1. \A y \in Node : \A j \in DOMAIN d2[y] :
            <<d2[y][j].pkt, y>> \in T => j \in DOMAIN df[y] /\ <<df[y][j].pkt, y>> \in T
      BY <1>1, <2>2
    <3>2. NoneOfParked(T, df) => NoneOfParked(T, d2)
      BY <3>1 DEF NoneOfParked
    <3>3. \A b \in Node : \A i \in DOMAIN d2[b] :
            <<d2[b][i].pkt, b>> \in T => OnlyOneParked(T, d2, b, i)
      <4> SUFFICES ASSUME NEW b \in Node, NEW i \in DOMAIN d2[b], <<d2[b][i].pkt, b>> \in T
                   PROVE  OnlyOneParked(T, d2, b, i)
        OBVIOUS
      <4>1. OnlyOneParked(T, df, b, i)
        BY <2>0, <3>1 DEF AtMostOne
      <4> QED BY <3>1, <4>1 DEF OnlyOneParked
    <3> QED BY <2>0, <3>2, <3>3 DEF AtMostOne
  <2> QED BY <2>1, <2>2
<1> QED BY <1>3, <1>4, <1>5, <1>6

-----------------------------------------------------------------------------
(* The four things a daemon does to its queues *)

\* ctdb_recv_pkt takes the first packet of a connection.
LEMMA ReadPacket ==
    ASSUME NEW ch \in Queues, NEW df, NEW m \in Node, NEW n \in Node, ch[m][n] # <<>>
    PROVE  LET c2 == [ch EXCEPT ![m][n] = Tail(@)]
               d == <<Head(ch[m][n]), n>>
           IN  /\ OnTheWay(ch, df) = OnTheWay(c2, df) \cup {d}
               /\ \A T : AtMostOne(T, ch, df) => Left(T, c2, df, d)
<1> DEFINE c2 == [ch EXCEPT ![m][n] = Tail(@)]
           s == ch[m][n]
           t == Tail(s)
           g == [i \in DOMAIN t |-> i + 1]
<1>1. s \in Seq(Packet) /\ s # <<>>
  BY DEF Queues
<1>2. /\ Len(s) \in Nat /\ Len(s) > 0 /\ DOMAIN s = 1..Len(s) /\ Head(s) = s[1]
      /\ DOMAIN t = 1..Len(s) - 1 /\ \A i \in 1..Len(s) - 1 : t[i] = s[i + 1]
  BY <1>1
<1>3. c2[m][n] = t /\ \A x, y \in Node : x # m \/ y # n => c2[x][y] = ch[x][y]
  BY DEF Queues
<1> HIDE DEF s, t, c2
<1>4. 1 \in DOMAIN s
  BY <1>2
<1>5. \A j \in DOMAIN t : g[j] \in DOMAIN s /\ g[j] # 1 /\ t[j] = s[g[j]]
  BY <1>2
<1>6. \A i, j \in DOMAIN t : g[i] = g[j] => i = j
  BY <1>2
<1>7. ASSUME NEW i \in DOMAIN s, i # 1 PROVE \E j \in DOMAIN t : g[j] = i
  <2>1. i - 1 \in DOMAIN t /\ g[i - 1] = i
    BY <1>2, <1>7
  <2> QED BY <2>1
<1> HIDE DEF g
<1>8. c2[m][n] = t /\ ch[m][n] = s
  BY <1>3 DEF s
<1>9. /\ OnTheWay(ch, df) = OnTheWay(c2, df) \cup {<<Head(s), n>>}
      /\ \A T : AtMostOne(T, ch, df) => Left(T, c2, df, <<Head(s), n>>)
  <2>1. Lacks(c2[m][n], ch[m][n], 1, g)
    BY <1>4, <1>5, <1>6, <1>7, <1>8 DEF Lacks
  <2>2. ch[m][n][1] = Head(s)
    BY <1>2, <1>8
  <2>3. /\ OnTheWay(ch, df) = OnTheWay(c2, df) \cup {<<ch[m][n][1], n>>}
        /\ \A T : AtMostOne(T, ch, df) => Left(T, c2, df, <<ch[m][n][1], n>>)
    BY <1>3, <2>1, TakeQueued
  <2> HIDE DEF Left
  <2> QED BY <2>2, <2>3
<1> QED BY <1>9 DEF c2, s

\* lock_fetch_callback takes a parked packet.
LEMMA UnparkPacket ==
    ASSUME NEW ch, NEW df \in Parkings, NEW n \in Node, NEW h \in DOMAIN df[n]
    PROVE  LET d2 == [df EXCEPT ![n] = RemoveAt(@, h)]
               d == <<df[n][h].pkt, n>>
           IN  /\ OnTheWay(ch, df) = OnTheWay(ch, d2) \cup {d}
               /\ \A T : AtMostOne(T, ch, df) => Left(T, ch, d2, d)
<1> DEFINE d2 == [df EXCEPT ![n] = RemoveAt(@, h)]
           s == df[n]
           t == RemoveAt(df[n], h)
           g == [i \in DOMAIN t |-> IF i < h THEN i ELSE i + 1]
<1>1. s \in Seq(Parked) /\ Len(s) \in Nat /\ DOMAIN s = 1..Len(s) /\ h \in 1..Len(s)
  BY DEF Parkings
<1>2. /\ DOMAIN t = 1..Len(s) - 1
      /\ \A j \in 1..Len(s) - 1 : t[j] = IF j < h THEN s[j] ELSE s[j + 1]
  <2>1. /\ t \in Seq(Parked) /\ Len(t) = Len(s) - 1
        /\ \A j \in 1..Len(s) - 1 : t[j] = IF j < h THEN s[j] ELSE s[j + 1]
    BY <1>1, RemoveAtProperties
  <2> HIDE DEF t
  <2> QED BY <1>1, <2>1
<1>3. d2[n] = t /\ \A y \in Node : y # n => d2[y] = df[y]
  BY DEF Parkings
<1> HIDE DEF s, t, d2
<1>4. \A j \in DOMAIN t : g[j] \in DOMAIN s /\ g[j] # h /\ t[j] = s[g[j]]
  BY <1>1, <1>2
<1>5. \A i, j \in DOMAIN t : g[i] = g[j] => i = j
  BY <1>1, <1>2
<1>6. ASSUME NEW i \in DOMAIN s, i # h PROVE \E j \in DOMAIN t : g[j] = i
  <2>1. CASE i < h
    <3>1. i \in DOMAIN t /\ g[i] = i
      BY <1>1, <1>2, <1>6, <2>1
    <3> QED BY <3>1
  <2>2. CASE ~ (i < h)
    <3>1. i - 1 \in DOMAIN t /\ g[i - 1] = i
      BY <1>1, <1>2, <1>6, <2>2
    <3> QED BY <3>1
  <2> QED BY <2>1, <2>2
<1> HIDE DEF g
<1>7. d2[n] = t /\ df[n] = s
  BY <1>3 DEF s
<1>8. /\ OnTheWay(ch, df) = OnTheWay(ch, d2) \cup {<<s[h].pkt, n>>}
      /\ \A T : AtMostOne(T, ch, df) => Left(T, ch, d2, <<s[h].pkt, n>>)
  <2>1. Lacks(d2[n], df[n], h, g)
    BY <1>1, <1>4, <1>5, <1>6, <1>7 DEF Lacks
  <2>2. <<s[h].pkt, n>> = <<df[n][h].pkt, n>>
    BY <1>7
  <2> QED BY <1>3, <2>1, <2>2, TakeParked
<1> QED BY <1>8 DEF d2, s

\* ctdb_queue_packet sends a packet.
LEMMA SendPacket ==
    ASSUME NEW ch \in Queues, NEW df, NEW n \in Node, NEW m \in Node, NEW q \in Packet
    PROVE  LET c2 == ctdb_queue_packet(ch, n, m, q)
           IN  /\ OnTheWay(c2, df) = OnTheWay(ch, df) \cup {<<q, m>>}
               /\ \A T : Left(T, ch, df, <<q, m>>) => AtMostOne(T, c2, df)
<1> DEFINE c2 == ctdb_queue_packet(ch, n, m, q)
           s == ch[n][m]
           t == Append(s, q)
           h == Len(s) + 1
<1>1. s \in Seq(Packet)
  BY DEF Queues
<1>2. /\ Len(s) \in Nat /\ DOMAIN s = 1..Len(s) /\ DOMAIN t = 1..Len(s) + 1
      /\ \A j \in 1..Len(s) : t[j] = s[j]
      /\ t[Len(s) + 1] = q
  BY <1>1
<1>3. c2[n][m] = t /\ \A x, y \in Node : x # n \/ y # m => c2[x][y] = ch[x][y]
  BY DEF Queues, ctdb_queue_packet
<1> HIDE DEF s, t, c2
<1>4. h \notin DOMAIN s /\ DOMAIN t = DOMAIN s \cup {h} /\ t[h] = q
      /\ \A j \in DOMAIN s : t[j] = s[j]
  BY <1>2
<1> HIDE DEF h
<1>5. c2[n][m] = t /\ ch[n][m] = s
  BY <1>3 DEF s
<1>6. /\ OnTheWay(c2, df) = OnTheWay(ch, df) \cup {<<q, m>>}
      /\ \A T : Left(T, ch, df, <<q, m>>) => AtMostOne(T, c2, df)
  <2>1. Gains(c2[n][m], ch[n][m], h, q)
    BY <1>4, <1>5 DEF Gains
  <2> QED BY <1>3, <2>1, AddQueued
<1> QED BY <1>6 DEF c2

\* A packet that meets a chain lock is parked.
LEMMA ParkPacket ==
    ASSUME NEW ch, NEW df \in Parkings, NEW n \in Node, NEW e \in Parked
    PROVE  LET d2 == [df EXCEPT ![n] = Append(@, e)]
           IN  /\ OnTheWay(ch, d2) = OnTheWay(ch, df) \cup {<<e.pkt, n>>}
               /\ \A T : Left(T, ch, df, <<e.pkt, n>>) => AtMostOne(T, ch, d2)
<1> DEFINE d2 == [df EXCEPT ![n] = Append(@, e)]
           s == df[n]
           t == Append(s, e)
           h == Len(s) + 1
<1>1. s \in Seq(Parked)
  BY DEF Parkings
<1>2. /\ Len(s) \in Nat /\ DOMAIN s = 1..Len(s) /\ DOMAIN t = 1..Len(s) + 1
      /\ \A j \in 1..Len(s) : t[j] = s[j]
      /\ t[Len(s) + 1] = e
  BY <1>1
<1>3. d2[n] = t /\ \A y \in Node : y # n => d2[y] = df[y]
  BY DEF Parkings
<1> HIDE DEF s, t, d2
<1>4. h \notin DOMAIN s /\ DOMAIN t = DOMAIN s \cup {h} /\ t[h] = e
      /\ \A j \in DOMAIN s : t[j] = s[j]
  BY <1>2
<1> HIDE DEF h
<1>5. d2[n] = t /\ df[n] = s
  BY <1>3 DEF s
<1>6. /\ OnTheWay(ch, d2) = OnTheWay(ch, df) \cup {<<e.pkt, n>>}
      /\ \A T : Left(T, ch, df, <<e.pkt, n>>) => AtMostOne(T, ch, d2)
  <2>1. Gains(d2[n], df[n], h, e)
    BY <1>4, <1>5 DEF Gains
  <2> QED BY <1>3, <2>1, AddParked
<1> QED BY <1>6 DEF d2

-----------------------------------------------------------------------------
(* A step takes packets P, with ch and df left, and sends packets Q. *)

Hits(P, T) == \E d \in P : d \in T

Taken(P, ch, df) ==
    /\ OnTheWay(chan, deferred) = OnTheWay(ch, df) \cup P
    /\ \A T : AtMostOne(T, chan, deferred) =>
          AtMostOne(T, ch, df) /\ (Hits(P, T) => ~ Present(T, ch, df))
Sent(Q, ch, df) ==
    /\ OnTheWay(chan', deferred') = OnTheWay(ch, df) \cup Q
    /\ \A T : AtMostOne(T, ch, df) /\ (Hits(Q, T) => ~ Present(T, ch, df)) =>
          AtMostOne(T, chan', deferred')

\* What a step leaves of the packets of one kind.
LEMMA Exchange ==
    ASSUME NEW P, NEW Q, NEW ch, NEW df, Taken(P, ch, df), Sent(Q, ch, df),
           NEW T, AtMostOne(T, chan, deferred),
           Hits(Q, T) => Hits(P, T) \/ ~ Present(T, chan, deferred)
    PROVE  /\ AtMostOne(T, chan', deferred')
           /\ Present(T, chan', deferred') <=>
                \/ Hits(Q, T)
                \/ Present(T, chan, deferred) /\ ~ Hits(P, T)
<1>1. AtMostOne(T, ch, df) /\ (Hits(P, T) => ~ Present(T, ch, df))
  BY DEF Taken
<1>2. Present(T, chan, deferred) <=> Present(T, ch, df) \/ Hits(P, T)
  BY DEF Taken, Present, Hits
<1>3. Present(T, chan', deferred') <=> Present(T, ch, df) \/ Hits(Q, T)
  BY DEF Sent, Present, Hits
<1>4. AtMostOne(T, chan', deferred')
  BY <1>1, <1>2 DEF Sent
<1> QED BY <1>1, <1>2, <1>3, <1>4

\* Kinds that agree on the packets that are on the way.
LEMMA SameKind ==
    ASSUME NEW ch, NEW df, NEW T, NEW U, \A d \in OnTheWay(ch, df) : d \in T <=> d \in U
    PROVE  /\ AtMostOne(T, ch, df) => AtMostOne(U, ch, df)
           /\ Present(T, ch, df) <=> Present(U, ch, df)
<1>1. \A a, b \in Node : \A i \in DOMAIN ch[a][b] : <<ch[a][b][i], b>> \in T <=> <<ch[a][b][i], b>> \in U
  BY ArePlaces
<1>2. \A b \in Node : \A i \in DOMAIN df[b] : <<df[b][i].pkt, b>> \in T <=> <<df[b][i].pkt, b>> \in U
  BY ArePlaces
<1>3. NoneOfParked(T, df) => NoneOfParked(U, df)
  BY <1>2 DEF NoneOfParked
<1>4. \A b \in Node : \A i \in DOMAIN df[b] : OnlyOneParked(T, df, b, i) => OnlyOneParked(U, df, b, i)
  BY <1>2 DEF OnlyOneParked
<1>5. \A a, b \in Node : \A i \in DOMAIN ch[a][b] :
         OnlyQueued(T, ch, a, b, i) => OnlyQueued(U, ch, a, b, i)
  BY <1>1 DEF OnlyQueued
<1>6. AtMostOne(T, ch, df) => AtMostOne(U, ch, df)
  BY <1>1, <1>2, <1>3, <1>4, <1>5 DEF AtMostOne
<1>7. Present(T, ch, df) <=> Present(U, ch, df)
  BY DEF Present
<1> QED BY <1>6, <1>7

\* The packets on the way have their types.
LEMMA WayTyped ==
    ASSUME NEW ch \in Queues, NEW df \in Parkings
    PROVE  OnTheWay(ch, df) \subseteq Delivery
<1> SUFFICES ASSUME NEW d \in OnTheWay(ch, df) PROVE d \in Delivery
  OBVIOUS
<1>1. ASSUME NEW a \in Node, NEW b \in Node, NEW i \in DOMAIN ch[a][b], d = <<ch[a][b][i], b>>
      PROVE  d \in Delivery
  <2>1. ch[a][b] \in Seq(Packet)
    BY DEF Queues
  <2>2. ch[a][b][i] \in Packet
    BY <2>1
  <2> QED BY <1>1, <2>2 DEF Delivery
<1>2. ASSUME NEW b \in Node, NEW i \in DOMAIN df[b], d = <<df[b][i].pkt, b>>
      PROVE  d \in Delivery
  <2>1. df[b] \in Seq(Parked)
    BY DEF Parkings
  <2>2. df[b][i] \in Parked
    BY <2>1
  <2> QED BY <1>2, <2>2 DEF Delivery, Parked
<1>3. \/ \E a, b \in Node : \E i \in DOMAIN ch[a][b] : d = <<ch[a][b][i], b>>
      \/ \E b \in Node : \E i \in DOMAIN df[b] : d = <<df[b][i].pkt, b>>
  BY Places
<1> QED BY <1>1, <1>2, <1>3

\* Every packet but a client's request is about one call.
LEMMA AboutOne ==
    ASSUME NEW d \in Delivery, d[1].op # "client_call"
    PROVE  /\ d[1] \in Packet /\ d[2] \in Node
           /\ CallerOf(d[1], d[2]) \in Node /\ d[1].reqid \in ReqId
           /\ \A n, r : d \in About(n, r) <=> n = CallerOf(d[1], d[2]) /\ r = d[1].reqid
<1>1. d[1] \in Packet /\ d[2] \in Node
  BY DEF Delivery, ClientCall
<1>2. d[1].reqid \in ReqId /\ CallerOf(d[1], d[2]) \in Node
  BY <1>1, PacketTypes DEF Packet, ReqCall, ReqDmaster, ReplyDmaster, ReplyCall, ReplyRedirect, CallerOf
<1> QED BY <1>1, <1>2 DEF About

\* A step that takes nothing.
LEMMA TakesNothing == Taken({}, chan, deferred)
BY DEF Taken, Hits

\* A step that sends nothing.
LEMMA SendsNothing ==
    ASSUME NEW ch, NEW df, chan' = ch, deferred' = df
    PROVE  Sent({}, ch, df)
BY DEF Sent, Hits

\* A daemon reads the next packet of a connection.
LEMMA TakesRead ==
    ASSUME TypeOK, NEW m \in Node, NEW n \in Node, chan[m][n] # <<>>
    PROVE  Taken({<<Head(chan[m][n]), n>>}, [chan EXCEPT ![m][n] = Tail(@)], deferred)
<1> DEFINE c2 == [chan EXCEPT ![m][n] = Tail(@)]
           d == <<Head(chan[m][n]), n>>
<1>1. /\ OnTheWay(chan, deferred) = OnTheWay(c2, deferred) \cup {d}
      /\ \A T : AtMostOne(T, chan, deferred) => Left(T, c2, deferred, d)
  BY ReadPacket DEF TypeOK, Queues
<1> HIDE DEF c2, d
<1>2. Taken({d}, c2, deferred)
  BY <1>1 DEF Taken, Left, Hits
<1> QED BY <1>2 DEF c2, d

\* A daemon takes a parked packet.
LEMMA TakesUnparked ==
    ASSUME TypeOK, NEW n \in Node, NEW i \in DOMAIN deferred[n]
    PROVE  Taken({<<deferred[n][i].pkt, n>>}, chan, [deferred EXCEPT ![n] = RemoveAt(@, i)])
<1> DEFINE d2 == [deferred EXCEPT ![n] = RemoveAt(@, i)]
           d == <<deferred[n][i].pkt, n>>
<1>1. /\ OnTheWay(chan, deferred) = OnTheWay(chan, d2) \cup {d}
      /\ \A T : AtMostOne(T, chan, deferred) => Left(T, chan, d2, d)
  BY UnparkPacket DEF TypeOK, Parkings
<1> HIDE DEF d2, d
<1>2. Taken({d}, chan, d2)
  BY <1>1 DEF Taken, Left, Hits
<1> QED BY <1>2 DEF d2, d

\* A handler sends one packet.
LEMMA SendsOne ==
    ASSUME NEW ch \in Queues, NEW df, NEW n \in Node, NEW m \in Node, NEW q \in Packet,
           chan' = ctdb_queue_packet(ch, n, m, q), deferred' = df
    PROVE  Sent({<<q, m>>}, ch, df)
<1>1. /\ OnTheWay(chan', df) = OnTheWay(ch, df) \cup {<<q, m>>}
      /\ \A T : Left(T, ch, df, <<q, m>>) => AtMostOne(T, chan', df)
  BY SendPacket
<1> QED BY <1>1 DEF Sent, Left, Hits

\* A daemon parks one packet.
LEMMA ParksOne ==
    ASSUME NEW ch, NEW df \in Parkings, NEW n \in Node, NEW e \in Parked,
           chan' = ch, deferred' = [df EXCEPT ![n] = Append(@, e)]
    PROVE  Sent({<<e.pkt, n>>}, ch, df)
<1> DEFINE d2 == [df EXCEPT ![n] = Append(@, e)]
<1>1. /\ OnTheWay(ch, d2) = OnTheWay(ch, df) \cup {<<e.pkt, n>>}
      /\ \A T : Left(T, ch, df, <<e.pkt, n>>) => AtMostOne(T, ch, d2)
  BY ParkPacket
<1>2. chan' = ch /\ deferred' = d2
  OBVIOUS
<1> HIDE DEF d2
<1> QED BY <1>1, <1>2 DEF Sent, Left, Hits

-----------------------------------------------------------------------------
(* The parts of the invariant, for any step *)

\* Every call is in one packet when what is sent is about a new call or the one
\* that the packet taken was about.
LEMMA CarriedStep ==
    ASSUME CallsCarried, NEW P, NEW Q, NEW ch, NEW df, Taken(P, ch, df), Sent(Q, ch, df),
           \A n \in Node, r \in ReqId :
              /\ Hits(Q, About(n, r)) => Hits(P, About(n, r)) \/ calls[n][r] = None
              /\ calls'[n][r] # None <=>
                    \/ Hits(Q, About(n, r))
                    \/ calls[n][r] # None /\ ~ Hits(P, About(n, r))
    PROVE  CallsCarried'
<1> SUFFICES ASSUME NEW n \in Node, NEW r \in ReqId
             PROVE  /\ AtMostOne(About(n, r), chan', deferred')
                    /\ calls'[n][r] # None <=> Present(About(n, r), chan', deferred')
  BY DEF CallsCarried
<1> DEFINE T == About(n, r)
<1>1. AtMostOne(T, chan, deferred) /\ (calls[n][r] # None <=> Present(T, chan, deferred))
  BY DEF CallsCarried
<1>2. /\ Hits(Q, T) => Hits(P, T) \/ calls[n][r] = None
      /\ calls'[n][r] # None <=> Hits(Q, T) \/ (calls[n][r] # None /\ ~ Hits(P, T))
  OBVIOUS
<1> HIDE DEF T
<1>3. /\ AtMostOne(T, chan', deferred')
      /\ Present(T, chan', deferred') <=> Hits(Q, T) \/ (Present(T, chan, deferred) /\ ~ Hits(P, T))
  BY <1>1, <1>2, Exchange
<1> QED BY <1>1, <1>2, <1>3 DEF T

\* The calls s and t are for the same.
SameCall(s, t) ==
    /\ s = None <=> t = None
    /\ s # None => t.client = s.client /\ t.key = s.key /\ t.func = s.func /\ t.imm = s.imm

\* A packet that carries no role, or one of a record that is as it was, still
\* agrees when its call is the same.
LEMMA AgreesStep ==
    ASSUME NEW l, NEW l2, NEW ap, NEW ap2, NEW cs, NEW cs2, NEW p, NEW b,
           Agrees(l, ap, cs, p, b), SameCall(CallOf(cs, p, b), CallOf(cs2, p, b)),
           Token(p) => LET k == CallOf(cs, p, b).key
                       IN  Chosen(l2, k) = Chosen(l, k) /\ ap2[k] = ap[k]
    PROVE  Agrees(l2, ap2, cs2, p, b)
BY DEF Agrees, SameCall, Token

\* The calls that the packets left are about stay the same when only the call of
\* the packet taken, or one that no packet is about, changes.
LEMMA OthersKeep ==
    ASSUME TypeOK, CallsCarried, NEW P, NEW ch, NEW df, Taken(P, ch, df),
           NEW n \in Node, NEW r \in ReqId,
           \A x \in Node, y \in ReqId : x # n \/ y # r => calls'[x][y] = calls[x][y],
           \/ SameCall(calls[n][r], calls'[n][r])
           \/ Hits(P, About(n, r)) \/ calls[n][r] = None
    PROVE  \A d \in OnTheWay(ch, df) : d[1].op # "client_call" =>
              SameCall(CallOf(calls, d[1], d[2]), CallOf(calls', d[1], d[2]))
<1> SUFFICES ASSUME NEW d \in OnTheWay(ch, df), d[1].op # "client_call"
             PROVE  SameCall(CallOf(calls, d[1], d[2]), CallOf(calls', d[1], d[2]))
  OBVIOUS
<1>1. d \in OnTheWay(chan, deferred) /\ d \in Delivery
  BY WayTyped DEF Taken, TypeOK, Queues, Parkings
<1> DEFINE a == CallerOf(d[1], d[2])
           q == d[1].reqid
<1>2. a \in Node /\ q \in ReqId /\ d \in About(a, q)
  BY <1>1, AboutOne
<1>3. CallOf(calls, d[1], d[2]) = calls[a][q] /\ CallOf(calls', d[1], d[2]) = calls'[a][q]
  BY DEF CallOf
<1> HIDE DEF a, q
<1>4. CASE a # n \/ q # r
  <2>1. calls'[a][q] = calls[a][q]
    BY <1>2, <1>4
  <2> QED BY <1>3, <2>1 DEF SameCall
<1>5. CASE a = n /\ q = r
  <2>1. Present(About(n, r), ch, df) /\ Present(About(n, r), chan, deferred)
    BY <1>1, <1>2, <1>5 DEF Present
  <2>2. calls[n][r] # None
    BY <2>1 DEF CallsCarried
  <2>3. ~ Hits(P, About(n, r))
    BY <2>1 DEF Taken, CallsCarried
  <2> QED BY <1>3, <1>5, <2>2, <2>3
<1> QED BY <1>4, <1>5

\* The packets that carry a role.
LEMMA CarryingOne ==
    ASSUME NEW cs, NEW d \in Delivery, Token(d[1]), CallOf(cs, d[1], d[2]) # None
    PROVE  \A k : d \in Carrying(cs, k) <=> k = CallOf(cs, d[1], d[2]).key
BY DEF Carrying

\* The packets left agree when no record changed whose role is in one of them.
LEMMA AllAgreeStep ==
    ASSUME TypeOK, AllAgree(lt, applied, calls, chan, deferred),
           NEW P, NEW Q, NEW ch, NEW df, Taken(P, ch, df), Sent(Q, ch, df),
           \A d \in OnTheWay(ch, df) : d[1].op # "client_call" =>
              SameCall(CallOf(calls, d[1], d[2]), CallOf(calls', d[1], d[2])),
           \A k \in Key : \/ Chosen(lt', k) = Chosen(lt, k) /\ applied'[k] = applied[k]
                          \/ ~ Present(Carrying(calls, k), ch, df),
           \A d \in Q : Agrees(lt', applied', calls', d[1], d[2])
    PROVE  AllAgree(lt', applied', calls', chan', deferred')
<1>1. ASSUME NEW d \in OnTheWay(ch, df) PROVE Agrees(lt', applied', calls', d[1], d[2])
  <2>1. d \in OnTheWay(chan, deferred) /\ d \in Delivery
    BY WayTyped DEF Taken, TypeOK, Queues, Parkings
  <2>2. Agrees(lt, applied, calls, d[1], d[2])
    BY <2>1 DEF AllAgree
  <2>3. CASE d[1].op = "client_call"
    BY <2>3 DEF Agrees
  <2>4. CASE d[1].op # "client_call"
    <3> DEFINE s == CallOf(calls, d[1], d[2])
    <3>1. s # None
      BY <2>2, <2>4 DEF Agrees
    <3>2. s \in CallState
      <4>1. s = calls[CallerOf(d[1], d[2])][d[1].reqid]
        BY DEF CallOf
      <4>2. CallerOf(d[1], d[2]) \in Node /\ d[1].reqid \in ReqId
        BY <2>1, <2>4, AboutOne
      <4> HIDE DEF s
      <4> QED BY <3>1, <4>1, <4>2, CallEntryType
    <3>3. s.key \in Key
      BY <3>2 DEF CallState
    <3> HIDE DEF s
    <3>4. ASSUME Token(d[1]) PROVE Chosen(lt', s.key) = Chosen(lt, s.key) /\ applied'[s.key] = applied[s.key]
      <4>1. d \in Carrying(calls, s.key)
        BY <2>1, <3>1, <3>4, CarryingOne DEF s
      <4>2. Present(Carrying(calls, s.key), ch, df)
        BY <4>1 DEF Present
      <4> QED BY <3>3, <4>2
    <3>5. SameCall(CallOf(calls, d[1], d[2]), CallOf(calls', d[1], d[2]))
      BY <2>4
    <3> QED BY <2>2, <3>4, <3>5, AgreesStep DEF s
  <2> QED BY <2>3, <2>4
<1> QED BY <1>1 DEF AllAgree, Sent

\* What a step leaves of the packets that carry the role of one record.
LEMMA CarryingStep ==
    ASSUME TypeOK, TypeOK', NEW P, NEW Q, NEW ch, NEW df, Taken(P, ch, df), Sent(Q, ch, df),
           \A d \in OnTheWay(ch, df) : d[1].op # "client_call" =>
              SameCall(CallOf(calls, d[1], d[2]), CallOf(calls', d[1], d[2])),
           \A d \in Q : Token(d[1]) => SameCall(CallOf(calls, d[1], d[2]), CallOf(calls', d[1], d[2])),
           NEW k \in Key, AtMostOne(Carrying(calls, k), chan, deferred),
           Hits(Q, Carrying(calls, k)) =>
              Hits(P, Carrying(calls, k)) \/ ~ Present(Carrying(calls, k), chan, deferred)
    PROVE  /\ AtMostOne(Carrying(calls', k), chan', deferred')
           /\ Present(Carrying(calls', k), chan', deferred') <=>
                \/ Hits(Q, Carrying(calls, k))
                \/ Present(Carrying(calls, k), chan, deferred) /\ ~ Hits(P, Carrying(calls, k))
<1> DEFINE T == Carrying(calls, k)
           U == Carrying(calls', k)
<1>1. ASSUME NEW d \in OnTheWay(chan', deferred') PROVE d \in T <=> d \in U
  <2>1. CASE Token(d[1])
    <3>1. SameCall(CallOf(calls, d[1], d[2]), CallOf(calls', d[1], d[2]))
      BY <2>1 DEF Sent, Token
    <3> QED BY <3>1 DEF SameCall, Carrying
  <2>2. CASE ~ Token(d[1])
    BY <2>2 DEF Carrying
  <2> QED BY <2>1, <2>2
<1>2. AtMostOne(T, chan, deferred)
  OBVIOUS
<1>3. Hits(Q, T) => Hits(P, T) \/ ~ Present(T, chan, deferred)
  OBVIOUS
<1> HIDE DEF T, U
<1>4. /\ AtMostOne(T, chan', deferred')
      /\ Present(T, chan', deferred') <=> Hits(Q, T) \/ (Present(T, chan, deferred) /\ ~ Hits(P, T))
  BY <1>2, <1>3, Exchange
<1>5. /\ AtMostOne(U, chan', deferred')
      /\ Present(T, chan', deferred') <=> Present(U, chan', deferred')
  BY <1>1, <1>4, SameKind
<1> QED BY <1>4, <1>5 DEF T, U
-----------------------------------------------------------------------------
(* Clients that wait *)

\* No packet between daemons is a client's request.
LEMMA NotAsking ==
    ASSUME NEW p, NEW n, p.op # "client_call", NEW c
    PROVE  ~ Hits({<<p, n>>}, Asking(c))
BY DEF Hits, Asking

\* Only a client's own requests ask for it.
LEMMA OwnAsking ==
    ASSUME NEW c, NEW n, NEW d, d # c
    PROVE  ~ Hits({<<[op |-> "client_call", client |-> c], n>>}, Asking(d))
BY DEF Hits, Asking

\* A client whom a step does not concern.
LEMMA Bystander ==
    ASSUME NEW P, NEW Q, NEW ch, NEW df, Taken(P, ch, df), Sent(Q, ch, df),
           NEW d \in Client, ClientServed(d), cl'[d] = cl[d],
           ~ Hits(P, Asking(d)), ~ Hits(Q, Asking(d)),
           HasCall(d)' <=> HasCall(d)
    PROVE  ClientServed(d)'
<1> DEFINE T == Asking(d)
<1>1. AtMostOne(T, chan, deferred)
  BY DEF ClientServed
<1>2. ~ Hits(P, T) /\ ~ Hits(Q, T)
  OBVIOUS
<1> HIDE DEF T
<1>3. AtMostOne(T, chan', deferred') /\ (Present(T, chan', deferred') <=> Present(T, chan, deferred))
  BY <1>1, <1>2, Exchange
<1> QED BY <1>3 DEF T, ClientServed

\* Packets are exchanged, the calls stay the same.
LEMMA WaitersSame ==
    ASSUME TypeOK, WaitersServed, NEW P, NEW Q, NEW ch, NEW df, Taken(P, ch, df), Sent(Q, ch, df),
           \A c \in Client : ~ Hits(P, Asking(c)) /\ ~ Hits(Q, Asking(c)),
           cl' = cl, \A n \in Node, r \in ReqId : SameCall(calls[n][r], calls'[n][r])
    PROVE  WaitersServed'
<1>1. CallsServe'
  <2> SUFFICES ASSUME NEW n \in Node, NEW r \in ReqId, calls'[n][r] # None
               PROVE  Serves(cl', calls'[n][r], n)
    BY DEF CallsServe
  <2>1. SameCall(calls[n][r], calls'[n][r]) /\ calls[n][r] # None
    BY DEF SameCall
  <2>2. Serves(cl, calls[n][r], n)
    BY <2>1 DEF WaitersServed, CallsServe
  <2> QED BY <2>1, <2>2 DEF Serves, SameCall
<1>2. OneCallEach'
  <2> SUFFICES ASSUME NEW n \in Node, NEW q \in ReqId, NEW r \in ReqId,
                      calls'[n][q] # None, calls'[n][r] # None, calls'[n][q].client = calls'[n][r].client
               PROVE  q = r
    BY DEF OneCallEach
  <2>1. SameCall(calls[n][r], calls'[n][r]) /\ SameCall(calls[n][q], calls'[n][q])
    OBVIOUS
  <2> QED BY <2>1 DEF SameCall, WaitersServed, OneCallEach
<1>3. ASSUME NEW d \in Client PROVE ClientServed(d)'
  <2>1. NodeOf[d] \in Node
    BY ClusterAssumption
  <2>2. HasCall(d)' <=> HasCall(d)
    BY <2>1 DEF HasCall, SameCall
  <2> QED BY <2>2, Bystander DEF WaitersServed
<1> QED BY <1>1, <1>2, <1>3 DEF WaitersServed

\* A client that waits for no call or parked request.
LEMMA NotWaiting ==
    ASSUME TypeOK, WaitersServed, NEW c \in Client, cl[c].pc # "wait"
    PROVE  /\ ~ Present(Asking(c), chan, deferred)
           /\ \A n \in Node, r \in ReqId : calls[n][r] # None => calls[n][r].client # c
<1>1. ~ Present(Asking(c), chan, deferred)
  BY DEF WaitersServed, ClientServed
<1>2. ASSUME NEW n \in Node, NEW r \in ReqId, calls[n][r] # None PROVE calls[n][r].client # c
  BY <1>2 DEF WaitersServed, CallsServe, Serves
<1> QED BY <1>1, <1>2

\* The calls of other clients go on when client c moves.
LEMMA OthersServed ==
    ASSUME CallsServe, NEW c, \A d \in Client : d # c => cl'[d] = cl[d],
           NEW n \in Node, NEW s \in CallState, Serves(cl, s, n), s.client # c
    PROVE  Serves(cl', s, n)
BY DEF Serves, CallState

\* A client moves that did not wait before and does not now, or that has been
\* answered without a call: P are its parked requests, if any.
LEMMA WaitersMove ==
    ASSUME TypeOK, WaitersServed, NEW P, NEW ch, NEW df, Taken(P, ch, df), Sent({}, ch, df),
           NEW c \in Client, \A d \in Client : d # c => cl'[d] = cl[d],
           cl'[c].pc \notin {"wait", "exited"}, calls' = calls,
           cl[c].pc = "wait" => Hits(P, Asking(c)),
           \A d \in Client : d # c => ~ Hits(P, Asking(d))
    PROVE  WaitersServed'
<1>1. \A n \in Node, r \in ReqId : calls[n][r] # None => calls[n][r].client # c
  <2>1. CASE cl[c].pc # "wait"
    BY <2>1, NotWaiting
  <2>2. CASE cl[c].pc = "wait"
    <3>1. Present(Asking(c), chan, deferred)
      BY <2>2 DEF Hits, Present, Taken
    <3>2. ~ HasCall(c)
      BY <3>1 DEF WaitersServed, ClientServed
    <3> QED BY <3>2 DEF HasCall, WaitersServed, CallsServe, Serves
  <2> QED BY <2>1, <2>2
<1>2. CallsServe'
  <2> SUFFICES ASSUME NEW n \in Node, NEW r \in ReqId, calls[n][r] # None
               PROVE  Serves(cl', calls[n][r], n)
    BY DEF CallsServe
  <2>1. calls[n][r] \in CallState /\ Serves(cl, calls[n][r], n) /\ calls[n][r].client # c
    BY <1>1, CallEntryType DEF WaitersServed, CallsServe
  <2> QED BY <2>1, OthersServed DEF WaitersServed
<1>3. OneCallEach'
  BY DEF WaitersServed, OneCallEach
<1>4. ~ Hits({}, Asking(c)) /\ \A d \in Client : ~ Hits({}, Asking(d))
  BY DEF Hits
<1>5. ClientServed(c)'
  <2> DEFINE T == Asking(c)
  <2>1. AtMostOne(T, chan, deferred) /\ (Present(T, chan, deferred) => cl[c].pc = "wait") /\ ~ Hits({}, T)
    BY <1>4 DEF WaitersServed, ClientServed
  <2>2. cl[c].pc = "wait" => Hits(P, T)
    OBVIOUS
  <2> HIDE DEF T
  <2>3. AtMostOne(T, chan', deferred') /\ ~ Present(T, chan', deferred')
    BY <2>1, <2>2, Exchange
  <2> QED BY <2>3 DEF T, ClientServed
<1>6. ASSUME NEW d \in Client, d # c PROVE ClientServed(d)'
  <2>1. HasCall(d)' <=> HasCall(d)
    BY DEF HasCall
  <2> QED BY <1>4, <1>6, <2>1, Bystander DEF WaitersServed
<1> QED BY <1>2, <1>3, <1>5, <1>6 DEF WaitersServed

\* A call is done: its client has the reply.
LEMMA WaitersDone ==
    ASSUME TypeOK, TypeOK', WaitersServed, NEW P, NEW ch, NEW df, Taken(P, ch, df), Sent({}, ch, df),
           \A c \in Client : ~ Hits(P, Asking(c)),
           NEW n \in Node, NEW r \in ReqId, calls[n][r] # None, CompleteCall(n, r)
    PROVE  WaitersServed'
<1>0. PICK c \in Client : calls[n][r].client = c
  BY CallEntryType DEF CallState
<1>1. /\ calls'[n][r] = None /\ \A x \in Node, y \in ReqId : x # n \/ y # r => calls'[x][y] = calls[x][y]
      /\ calls[n][r] \in CallState /\ Serves(cl, calls[n][r], n)
  BY CallEntryType DEF CompleteCall, TypeOK, WaitersServed, CallsServe
<1>2. cl'[c].pc = "replied" /\ \A d \in Client : d # c => cl'[d] = cl[d]
  BY <1>0 DEF CompleteCall, TypeOK, ClientState
<1>3. NodeOf[c] = n /\ cl[c].pc = "wait" /\ HasCall(c)
  BY <1>0, <1>1 DEF Serves, HasCall
<1>4. ASSUME NEW x \in Node, NEW y \in ReqId, calls'[x][y] # None
      PROVE  /\ calls'[x][y] = calls[x][y] /\ calls[x][y] \in CallState /\ Serves(cl, calls[x][y], x)
             /\ calls[x][y].client # c
  <2>1. (x # n \/ y # r) /\ calls'[x][y] = calls[x][y]
    BY <1>1, <1>4
  <2>2. calls[x][y] \in CallState /\ Serves(cl, calls[x][y], x)
    BY <1>4, <2>1, CallEntryType DEF WaitersServed, CallsServe
  <2>3. CASE x # n
    BY <1>3, <2>1, <2>2, <2>3 DEF Serves
  <2>4. CASE x = n /\ y # r
    BY <1>0, <1>4, <2>1, <2>2, <2>4 DEF WaitersServed, OneCallEach
  <2> QED BY <2>1, <2>2, <2>3, <2>4
<1>5. CallsServe'
  <2> SUFFICES ASSUME NEW x \in Node, NEW y \in ReqId, calls'[x][y] # None
               PROVE  Serves(cl', calls'[x][y], x)
    BY DEF CallsServe
  <2> QED BY <1>2, <1>4, OthersServed DEF WaitersServed
<1>6. OneCallEach'
  BY <1>4 DEF WaitersServed, OneCallEach
<1>7. \A d \in Client : ~ Hits({}, Asking(d))
  BY DEF Hits
<1>8. ClientServed(c)'
  <2> DEFINE T == Asking(c)
  <2>1. AtMostOne(T, chan, deferred) /\ ~ Present(T, chan, deferred) /\ ~ Hits({}, T)
    BY <1>3, <1>7 DEF WaitersServed, ClientServed
  <2> HIDE DEF T
  <2>2. AtMostOne(T, chan', deferred') /\ ~ Present(T, chan', deferred')
    BY <2>1, Exchange
  <2> QED BY <1>2, <2>2 DEF T, ClientServed
<1>9. ASSUME NEW d \in Client, d # c PROVE ClientServed(d)'
  <2>1. NodeOf[d] \in Node
    BY ClusterAssumption
  <2>2. \A y \in ReqId : (calls'[NodeOf[d]][y] # None /\ calls'[NodeOf[d]][y].client = d)
                          <=> (calls[NodeOf[d]][y] # None /\ calls[NodeOf[d]][y].client = d)
    BY <1>0, <1>1, <1>9, <2>1
  <2>3. HasCall(d)' <=> HasCall(d)
    BY <2>2 DEF HasCall
  <2> QED BY <1>2, <1>7, <1>9, <2>3, Bystander DEF WaitersServed
<1> QED BY <1>5, <1>6, <1>8, <1>9 DEF WaitersServed

\* The daemon makes a call for a client: P is its parked request, if any.
LEMMA WaitersNew ==
    ASSUME TypeOK, TypeOK', WaitersServed, NEW P, NEW Q, NEW ch, NEW df, Taken(P, ch, df), Sent(Q, ch, df),
           NEW c \in Client, NEW r \in ReqId, NEW s \in CallState,
           calls[NodeOf[c]][r] = None, calls' = [calls EXCEPT ![NodeOf[c]][r] = s],
           s.client = c, s.key = cl[c].key, s.func = FuncOf(c), s.imm = Immediate(c),
           cl' = [cl EXCEPT ![c].pc = "wait"],
           \/ cl[c].pc = "sent"
           \/ cl[c].pc = "wait" /\ Hits(P, Asking(c)),
           \A d \in Client : d # c => ~ Hits(P, Asking(d)),
           \A d \in Client : ~ Hits(Q, Asking(d))
    PROVE  WaitersServed'
<1> DEFINE n == NodeOf[c]
<1>0. n \in Node /\ s # None
  BY ClusterAssumption, NoneAssumption
<1>1. \A x \in Node, q \in ReqId : calls[x][q] # None => calls[x][q].client # c
  <2>1. CASE cl[c].pc # "wait"
    BY <2>1, NotWaiting
  <2>2. CASE cl[c].pc = "wait"
    <3>1. Present(Asking(c), chan, deferred)
      BY <2>2 DEF Hits, Present, Taken
    <3>2. ~ HasCall(c)
      BY <3>1 DEF WaitersServed, ClientServed
    <3> QED BY <3>2 DEF HasCall, WaitersServed, CallsServe, Serves
  <2> QED BY <2>1, <2>2
<1>2. /\ calls'[n][r] = s
      /\ \A x \in Node, y \in ReqId : x # n \/ y # r => calls'[x][y] = calls[x][y]
  BY <1>0 DEF TypeOK
<1>3. /\ cl'[c].pc = "wait" /\ cl'[c].key = cl[c].key /\ cl'[c].op = cl[c].op
      /\ \A d \in Client : d # c => cl'[d] = cl[d]
  BY DEF TypeOK, ClientState
<1>4. CallsServe'
  <2> SUFFICES ASSUME NEW x \in Node, NEW y \in ReqId, calls'[x][y] # None
               PROVE  Serves(cl', calls'[x][y], x)
    BY DEF CallsServe
  <2>1. CASE x = n /\ y = r
    <3>1. s.imm <=> cl'[c].op = "migrate"
      BY <1>3 DEF Immediate
    <3> QED BY <1>2, <1>3, <2>1, <3>1 DEF Serves, FuncOf
  <2>2. CASE x # n \/ y # r
    <3>1. calls'[x][y] = calls[x][y]
      BY <1>2, <2>2
    <3>2. calls[x][y] \in CallState /\ Serves(cl, calls[x][y], x) /\ calls[x][y].client # c
      BY <1>1, <3>1, CallEntryType DEF WaitersServed, CallsServe
    <3> QED BY <1>3, <3>1, <3>2, OthersServed DEF WaitersServed
  <2> QED BY <2>1, <2>2
<1>5. OneCallEach'
  <2> SUFFICES ASSUME NEW x \in Node, NEW q \in ReqId, NEW y \in ReqId,
                      calls'[x][q] # None, calls'[x][y] # None, calls'[x][q].client = calls'[x][y].client
               PROVE  q = y
    BY DEF OneCallEach
  <2>1. CASE x # n
    BY <1>2, <2>1 DEF WaitersServed, OneCallEach
  <2>2. CASE x = n /\ q = r /\ y # r
    BY <1>1, <1>2, <2>2
  <2>3. CASE x = n /\ q # r /\ y = r
    BY <1>1, <1>2, <2>3
  <2>4. CASE x = n /\ q # r /\ y # r
    BY <1>2, <2>4 DEF WaitersServed, OneCallEach
  <2> QED BY <2>1, <2>2, <2>3, <2>4
<1>6. ClientServed(c)'
  <2> DEFINE T == Asking(c)
  <2>1. AtMostOne(T, chan, deferred) /\ (Present(T, chan, deferred) => cl[c].pc = "wait") /\ ~ Hits(Q, T)
    BY DEF WaitersServed, ClientServed
  <2>2. cl[c].pc = "wait" => Hits(P, T)
    OBVIOUS
  <2> HIDE DEF T
  <2>3. AtMostOne(T, chan', deferred') /\ ~ Present(T, chan', deferred')
    BY <2>1, <2>2, Exchange
  <2>4. HasCall(c)'
    BY <1>0, <1>2 DEF HasCall
  <2> QED BY <1>3, <2>3, <2>4 DEF T, ClientServed
<1>7. ASSUME NEW d \in Client, d # c PROVE ClientServed(d)'
  <2>1. NodeOf[d] \in Node
    BY ClusterAssumption
  <2>2. \A y \in ReqId : (calls'[NodeOf[d]][y] # None /\ calls'[NodeOf[d]][y].client = d)
                          <=> (calls[NodeOf[d]][y] # None /\ calls[NodeOf[d]][y].client = d)
    BY <1>2, <1>7, <2>1
  <2>3. HasCall(d)' <=> HasCall(d)
    BY <2>2 DEF HasCall
  <2> QED BY <1>3, <1>7, <2>3, Bystander DEF WaitersServed
<1> QED BY <1>4, <1>5, <1>6, <1>7 DEF WaitersServed

\* A client's request is parked.
LEMMA WaitersPark ==
    ASSUME TypeOK, WaitersServed, NEW c \in Client, cl[c].pc = "sent",
           Sent({<<[op |-> "client_call", client |-> c], NodeOf[c]>>}, chan, deferred),
           calls' = calls, cl' = [cl EXCEPT ![c].pc = "wait"]
    PROVE  WaitersServed'
<1> DEFINE d0 == <<[op |-> "client_call", client |-> c], NodeOf[c]>>
           Q == {d0}
<1>1. d0 \in Asking(c)
  BY ClusterAssumption DEF Asking, Delivery, ClientCall
<1>2. Hits(Q, Asking(c)) /\ \A d \in Client : d # c => ~ Hits(Q, Asking(d))
  BY <1>1, OwnAsking DEF Hits
<1>3. Taken({}, chan, deferred) /\ Sent(Q, chan, deferred) /\ \A d \in Client : ~ Hits({}, Asking(d))
  BY TakesNothing DEF Hits
<1> HIDE DEF Q
<1>4. cl'[c].pc = "wait" /\ \A d \in Client : d # c => cl'[d] = cl[d]
  BY DEF TypeOK, ClientState
<1>5. /\ ~ Present(Asking(c), chan, deferred)
      /\ \A n \in Node, r \in ReqId : calls[n][r] # None => calls[n][r].client # c
  BY NotWaiting
<1>6. CallsServe'
  <2> SUFFICES ASSUME NEW n \in Node, NEW r \in ReqId, calls[n][r] # None
               PROVE  Serves(cl', calls[n][r], n)
    BY DEF CallsServe
  <2>1. calls[n][r] \in CallState /\ Serves(cl, calls[n][r], n) /\ calls[n][r].client # c
    BY <1>5, CallEntryType DEF WaitersServed, CallsServe
  <2> QED BY <1>4, <2>1, OthersServed DEF WaitersServed
<1>7. OneCallEach'
  BY DEF WaitersServed, OneCallEach
<1>8. ClientServed(c)'
  <2> DEFINE T == Asking(c)
  <2>1. AtMostOne(T, chan, deferred) /\ ~ Present(T, chan, deferred) /\ Hits(Q, T)
    BY <1>2, <1>5 DEF WaitersServed, ClientServed
  <2> HIDE DEF T
  <2>2. AtMostOne(T, chan', deferred') /\ Present(T, chan', deferred')
    BY <1>3, <2>1, Exchange
  <2>3. ~ HasCall(c)'
    BY <1>5, ClusterAssumption DEF HasCall
  <2> QED BY <1>4, <2>2, <2>3 DEF T, ClientServed
<1>9. ASSUME NEW d \in Client, d # c PROVE ClientServed(d)'
  <2>1. HasCall(d)' <=> HasCall(d)
    BY DEF HasCall
  <2> QED BY <1>2, <1>3, <1>4, <1>9, <2>1, Bystander DEF WaitersServed
<1> QED BY <1>6, <1>7, <1>8, <1>9 DEF WaitersServed
-----------------------------------------------------------------------------
(* Steps that take a packet *)

\* What the invariant says of a packet at hand.
LEMMA PacketAtHand ==
    ASSUME TypeOK, CallInv, NEW n \in Node, NEW p \in Packet, NEW ch, NEW df,
           Taken({<<p, n>>}, ch, df)
    PROVE  LET a == CallerOf(p, n)
               s == calls[a][p.reqid]
           IN  /\ p.op # "client_call" /\ a \in Node /\ p.reqid \in ReqId
               /\ Agrees(lt, applied, calls, p, n)
               /\ s # None /\ s \in CallState /\ s.key \in Key /\ s.func \in Func
               /\ Serves(cl, s, a) /\ CallOf(calls, p, n) = s
               /\ \A T : Hits({<<p, n>>}, T) <=> <<p, n>> \in T
               /\ \A x, y : <<p, n>> \in About(x, y) <=> x = a /\ y = p.reqid
<1> DEFINE d == <<p, n>>
           a == CallerOf(p, n)
<1>1. d \in OnTheWay(chan, deferred) /\ d \in Delivery /\ d[1] = p /\ d[2] = n
  BY DEF Taken, Delivery
<1>2. p.op # "client_call"
  BY DEF Packet, ReqCall, ReqDmaster, ReplyDmaster, ReplyCall, ReplyRedirect
<1>3. a \in Node /\ p.reqid \in ReqId /\ \A x, y : d \in About(x, y) <=> x = a /\ y = p.reqid
  BY <1>1, <1>2, AboutOne
<1>4. Agrees(lt, applied, calls, p, n)
  BY <1>1 DEF CallInv, AllAgree
<1>5. CallOf(calls, p, n) = calls[a][p.reqid]
  BY DEF CallOf
<1>6. calls[a][p.reqid] # None
  BY <1>2, <1>4, <1>5 DEF Agrees
<1> HIDE DEF a
<1>7. calls[a][p.reqid] \in CallState
  BY <1>3, <1>6, CallEntryType
<1>8. calls[a][p.reqid].key \in Key /\ calls[a][p.reqid].func \in Func
  BY <1>7 DEF CallState
<1>9. Serves(cl, calls[a][p.reqid], a)
  BY <1>3, <1>6 DEF CallInv, WaitersServed, CallsServe
<1>10. \A T : Hits({d}, T) <=> d \in T
  BY DEF Hits
<1> QED BY <1>2, <1>3, <1>4, <1>5, <1>6, <1>7, <1>8, <1>9, <1>10 DEF a

\* A reply is about a call of the node that reads it.
LEMMA ReplyAtHand ==
    ASSUME TypeOK, CallInv, NEW n \in Node, NEW p \in Packet, NEW ch, NEW df,
           Taken({<<p, n>>}, ch, df), CallerOf(p, n) = n
    PROVE  p.reqid \in ReqId /\ Hits({<<p, n>>}, About(n, p.reqid))
<1>1. LET a == CallerOf(p, n) IN
      /\ p.reqid \in ReqId
      /\ \A T : Hits({<<p, n>>}, T) <=> <<p, n>> \in T
      /\ \A x, y : <<p, n>> \in About(x, y) <=> x = a /\ y = p.reqid
  BY PacketAtHand
<1>2. <<p, n>> \in About(n, p.reqid)
  BY <1>1
<1> QED BY <1>1, <1>2

\* The node that makes a call is not the lmaster of its record.
LEMMA CallerOffLmaster ==
    ASSUME OffLmaster, TypeOK, NEW a \in Node, NEW s \in CallState, Serves(cl, s, a)
    PROVE  Lmaster[s.key] # a
<1>1. s.client \in Client /\ NodeOf[s.client] = a /\ cl[s.client].key = s.key
  BY DEF Serves, CallState
<1>2. s.key \in Wants[s.client]
  BY <1>1 DEF TypeOK
<1> QED BY <1>1, <1>2 DEF OffLmaster

\* A packet is answered by one about the same call.
LEMMA ExchangeKeeps ==
    ASSUME TypeOK, TypeOK', CallInv, ClientsOk', RolesCarried',
           NEW n \in Node, NEW p \in Packet, NEW m \in Node, NEW q \in Packet, NEW ch, NEW df,
           Taken({<<p, n>>}, ch, df), Sent({<<q, m>>}, ch, df), deferred' = df, ParkedRight(df),
           CallerOf(q, m) = CallerOf(p, n), q.reqid = p.reqid,
           cl' = cl, up' = up,
           \A x \in Node, y \in ReqId : SameCall(calls[x][y], calls'[x][y]),
           \A k \in Key : \/ Chosen(lt', k) = Chosen(lt, k) /\ applied'[k] = applied[k]
                          \/ ~ Present(Carrying(calls, k), ch, df),
           Agrees(lt', applied', calls', q, m)
    PROVE  CallInv'
<1> DEFINE P == {<<p, n>>}
           Q == {<<q, m>>}
           a == CallerOf(p, n)
<1>1. /\ p.op # "client_call" /\ a \in Node /\ p.reqid \in ReqId /\ calls[a][p.reqid] # None
      /\ \A T : Hits(P, T) <=> <<p, n>> \in T
      /\ \A x, y : <<p, n>> \in About(x, y) <=> x = a /\ y = p.reqid
  BY PacketAtHand
<1>2. q.op # "client_call" /\ <<q, m>> \in Delivery
  BY DEF Packet, ReqCall, ReqDmaster, ReplyDmaster, ReplyCall, ReplyRedirect, Delivery
<1>3. /\ \A x, y : <<q, m>> \in About(x, y) <=> x = a /\ y = p.reqid
      /\ \A T : Hits(Q, T) <=> <<q, m>> \in T
  BY <1>2, AboutOne DEF Hits
<1>4. \A c \in Client : ~ Hits(P, Asking(c)) /\ ~ Hits(Q, Asking(c))
  BY <1>1, <1>2, NotAsking
<1>5. \A d \in OnTheWay(ch, df) : d[1].op # "client_call" =>
              SameCall(CallOf(calls, d[1], d[2]), CallOf(calls', d[1], d[2]))
  <2> SUFFICES ASSUME NEW d \in OnTheWay(ch, df), d[1].op # "client_call"
               PROVE  SameCall(CallOf(calls, d[1], d[2]), CallOf(calls', d[1], d[2]))
    OBVIOUS
  <2>1. d \in Delivery
    BY WayTyped DEF Taken, TypeOK, Queues, Parkings
  <2>2. CallerOf(d[1], d[2]) \in Node /\ d[1].reqid \in ReqId
    BY <2>1, AboutOne
  <2> QED BY <2>2 DEF CallOf
<1>6. \A d \in Q : Agrees(lt', applied', calls', d[1], d[2])
  OBVIOUS
<1>7. \A x \in Node, y \in ReqId : calls'[x][y] # None <=> calls[x][y] # None
  BY DEF SameCall
<1>8. Taken(P, ch, df) /\ Sent(Q, ch, df)
  OBVIOUS
<1> HIDE DEF P, Q, a
<1>9. AllAgree(lt', applied', calls', chan', deferred')
  BY <1>5, <1>6, <1>8, AllAgreeStep DEF CallInv
<1>10. CallsCarried'
  <2>1. \A x \in Node, y \in ReqId : Hits(Q, About(x, y)) <=> Hits(P, About(x, y))
    BY <1>1, <1>3
  <2>2. \A x \in Node, y \in ReqId : Hits(P, About(x, y)) => calls[x][y] # None
    BY <1>1
  <2> QED BY <1>7, <1>8, <2>1, <2>2, CarriedStep DEF CallInv
<1>11. WaitersServed'
  BY <1>4, <1>8, WaitersSame DEF CallInv
<1> QED BY <1>9, <1>10, <1>11 DEF CallInv

\* A packet completes a call.
LEMMA CompleteKeeps ==
    ASSUME TypeOK, TypeOK', CallInv, ClientsOk', RolesCarried',
           NEW n \in Node, NEW p \in Packet, NEW ch, NEW df,
           Taken({<<p, n>>}, ch, df), chan' = ch, deferred' = df, ParkedRight(df),
           CallerOf(p, n) = n, CompleteCall(n, p.reqid), up' = up,
           \A k \in Key : \/ Chosen(lt', k) = Chosen(lt, k) /\ applied'[k] = applied[k]
                          \/ ~ Present(Carrying(calls, k), ch, df)
    PROVE  CallInv'
<1> DEFINE P == {<<p, n>>}
           r == p.reqid
<1>1. /\ p.op # "client_call" /\ r \in ReqId /\ calls[n][r] # None
      /\ \A T : Hits(P, T) <=> <<p, n>> \in T
      /\ \A x, y : <<p, n>> \in About(x, y) <=> x = n /\ y = r
  BY PacketAtHand
<1>2. Taken(P, ch, df) /\ Sent({}, ch, df) /\ CompleteCall(n, r)
  BY SendsNothing
<1>3. \A T : ~ Hits({}, T)
  BY DEF Hits
<1>4. \A c \in Client : ~ Hits(P, Asking(c))
  BY <1>1, NotAsking
<1> HIDE DEF P, r
<1>5. calls'[n][r] = None /\ \A x \in Node, y \in ReqId : x # n \/ y # r => calls'[x][y] = calls[x][y]
  BY <1>1, <1>2 DEF CompleteCall, TypeOK
<1>6. Hits(P, About(n, r))
  BY <1>1
<1>7. \A d \in OnTheWay(ch, df) : d[1].op # "client_call" =>
              SameCall(CallOf(calls, d[1], d[2]), CallOf(calls', d[1], d[2]))
  BY <1>1, <1>2, <1>5, <1>6, OthersKeep DEF CallInv
<1>8. AllAgree(lt', applied', calls', chan', deferred')
  BY <1>2, <1>7, AllAgreeStep DEF CallInv
<1>9. CallsCarried'
  <2>1. \A x \in Node, y \in ReqId : Hits(P, About(x, y)) <=> x = n /\ y = r
    BY <1>1
  <2>2. \A x \in Node, y \in ReqId : calls'[x][y] # None <=> calls[x][y] # None /\ ~ Hits(P, About(x, y))
    BY <1>5, <2>1
  <2> QED BY <1>2, <1>3, <2>2, CarriedStep DEF CallInv
<1>10. WaitersServed'
  BY <1>1, <1>2, <1>4, WaitersDone DEF CallInv
<1> QED BY <1>8, <1>9, <1>10 DEF CallInv
-----------------------------------------------------------------------------
(* The roles *)

\* The calls that packets are about are the same when all calls are.
LEMMA PacketsSame ==
    ASSUME TypeOK, NEW P, NEW ch, NEW df, Taken(P, ch, df),
           \A x \in Node, y \in ReqId : SameCall(calls[x][y], calls'[x][y])
    PROVE  \A d \in OnTheWay(ch, df) : d[1].op # "client_call" =>
              SameCall(CallOf(calls, d[1], d[2]), CallOf(calls', d[1], d[2]))
<1> SUFFICES ASSUME NEW d \in OnTheWay(ch, df), d[1].op # "client_call"
             PROVE  SameCall(CallOf(calls, d[1], d[2]), CallOf(calls', d[1], d[2]))
  OBVIOUS
<1>1. d \in Delivery
  BY WayTyped DEF Taken, TypeOK, Queues, Parkings
<1>2. CallerOf(d[1], d[2]) \in Node /\ d[1].reqid \in ReqId
  BY <1>1, AboutOne
<1> QED BY <1>2 DEF CallOf

\* A packet that is no token carries no role.
LEMMA CarriesNothing ==
    ASSUME NEW p, NEW n, ~ Token(p), NEW cs, NEW k
    PROVE  ~ Hits({<<p, n>>}, Carrying(cs, k))
BY DEF Hits, Carrying

\* A step that does not move the role of record k, except from one packet to another.
LEMMA RoleKept ==
    ASSUME TypeOK, TypeOK', NEW P, NEW Q, NEW ch, NEW df, Taken(P, ch, df), Sent(Q, ch, df),
           \A d \in OnTheWay(ch, df) : d[1].op # "client_call" =>
              SameCall(CallOf(calls, d[1], d[2]), CallOf(calls', d[1], d[2])),
           \A d \in Q : Token(d[1]) => SameCall(CallOf(calls, d[1], d[2]), CallOf(calls', d[1], d[2])),
           NEW k \in Key, RoleCarried(k),
           Hits(P, Carrying(calls, k)) <=> Hits(Q, Carrying(calls, k)),
           \A n \in Node : lt'[n][k].dmaster = lt[n][k].dmaster,
           \A n \in Node : lt[n][k].dmaster = n => lt'[n][k].data = applied'[k]
    PROVE  RoleCarried(k)'
<1>1. /\ AtMostOne(Carrying(calls, k), chan, deferred)
      /\ Hits(P, Carrying(calls, k)) => Present(Carrying(calls, k), chan, deferred)
  BY DEF RoleCarried, Taken, Present, Hits
<1>2. /\ AtMostOne(Carrying(calls', k), chan', deferred')
      /\ Present(Carrying(calls', k), chan', deferred') <=> Present(Carrying(calls, k), chan, deferred)
  BY <1>1, CarryingStep
<1>3. Chosen(lt', k) = Chosen(lt, k)
  BY ClusterAssumption DEF Chosen
<1> QED BY <1>2, <1>3 DEF RoleCarried

\* A function that runs on the latest body of a record, on node n.
LEMMA LocalRun ==
    ASSUME TypeOK, NEW n \in Node, NEW k \in Key, NEW rec \in Record, rec.dmaster = n, rec.data = applied[k],
           NEW func \in Func, NEW caller \in Node,
           ctdb_ltdb_store(n, k, ctdb_call_local(n, rec, rec, func, caller)), Perform(func, k)
    PROVE  /\ lt'[n][k].dmaster = n /\ lt'[n][k].data = applied'[k]
           /\ \A m \in Node, j \in Key : m # n \/ j # k => lt'[m][j] = lt[m][j]
           /\ \A j \in Key : j # k => applied'[j] = applied[j]
<1> DEFINE new == ctdb_call_local(n, rec, rec, func, caller)
<1>1. new.dmaster = n /\ new.data = NewData(func, rec.data)
  BY DEF ctdb_call_local, Record, NewData, Func
<1>2. lt' = [lt EXCEPT ![n][k] = new]
  BY DEF ctdb_ltdb_store
<1> HIDE DEF new
<1>3. lt'[n][k] = new /\ \A m \in Node, j \in Key : m # n \/ j # k => lt'[m][j] = lt[m][j]
  BY <1>2 DEF TypeOK
<1>4. /\ applied'[k] = NewData(func, applied[k])
      /\ \A j \in Key : j # k => applied'[j] = applied[j]
  BY DEF Perform, NewData, TypeOK, Func
<1> QED BY <1>1, <1>3, <1>4

\* The dmaster has the latest body, and the role is in no packet.
LEMMA DmasterHome ==
    ASSUME RolesCarried, NEW n \in Node, NEW k \in Key, lt[n][k].dmaster = n
    PROVE  /\ ~ Present(Carrying(calls, k), chan, deferred)
           /\ n = Chosen(lt, k) /\ n # Lmaster[k] /\ lt[n][k].data = applied[k]
           /\ \A m \in Node : lt[m][k].dmaster = m => m = n
BY DEF RolesCarried, RoleCarried

\* An update of record k on its dmaster n keeps all roles.
LEMMA UpdateKeepsRoles ==
    ASSUME TypeOK, TypeOK', RolesCarried, NEW P, NEW Q, NEW ch, NEW df, Taken(P, ch, df), Sent(Q, ch, df),
           \A d \in OnTheWay(ch, df) : d[1].op # "client_call" =>
              SameCall(CallOf(calls, d[1], d[2]), CallOf(calls', d[1], d[2])),
           \A d \in Q : Token(d[1]) => SameCall(CallOf(calls, d[1], d[2]), CallOf(calls', d[1], d[2])),
           \A k \in Key : ~ Hits(P, Carrying(calls, k)) /\ ~ Hits(Q, Carrying(calls, k)),
           NEW n \in Node, NEW k \in Key, lt[n][k].dmaster = n,
           lt'[n][k].dmaster = n, lt'[n][k].data = applied'[k],
           \A m \in Node, j \in Key : m # n \/ j # k => lt'[m][j] = lt[m][j],
           \A j \in Key : j # k => applied'[j] = applied[j]
    PROVE  /\ RolesCarried'
           /\ \A j \in Key : \/ Chosen(lt', j) = Chosen(lt, j) /\ applied'[j] = applied[j]
                             \/ ~ Present(Carrying(calls, j), ch, df)
<1>1. /\ ~ Present(Carrying(calls, k), chan, deferred)
      /\ \A m \in Node : lt[m][k].dmaster = m => m = n
  BY DmasterHome
<1>2. \A m \in Node, j \in Key : lt'[m][j].dmaster = lt[m][j].dmaster
  OBVIOUS
<1>3. ASSUME NEW j \in Key PROVE RoleCarried(j)'
  <2>1. RoleCarried(j)
    BY DEF RolesCarried
  <2>2. ASSUME NEW m \in Node, lt[m][j].dmaster = m PROVE lt'[m][j].data = applied'[j]
    <3>1. CASE j = k
      BY <1>1, <2>2, <3>1
    <3>2. CASE j # k
      BY <2>1, <2>2, <3>2 DEF RoleCarried
    <3> QED BY <3>1, <3>2
  <2> QED BY <1>2, <2>1, <2>2, RoleKept
<1>4. \A j \in Key : Chosen(lt', j) = Chosen(lt, j)
  BY <1>2, ClusterAssumption DEF Chosen
<1>5. ~ Present(Carrying(calls, k), ch, df)
  BY <1>1 DEF Present, Taken
<1> QED BY <1>3, <1>4, <1>5 DEF RolesCarried

\* A function that runs on the dmaster keeps all roles.
LEMMA RunKeepsRoles ==
    ASSUME TypeOK, TypeOK', RolesCarried, NEW P, NEW Q, NEW ch, NEW df, Taken(P, ch, df), Sent(Q, ch, df),
           \A d \in OnTheWay(ch, df) : d[1].op # "client_call" =>
              SameCall(CallOf(calls, d[1], d[2]), CallOf(calls', d[1], d[2])),
           \A d \in Q : Token(d[1]) => SameCall(CallOf(calls, d[1], d[2]), CallOf(calls', d[1], d[2])),
           \A k \in Key : ~ Hits(P, Carrying(calls, k)) /\ ~ Hits(Q, Carrying(calls, k)),
           NEW n \in Node, NEW k \in Key, lt[n][k].dmaster = n,
           NEW func \in Func, NEW caller \in Node,
           ctdb_ltdb_store(n, k, ctdb_call_local(n, lt[n][k], lt[n][k], func, caller)), Perform(func, k)
    PROVE  /\ RolesCarried'
           /\ \A j \in Key : \/ Chosen(lt', j) = Chosen(lt, j) /\ applied'[j] = applied[j]
                             \/ ~ Present(Carrying(calls, j), ch, df)
<1>1. lt[n][k] \in Record
  BY DEF TypeOK
<1>2. lt[n][k].data = applied[k]
  BY DmasterHome
<1>3. /\ lt'[n][k].dmaster = n /\ lt'[n][k].data = applied'[k]
      /\ \A m \in Node, j \in Key : m # n \/ j # k => lt'[m][j] = lt[m][j]
      /\ \A j \in Key : j # k => applied'[j] = applied[j]
  BY <1>1, <1>2, LocalRun
<1> QED BY <1>3, UpdateKeepsRoles

\* A step that leaves tdbs and counts alone and moves no role.
LEMMA QuietKeepsRoles ==
    ASSUME TypeOK, TypeOK', RolesCarried, NEW P, NEW Q, NEW ch, NEW df, Taken(P, ch, df), Sent(Q, ch, df),
           \A d \in OnTheWay(ch, df) : d[1].op # "client_call" =>
              SameCall(CallOf(calls, d[1], d[2]), CallOf(calls', d[1], d[2])),
           \A d \in Q : Token(d[1]) => SameCall(CallOf(calls, d[1], d[2]), CallOf(calls', d[1], d[2])),
           \A k \in Key : Hits(P, Carrying(calls, k)) <=> Hits(Q, Carrying(calls, k)),
           lt' = lt, applied' = applied
    PROVE  RolesCarried'
<1> SUFFICES ASSUME NEW k \in Key PROVE RoleCarried(k)'
  BY DEF RolesCarried
<1>1. RoleCarried(k)
  BY DEF RolesCarried
<1>2. \A m \in Node : lt[m][k].dmaster = m => lt'[m][k].data = applied'[k]
  BY <1>1 DEF RoleCarried
<1> QED BY <1>1, <1>2, RoleKept

-----------------------------------------------------------------------------
(* The packet handlers *)

\* ctdb_request_call on a node that is not the dmaster.
LEMMA RedirectKeeps ==
    ASSUME TypeOK, TypeOK', CallInv, ClientsOk', NEW n \in Node, NEW p \in Packet,
           NEW ch \in Queues, NEW df, Taken({<<p, n>>}, ch, df), ParkedRight(df),
           p.op = "req_call", ctdb_call_send_redirect(n, p, ch), deferred' = df,
           calls' = calls, cl' = cl, up' = up
    PROVE  CallInv'
<1> DEFINE q == [op |-> "reply_redirect", reqid |-> p.reqid, dmaster |-> lt[n][p.key].dmaster]
<1>1. p.src \in Node /\ p.reqid \in ReqId /\ p.key \in Key /\ lt[n][p.key].dmaster \in Node
  <2>1. p \in ReqCall
    BY PacketTypes
  <2>2. lt[n][p.key] \in Record
    BY <2>1 DEF ReqCall, TypeOK
  <2> QED BY <2>1, <2>2 DEF ReqCall, Record
<1>2. q \in Packet
  BY <1>1 DEF Packet, ReplyRedirect
<1>3. /\ q.op = "reply_redirect" /\ q.reqid = p.reqid /\ CallerOf(q, p.src) = p.src /\ CallerOf(p, n) = p.src
      /\ ~ Token(q) /\ ~ Token(p)
  BY DEF CallerOf, Token
<1>4. chan' = ctdb_queue_packet(ch, n, p.src, q) /\ lt' = lt /\ applied' = applied
  BY DEF ctdb_call_send_redirect
<1> HIDE DEF q
<1>5. Sent({<<q, p.src>>}, ch, df)
  BY <1>1, <1>2, <1>4, SendsOne
<1>6. \A x \in Node, y \in ReqId : SameCall(calls[x][y], calls'[x][y])
  BY DEF SameCall
<1>7. RolesCarried'
  <2>1. \A d \in {<<q, p.src>>} : ~ Token(d[1])
    BY <1>3
  <2>2. \A k \in Key : ~ Hits({<<p, n>>}, Carrying(calls, k)) /\ ~ Hits({<<q, p.src>>}, Carrying(calls, k))
    BY <1>3, CarriesNothing
  <2>3. \A d \in OnTheWay(ch, df) : d[1].op # "client_call" =>
              SameCall(CallOf(calls, d[1], d[2]), CallOf(calls', d[1], d[2]))
    BY <1>6, PacketsSame
  <2> QED BY <1>4, <1>5, <2>1, <2>2, <2>3, QuietKeepsRoles DEF CallInv
<1>8. Agrees(lt', applied', calls', q, p.src)
  <2>1. CallOf(calls, p, n) # None
    BY PacketAtHand DEF Agrees
  <2>2. CallOf(calls', q, p.src) # None
    BY <1>3, <2>1 DEF CallOf
  <2> QED BY <1>3, <2>2 DEF Agrees
<1> QED BY <1>1, <1>2, <1>3, <1>4, <1>5, <1>6, <1>7, <1>8, ExchangeKeeps

\* ctdb_request_call on the dmaster, when the record stays.
LEMMA CallHereKeeps ==
    ASSUME TypeOK, TypeOK', CallInv, ClientsOk', NEW n \in Node, NEW p \in Packet,
           NEW ch \in Queues, NEW df, Taken({<<p, n>>}, ch, df), ParkedRight(df),
           p.op = "req_call", CallHere(n, p, ch), deferred' = df,
           calls' = calls, cl' = cl, up' = up
    PROVE  CallInv'
<1> DEFINE q == [op |-> "reply_call", reqid |-> p.reqid]
<1>1. p.src \in Node /\ p.reqid \in ReqId /\ p.key \in Key /\ p.func \in Func
  BY PacketTypes DEF ReqCall
<1>2. q \in Packet
  BY <1>1 DEF Packet, ReplyCall
<1>3. /\ q.op = "reply_call" /\ q.reqid = p.reqid /\ CallerOf(q, p.src) = p.src /\ CallerOf(p, n) = p.src
      /\ ~ Token(q) /\ ~ Token(p)
  BY DEF CallerOf, Token
<1>4. /\ chan' = ctdb_queue_packet(ch, n, p.src, q) /\ lt[n][p.key].dmaster = n
      /\ ctdb_ltdb_store(n, p.key, ctdb_call_local(n, lt[n][p.key], lt[n][p.key], p.func, p.src))
      /\ Perform(p.func, p.key)
  BY DEF CallHere
<1> HIDE DEF q
<1>5. Sent({<<q, p.src>>}, ch, df)
  BY <1>1, <1>2, <1>4, SendsOne
<1>6. \A x \in Node, y \in ReqId : SameCall(calls[x][y], calls'[x][y])
  BY DEF SameCall
<1>7. /\ RolesCarried'
      /\ \A j \in Key : \/ Chosen(lt', j) = Chosen(lt, j) /\ applied'[j] = applied[j]
                        \/ ~ Present(Carrying(calls, j), ch, df)
  <2>1. \A d \in {<<q, p.src>>} : ~ Token(d[1])
    BY <1>3
  <2>2. \A k \in Key : ~ Hits({<<p, n>>}, Carrying(calls, k)) /\ ~ Hits({<<q, p.src>>}, Carrying(calls, k))
    BY <1>3, CarriesNothing
  <2>3. \A d \in OnTheWay(ch, df) : d[1].op # "client_call" =>
              SameCall(CallOf(calls, d[1], d[2]), CallOf(calls', d[1], d[2]))
    BY <1>6, PacketsSame
  <2>4. RolesCarried
    BY DEF CallInv
  <2> QED BY <1>1, <1>4, <1>5, <2>1, <2>2, <2>3, <2>4, RunKeepsRoles
<1>8. Agrees(lt', applied', calls', q, p.src)
  <2>1. CallOf(calls, p, n) # None
    BY PacketAtHand DEF Agrees
  <2>2. CallOf(calls', q, p.src) # None
    BY <1>3, <2>1 DEF CallOf
  <2> QED BY <1>3, <2>2 DEF Agrees
<1> QED BY <1>1, <1>2, <1>3, <1>5, <1>6, <1>7, <1>8, ExchangeKeeps

\* ctdb_request_call on the dmaster, when the record migrates.
LEMMA SendDmasterKeeps ==
    ASSUME TypeOK, TypeOK', CallInv, ClientsOk', NEW n \in Node, NEW p \in Packet,
           NEW ch \in Queues, NEW df, Taken({<<p, n>>}, ch, df), ParkedRight(df),
           p.op = "req_call", ctdb_call_send_dmaster(n, p, ch), deferred' = df,
           calls' = calls, cl' = cl, up' = up
    PROVE  CallInv'
<1> DEFINE q == [op |-> "req_dmaster", src |-> n, reqid |-> p.reqid, key |-> p.key,
                 dmaster |-> p.src, data |-> lt[n][p.key].data]
<1>0. PICK k \in Key : p.key = k
  BY PacketTypes DEF ReqCall
<1> DEFINE m == Lmaster[k]
           Q == {<<q, m>>}
<1>1. /\ p.src \in Node /\ p.reqid \in ReqId /\ m \in Node /\ lt[n][k] \in Record
      /\ lt[n][k].data \in Nat
  <2>1. p \in ReqCall
    BY PacketTypes
  <2>2. lt[n][k] \in Record
    BY DEF TypeOK
  <2> QED BY <2>1, <2>2, ClusterAssumption DEF ReqCall, Record
<1>2. q \in Packet
  BY <1>0, <1>1 DEF Packet, ReqDmaster
<1>3. /\ q.op = "req_dmaster" /\ q.reqid = p.reqid /\ q.src = n /\ q.key = k /\ q.data = lt[n][k].data
      /\ CallerOf(q, m) = p.src /\ CallerOf(p, n) = p.src
      /\ Token(q) /\ ~ Token(p)
  BY <1>0 DEF CallerOf, Token
<1>4. /\ chan' = ctdb_queue_packet(ch, n, m, q) /\ lt[n][k].dmaster = n
      /\ lt' = [lt EXCEPT ![n][k] = [lt[n][k] EXCEPT !.dmaster = m]] /\ applied' = applied
  BY <1>0 DEF ctdb_call_send_dmaster, ctdb_ltdb_store
<1> HIDE DEF q, m
<1>5. Sent(Q, ch, df)
  BY <1>1, <1>2, <1>4, SendsOne
<1>6. \A x \in Node, y \in ReqId : SameCall(calls[x][y], calls'[x][y])
  BY DEF SameCall
<1>7. /\ ~ Present(Carrying(calls, k), chan, deferred)
      /\ n = Chosen(lt, k) /\ n # m /\ lt[n][k].data = applied[k]
      /\ \A x \in Node : lt[x][k].dmaster = x => x = n
  BY <1>4, DmasterHome DEF CallInv, m
<1>8. /\ lt'[n][k].dmaster = m
      /\ \A x \in Node, j \in Key : x # n \/ j # k => lt'[x][j] = lt[x][j]
  BY <1>1, <1>4 DEF TypeOK, Record
<1>9. \A j \in Key : Chosen(lt', j) = Chosen(lt, j)
  BY <1>7, <1>8, ClusterAssumption DEF Chosen, m
<1>10. /\ CallOf(calls, q, m) = CallOf(calls, p, n) /\ CallOf(calls, q, m) # None
       /\ CallOf(calls, q, m).key = k
  <2>1. CallOf(calls, p, n) # None /\ CallOf(calls, p, n).key = k
    BY <1>0, PacketAtHand DEF Agrees
  <2> QED BY <1>3, <2>1 DEF CallOf
<1>11. /\ \A d \in Q : Token(d[1]) => SameCall(CallOf(calls, d[1], d[2]), CallOf(calls', d[1], d[2]))
       /\ \A j \in Key : ~ Hits({<<p, n>>}, Carrying(calls, j))
       /\ \A j \in Key : Hits(Q, Carrying(calls, j)) <=> j = k
  <2>1. <<q, m>> \in Delivery
    BY <1>1, <1>2 DEF Delivery
  <2>2. \A j : <<q, m>> \in Carrying(calls, j) <=> j = k
    BY <1>3, <1>10, <2>1, CarryingOne
  <2>3. \A j \in Key : ~ Hits({<<p, n>>}, Carrying(calls, j))
    BY <1>3, CarriesNothing
  <2> QED BY <2>2, <2>3 DEF Hits, SameCall
<1> HIDE DEF Q
<1>12. \A d \in OnTheWay(ch, df) : d[1].op # "client_call" =>
              SameCall(CallOf(calls, d[1], d[2]), CallOf(calls', d[1], d[2]))
  BY <1>6, PacketsSame
<1>13. ASSUME NEW j \in Key PROVE RoleCarried(j)'
  <2>1. RoleCarried(j)
    BY DEF CallInv, RolesCarried
  <2>2. CASE j # k
    <3>1. \A x \in Node : lt'[x][j] = lt[x][j]
      BY <1>8, <2>2
    <3>2. \A x \in Node : lt[x][j].dmaster = x => lt'[x][j].data = applied'[j]
      BY <1>4, <2>1, <3>1 DEF RoleCarried
    <3> QED BY <1>5, <1>11, <1>12, <2>1, <2>2, <3>1, <3>2, RoleKept
  <2>3. CASE j = k
    <3>1. AtMostOne(Carrying(calls, k), chan, deferred)
      BY <2>1, <2>3 DEF RoleCarried
    <3>2. AtMostOne(Carrying(calls', k), chan', deferred') /\ Present(Carrying(calls', k), chan', deferred')
      BY <1>5, <1>7, <1>11, <1>12, <3>1, CarryingStep
    <3>3. \A x \in Node : lt'[x][k].dmaster # x
      BY <1>7, <1>8
    <3>4. Chosen(lt', k) # Lmaster[k]
      BY <1>9, <2>1, <2>3 DEF RoleCarried
    <3> QED BY <2>3, <3>2, <3>3, <3>4 DEF RoleCarried
  <2> QED BY <2>2, <2>3
<1>14. Agrees(lt', applied', calls', q, m)
  BY <1>3, <1>4, <1>7, <1>9, <1>10 DEF Agrees, m, Token
<1>15. RolesCarried'
  BY <1>13 DEF RolesCarried
<1>16. Sent({<<q, m>>}, ch, df)
  BY <1>5 DEF Q
<1> QED BY <1>1, <1>2, <1>3, <1>4, <1>6, <1>9, <1>14, <1>15, <1>16, ExchangeKeeps

\* The role is at hand: nobody is dmaster, and what is left carries it no more.
LEMMA RoleAtHand ==
    ASSUME TypeOK, CallInv, NEW n \in Node, NEW p \in Packet, NEW ch, NEW df,
           Taken({<<p, n>>}, ch, df), Token(p)
    PROVE  LET k == CallOf(calls, p, n).key
           IN  /\ k \in Key /\ p.data = applied[k]
               /\ \A j \in Key : Hits({<<p, n>>}, Carrying(calls, j)) <=> j = k
               /\ AtMostOne(Carrying(calls, k), chan, deferred)
               /\ Present(Carrying(calls, k), chan, deferred) /\ ~ Present(Carrying(calls, k), ch, df)
               /\ \A x \in Node : lt[x][k].dmaster # x
<1> DEFINE P == {<<p, n>>}
<1>0. PICK k \in Key : k = CallOf(calls, p, n).key
  BY PacketAtHand
<1>1. CallOf(calls, p, n) # None /\ p.data = applied[k]
  BY <1>0, PacketAtHand DEF Agrees, Token
<1>2. \A j : <<p, n>> \in Carrying(calls, j) <=> j = k
  <2>1. <<p, n>> \in Delivery
    BY DEF Delivery
  <2> QED BY <1>0, <1>1, <2>1, CarryingOne
<1>3. \A j : Hits(P, Carrying(calls, j)) <=> j = k
  BY <1>2 DEF Hits
<1>4. RoleCarried(k)
  BY DEF CallInv, RolesCarried
<1>5. AtMostOne(Carrying(calls, k), chan, deferred)
  BY <1>4 DEF RoleCarried
<1>6. ~ Present(Carrying(calls, k), ch, df)
  BY <1>3, <1>5 DEF Taken
<1>7. Present(Carrying(calls, k), chan, deferred)
  BY <1>2 DEF Taken, Present
<1>8. \A x \in Node : lt[x][k].dmaster # x
  BY <1>4, <1>7 DEF RoleCarried
<1> QED BY <1>0, <1>1, <1>3, <1>5, <1>6, <1>7, <1>8

\* ctdb_request_dmaster never meets its protocol error.
LEMMA NoProtocolError ==
    ASSUME TypeOK, CallInv, NEW n \in Node, NEW p \in Packet, NEW ch, NEW df,
           Taken({<<p, n>>}, ch, df), p.op = "req_dmaster"
    PROVE  ~ ProtocolError(n, p)
<1>1. n = Lmaster[p.key] /\ p.src = Chosen(lt, p.key)
  BY PacketAtHand DEF Agrees
<1> QED BY <1>1 DEF ProtocolError, Chosen

\* ctdb_request_dmaster on the lmaster.
LEMMA RequestDmasterKeeps ==
    ASSUME OffLmaster, TypeOK, TypeOK', CallInv, ClientsOk', NEW n \in Node, NEW p \in Packet,
           NEW ch \in Queues, NEW df, Taken({<<p, n>>}, ch, df), ParkedRight(df),
           ctdb_request_dmaster(n, p, ch, df)
    PROVE  CallInv'
<1> DEFINE q == [op |-> "reply_dmaster", reqid |-> p.reqid, data |-> p.data]
           P == {<<p, n>>}
           m == p.dmaster
           Q == {<<q, m>>}
<1>a. p.op = "req_dmaster" /\ Token(p) /\ p \in ReqDmaster /\ CallerOf(p, n) = m
  BY PacketTypes DEF ctdb_request_dmaster, Token, CallerOf
<1>0. PICK k \in Key : CallOf(calls, p, n).key = k
  BY PacketAtHand
<1>b. /\ p.key = k /\ n = Lmaster[k] /\ CallOf(calls, p, n) # None
      /\ Lmaster[k] # m
  <2>1. Agrees(lt, applied, calls, p, n)
    BY PacketAtHand
  <2>2. p.key = k /\ n = Lmaster[k] /\ CallOf(calls, p, n) # None
    BY <1>0, <1>a, <2>1 DEF Agrees
  <2>3. LET a == CallerOf(p, n) IN
        /\ a \in Node /\ calls[a][p.reqid] \in CallState /\ Serves(cl, calls[a][p.reqid], a)
        /\ CallOf(calls, p, n) = calls[a][p.reqid]
    BY PacketAtHand
  <2>4. /\ m \in Node /\ calls[m][p.reqid] \in CallState /\ Serves(cl, calls[m][p.reqid], m)
        /\ calls[m][p.reqid].key = k
    <3> HIDE DEF m
    <3> QED BY <1>0, <1>a, <2>3
  <2>5. Lmaster[k] # m
    BY <2>4, CallerOffLmaster
  <2> QED BY <2>2, <2>5
<1>c. /\ p.data = applied[k]
      /\ \A j \in Key : Hits(P, Carrying(calls, j)) <=> j = k
      /\ AtMostOne(Carrying(calls, k), chan, deferred)
      /\ Present(Carrying(calls, k), chan, deferred) /\ ~ Present(Carrying(calls, k), ch, df)
      /\ \A x \in Node : lt[x][k].dmaster # x
  BY <1>0, <1>a, RoleAtHand
<1>1. m \in Node /\ p.reqid \in ReqId /\ p.data \in Nat /\ lt[n][k] \in Record
  BY <1>a DEF ReqDmaster, TypeOK
<1>2. q \in Packet
  BY <1>1 DEF Packet, ReplyDmaster
<1>3. /\ q.op = "reply_dmaster" /\ q.reqid = p.reqid /\ q.data = p.data
      /\ CallerOf(q, m) = m /\ Token(q)
  BY DEF CallerOf, Token
<1>4. /\ chan' = ctdb_queue_packet(ch, n, m, q) /\ deferred' = df
      /\ lt' = [lt EXCEPT ![n][k] = [lt[n][k] EXCEPT !.dmaster = m, !.data = p.data]]
      /\ applied' = applied /\ calls' = calls /\ cl' = cl /\ up' = up
  BY <1>b DEF ctdb_request_dmaster, ctdb_ltdb_store
<1> HIDE DEF q
<1>5. Sent(Q, ch, df)
  BY <1>1, <1>2, <1>4, SendsOne
<1>6. \A x \in Node, y \in ReqId : SameCall(calls[x][y], calls'[x][y])
  BY <1>4 DEF SameCall
<1>8. /\ lt'[n][k].dmaster = m
      /\ \A x \in Node, j \in Key : x # n \/ j # k => lt'[x][j] = lt[x][j]
  BY <1>1, <1>4 DEF TypeOK, Record
<1>9. /\ Chosen(lt', k) = m
      /\ \A j \in Key : j # k => Chosen(lt', j) = Chosen(lt, j)
  BY <1>8, <1>b, ClusterAssumption DEF Chosen
<1>10. CallOf(calls, q, m) = CallOf(calls, p, n)
  BY <1>3, <1>a DEF CallOf
<1>11. /\ \A d \in Q : Token(d[1]) => SameCall(CallOf(calls, d[1], d[2]), CallOf(calls', d[1], d[2]))
       /\ \A j \in Key : Hits(Q, Carrying(calls, j)) <=> j = k
  <2>1. <<q, m>> \in Delivery
    BY <1>1, <1>2 DEF Delivery
  <2>2. \A j : <<q, m>> \in Carrying(calls, j) <=> j = k
    BY <1>0, <1>3, <1>b, <1>10, <2>1, CarryingOne
  <2> QED BY <1>4, <2>2 DEF Hits, SameCall
<1>16. Sent({<<q, m>>}, ch, df)
  BY <1>5
<1> HIDE DEF Q, P
<1>12. \A d \in OnTheWay(ch, df) : d[1].op # "client_call" =>
              SameCall(CallOf(calls, d[1], d[2]), CallOf(calls', d[1], d[2]))
  BY <1>6, PacketsSame DEF P
<1>17. Taken(P, ch, df)
  BY DEF P
<1>13. ASSUME NEW j \in Key PROVE RoleCarried(j)'
  <2>1. RoleCarried(j)
    BY DEF CallInv, RolesCarried
  <2>2. CASE j # k
    <3>1. \A x \in Node : lt'[x][j] = lt[x][j]
      BY <1>8, <2>2
    <3>2. \A x \in Node : lt[x][j].dmaster = x => lt'[x][j].data = applied'[j]
      BY <1>4, <2>1, <3>1 DEF RoleCarried
    <3> QED BY <1>5, <1>17, <1>c, <1>11, <1>12, <2>1, <2>2, <3>1, <3>2, RoleKept
  <2>3. CASE j = k
    <3>2. AtMostOne(Carrying(calls', k), chan', deferred') /\ Present(Carrying(calls', k), chan', deferred')
      BY <1>5, <1>17, <1>c, <1>11, <1>12, CarryingStep
    <3>3. \A x \in Node : lt'[x][k].dmaster # x
      BY <1>8, <1>b, <1>c
    <3> QED BY <1>9, <1>b, <2>3, <3>2, <3>3 DEF RoleCarried
  <2> QED BY <2>2, <2>3
<1>14. Agrees(lt', applied', calls', q, m)
  BY <1>0, <1>3, <1>4, <1>9, <1>10, <1>b, <1>c DEF Agrees, Token
<1>15. RolesCarried'
  BY <1>13 DEF RolesCarried
<1>18. \A j \in Key : \/ Chosen(lt', j) = Chosen(lt, j) /\ applied'[j] = applied[j]
                      \/ ~ Present(Carrying(calls, j), ch, df)
  BY <1>4, <1>9, <1>c
<1> QED BY <1>1, <1>2, <1>3, <1>4, <1>6, <1>a, <1>14, <1>15, <1>16, <1>18, ExchangeKeeps

\* ctdb_reply_dmaster on the node that asked for the role.
LEMMA ReplyDmasterKeeps ==
    ASSUME OffLmaster, TypeOK, TypeOK', CallInv, ClientsOk', NEW n \in Node, NEW p \in Packet,
           NEW ch \in Queues, NEW df, Taken({<<p, n>>}, ch, df), ParkedRight(df),
           ctdb_reply_dmaster(n, p, ch, df)
    PROVE  CallInv'
<1> DEFINE P == {<<p, n>>}
           s == calls[n][p.reqid]
           rec == [dmaster |-> n, laccessor |-> s.laccessor, lacount |-> s.lacount, data |-> p.data]
<1>a. p.op = "reply_dmaster" /\ Token(p) /\ p \in ReplyDmaster /\ CallerOf(p, n) = n
  BY PacketTypes DEF ctdb_reply_dmaster, Token, CallerOf
<1>0. PICK k \in Key : CallOf(calls, p, n).key = k
  BY PacketAtHand
<1>b. /\ CallOf(calls, p, n) = s /\ s.key = k /\ s \in CallState /\ p.reqid \in ReqId
      /\ n = Chosen(lt, k) /\ Lmaster[k] # n
  <2>1. Agrees(lt, applied, calls, p, n) /\ p.reqid \in ReqId
    BY PacketAtHand
  <2>2. CallOf(calls, p, n) = s
    BY <1>a DEF CallOf
  <2>3. s.key = k /\ s # None /\ n = Chosen(lt, k)
    BY <1>0, <1>a, <2>1, <2>2 DEF Agrees
  <2>4. s \in CallState /\ Serves(cl, s, n)
    BY <2>1, <2>3, CallEntryType DEF CallInv, WaitersServed, CallsServe
  <2> HIDE DEF s
  <2>5. Lmaster[k] # n
    BY <2>3, <2>4, CallerOffLmaster
  <2> QED BY <2>1, <2>2, <2>3, <2>4, <2>5
<1>c. /\ p.data = applied[k]
      /\ \A j \in Key : Hits(P, Carrying(calls, j)) <=> j = k
      /\ AtMostOne(Carrying(calls, k), chan, deferred)
      /\ Present(Carrying(calls, k), chan, deferred) /\ ~ Present(Carrying(calls, k), ch, df)
      /\ \A x \in Node : lt[x][k].dmaster # x
  BY <1>0, <1>a, RoleAtHand
<1>1. rec \in Record /\ rec.dmaster = n /\ rec.data = applied[k] /\ s.func \in Func
  <2>1. s.laccessor \in Node /\ s.lacount \in Nat /\ s.func \in Func
    BY <1>b DEF CallState
  <2>2. p.data \in Nat
    BY <1>a DEF ReplyDmaster
  <2> HIDE DEF s
  <2> QED BY <1>c, <2>1, <2>2 DEF Record
<1>2. /\ ctdb_ltdb_store(n, k, ctdb_call_local(n, rec, rec, s.func, n)) /\ Perform(s.func, k)
      /\ CompleteCall(n, p.reqid) /\ chan' = ch /\ deferred' = df /\ up' = up
  BY <1>b DEF ctdb_reply_dmaster
<1> HIDE DEF rec, s
<1>3. /\ lt'[n][k].dmaster = n /\ lt'[n][k].data = applied'[k]
      /\ \A m \in Node, j \in Key : m # n \/ j # k => lt'[m][j] = lt[m][j]
      /\ \A j \in Key : j # k => applied'[j] = applied[j]
  BY <1>1, <1>2, LocalRun
<1>4. \A j \in Key : Chosen(lt', j) = Chosen(lt, j)
  BY <1>3, <1>b, ClusterAssumption DEF Chosen
<1>5. /\ \A x \in Node, y \in ReqId : x # n \/ y # p.reqid => calls'[x][y] = calls[x][y]
      /\ Hits(P, About(n, p.reqid))
  <2>1. \A x \in Node, y \in ReqId : x # n \/ y # p.reqid => calls'[x][y] = calls[x][y]
    BY <1>2, <1>b DEF CompleteCall, TypeOK
  <2> QED BY <1>a, <2>1, ReplyAtHand
<1>6. Taken(P, ch, df) /\ Sent({}, ch, df)
  BY <1>2, SendsNothing
<1> HIDE DEF P
<1>7. \A d \in OnTheWay(ch, df) : d[1].op # "client_call" =>
              SameCall(CallOf(calls, d[1], d[2]), CallOf(calls', d[1], d[2]))
  BY <1>5, <1>6, <1>b, OthersKeep DEF CallInv
<1>8. \A T : ~ Hits({}, T)
  BY DEF Hits
<1>9. ASSUME NEW j \in Key PROVE RoleCarried(j)'
  <2>1. RoleCarried(j)
    BY DEF CallInv, RolesCarried
  <2>2. CASE j # k
    <3>1. \A x \in Node : lt'[x][j] = lt[x][j]
      BY <1>3, <2>2
    <3>2. \A x \in Node : lt[x][j].dmaster = x => lt'[x][j].data = applied'[j]
      BY <1>3, <2>1, <2>2, <3>1 DEF RoleCarried
    <3> QED BY <1>6, <1>7, <1>8, <1>c, <2>1, <2>2, <3>1, <3>2, RoleKept
  <2>3. CASE j = k
    <3>1. AtMostOne(Carrying(calls', k), chan', deferred') /\ ~ Present(Carrying(calls', k), chan', deferred')
      BY <1>6, <1>7, <1>8, <1>c, CarryingStep
    <3>2. \A x \in Node : lt'[x][k].dmaster = x <=> x = n
      BY <1>3, <1>c
    <3> QED BY <1>3, <1>4, <1>b, <2>3, <3>1, <3>2 DEF RoleCarried
  <2> QED BY <2>2, <2>3
<1>10. RolesCarried'
  BY <1>9 DEF RolesCarried
<1>11. \A j \in Key : \/ Chosen(lt', j) = Chosen(lt, j) /\ applied'[j] = applied[j]
                      \/ ~ Present(Carrying(calls, j), ch, df)
  BY <1>3, <1>4, <1>c
<1> QED BY <1>2, <1>10, <1>11, <1>a, CompleteKeeps

\* ctdb_reply_call.
LEMMA ReplyCallKeeps ==
    ASSUME TypeOK, TypeOK', CallInv, ClientsOk', NEW n \in Node, NEW p \in Packet,
           NEW ch \in Queues, NEW df, Taken({<<p, n>>}, ch, df), ParkedRight(df),
           ctdb_reply_call(n, p, ch, df)
    PROVE  CallInv'
<1> DEFINE P == {<<p, n>>}
<1>a. /\ p.op = "reply_call" /\ ~ Token(p) /\ CallerOf(p, n) = n
      /\ CompleteCall(n, p.reqid) /\ chan' = ch /\ deferred' = df /\ up' = up
      /\ lt' = lt /\ applied' = applied
  BY DEF ctdb_reply_call, Token, CallerOf
<1>b. p.reqid \in ReqId /\ Hits(P, About(n, p.reqid))
  BY <1>a, ReplyAtHand
<1>1. \A x \in Node, y \in ReqId : x # n \/ y # p.reqid => calls'[x][y] = calls[x][y]
  BY <1>a, <1>b DEF CompleteCall, TypeOK
<1>2. Taken(P, ch, df) /\ Sent({}, ch, df)
  BY <1>a, SendsNothing
<1>3. \A j \in Key : ~ Hits(P, Carrying(calls, j)) /\ ~ Hits({}, Carrying(calls, j))
  BY <1>a, CarriesNothing DEF Hits
<1> HIDE DEF P
<1>4. \A d \in OnTheWay(ch, df) : d[1].op # "client_call" =>
              SameCall(CallOf(calls, d[1], d[2]), CallOf(calls', d[1], d[2]))
  BY <1>1, <1>2, <1>b, OthersKeep DEF CallInv
<1>5. RolesCarried'
  BY <1>2, <1>3, <1>4, <1>a, QuietKeepsRoles DEF CallInv
<1> QED BY <1>5, <1>a, CompleteKeeps

\* ctdb_reply_redirect.
LEMMA ReplyRedirectKeeps ==
    ASSUME TypeOK, TypeOK', CallInv, ClientsOk', NEW n \in Node, NEW p \in Packet,
           NEW ch \in Queues, NEW df, Taken({<<p, n>>}, ch, df), ParkedRight(df),
           ctdb_reply_redirect(n, p, ch, df)
    PROVE  CallInv'
<1> DEFINE r == p.reqid
           s == calls[n][r]
           q == [op |-> "req_call", src |-> n, reqid |-> p.reqid, key |-> s.key,
                 func |-> s.func, imm |-> s.imm]
           P == {<<p, n>>}
<1>a. /\ p.op = "reply_redirect" /\ ~ Token(p) /\ CallerOf(p, n) = n
      /\ deferred' = df /\ lt' = lt /\ applied' = applied /\ cl' = cl /\ up' = up
  BY DEF ctdb_reply_redirect, Token, CallerOf
<1>b. r \in ReqId /\ s # None /\ s \in CallState /\ CallOf(calls, p, n) = s
  BY <1>a, PacketAtHand
<1>1. PICK m \in Node : chan' = ctdb_queue_packet(ch, n, m, q)
  <2>1. (IF s.redirects = MaxRedirect THEN Lmaster[s.key] ELSE p.dmaster) \in Node
    <3>1. p.dmaster \in Node
      BY <1>a, PacketTypes DEF ReplyRedirect
    <3>2. Lmaster[s.key] \in Node
      BY <1>b, ClusterAssumption DEF CallState
    <3> QED BY <3>1, <3>2
  <2>2. chan' = ctdb_queue_packet(ch, n, IF s.redirects = MaxRedirect THEN Lmaster[s.key] ELSE p.dmaster, q)
    BY DEF ctdb_reply_redirect
  <2> QED BY <2>1, <2>2
<1> DEFINE Q == {<<q, m>>}
<1>2. q \in Packet
  BY <1>b DEF Packet, ReqCall, CallState
<1>3. /\ q.op = "req_call" /\ q.reqid = r /\ q.key = s.key /\ q.func = s.func /\ q.imm = s.imm
      /\ CallerOf(q, m) = n /\ ~ Token(q)
  BY DEF CallerOf, Token
<1>4. /\ SameCall(s, calls'[n][r])
      /\ \A x \in Node, y \in ReqId : x # n \/ y # r => calls'[x][y] = calls[x][y]
  <2> DEFINE t == IF s.redirects > MaxRedirect THEN s.redirects ELSE s.redirects + 1
  <2>1. calls' = [calls EXCEPT ![n][r] = [s EXCEPT !.redirects = t]]
    BY DEF ctdb_reply_redirect
  <2>2. t \in 0..MaxRedirect + 1
    BY <1>b, BoundsAssumption DEF CallState
  <2>3. [s EXCEPT !.redirects = t] \in CallState
    BY <1>b, <2>2 DEF CallState
  <2> HIDE DEF t
  <2>4. /\ calls'[n][r] = [s EXCEPT !.redirects = t]
        /\ \A x \in Node, y \in ReqId : x # n \/ y # r => calls'[x][y] = calls[x][y]
    BY <1>b, <2>1 DEF TypeOK
  <2>5. calls'[n][r] # None
    BY <2>3, <2>4, NoneAssumption
  <2>6. /\ calls'[n][r].client = s.client /\ calls'[n][r].key = s.key
        /\ calls'[n][r].func = s.func /\ calls'[n][r].imm = s.imm
    BY <1>b, <2>4 DEF CallState
  <2> QED BY <1>b, <2>4, <2>5, <2>6 DEF SameCall
<1>5. Sent(Q, ch, df)
  BY <1>1, <1>2, <1>a, SendsOne
<1>6. \A x \in Node, y \in ReqId : SameCall(calls[x][y], calls'[x][y])
  <2> SUFFICES ASSUME NEW x \in Node, NEW y \in ReqId PROVE SameCall(calls[x][y], calls'[x][y])
    OBVIOUS
  <2>1. CASE x = n /\ y = r
    BY <1>4, <2>1
  <2>2. CASE x # n \/ y # r
    BY <1>4, <2>2 DEF SameCall
  <2> QED BY <2>1, <2>2
<1> HIDE DEF q
<1>7. Agrees(lt', applied', calls', q, m)
  <2>1. CallOf(calls', q, m) = calls'[n][r]
    BY <1>3 DEF CallOf
  <2> QED BY <1>3, <1>4, <1>b, <2>1 DEF Agrees, SameCall
<1>8. \A j \in Key : ~ Hits(P, Carrying(calls, j)) /\ ~ Hits(Q, Carrying(calls, j))
  BY <1>3, <1>a, CarriesNothing
<1>9. Taken(P, ch, df) /\ \A d \in Q : ~ Token(d[1])
  BY <1>3
<1>10. Sent({<<q, m>>}, ch, df) /\ CallerOf(q, m) = CallerOf(p, n) /\ q.reqid = p.reqid
  BY <1>3, <1>5, <1>a
<1> HIDE DEF P, Q, s, r
<1>11. \A d \in OnTheWay(ch, df) : d[1].op # "client_call" =>
              SameCall(CallOf(calls, d[1], d[2]), CallOf(calls', d[1], d[2]))
  BY <1>6, <1>9, PacketsSame
<1>12. RolesCarried'
  BY <1>5, <1>8, <1>9, <1>11, <1>a, QuietKeepsRoles DEF CallInv
<1> QED BY <1>2, <1>6, <1>7, <1>10, <1>12, <1>a, ExchangeKeeps
-----------------------------------------------------------------------------
(* The steps of the daemons *)

\* Taking a parked packet away leaves the others.
LEMMA ParkedLess ==
    ASSUME NEW df \in Parkings, ParkedRight(df), NEW n \in Node, NEW h \in DOMAIN df[n]
    PROVE  ParkedRight([df EXCEPT ![n] = RemoveAt(@, h)])
<1> DEFINE d2 == [df EXCEPT ![n] = RemoveAt(@, h)]
           s == df[n]
           t == RemoveAt(s, h)
<1>1. s \in Seq(Parked) /\ Len(s) \in Nat /\ DOMAIN s = 1..Len(s) /\ h \in DOMAIN s
  BY DEF Parkings
<1>2. /\ t \in Seq(Parked) /\ Len(t) = Len(s) - 1
      /\ \A j \in 1..Len(s) - 1 : t[j] = IF j < h THEN s[j] ELSE s[j + 1]
  BY <1>1, RemoveAtProperties
<1>3. d2[n] = t /\ \A y \in Node : y # n => d2[y] = df[y]
  BY DEF Parkings
<1> HIDE DEF t, d2
<1>4. ASSUME NEW j \in DOMAIN t PROVE \E i \in DOMAIN s : t[j] = s[i]
  <2>1. j \in 1..Len(s) - 1
    BY <1>1, <1>2, <1>4
  <2>2. CASE j < h
    BY <1>1, <1>2, <2>1, <2>2
  <2>3. CASE ~ (j < h)
    <3>1. j + 1 \in DOMAIN s /\ t[j] = s[j + 1]
      BY <1>1, <1>2, <2>1, <2>3
    <3> QED BY <3>1
  <2> QED BY <2>2, <2>3
<1>5. ASSUME NEW y \in Node, NEW j \in DOMAIN d2[y] PROVE \E i \in DOMAIN df[y] : d2[y][j] = df[y][i]
  <2>1. CASE y = n
    <3>1. j \in DOMAIN t
      BY <1>3, <1>5, <2>1
    <3>2. PICK i \in DOMAIN s : t[j] = s[i]
      BY <1>4, <3>1
    <3> QED BY <1>3, <2>1, <3>2
  <2>2. CASE y # n
    BY <1>3, <1>5, <2>2
  <2> QED BY <2>1, <2>2
<1>6. ParkedRight(d2)
  <2> SUFFICES ASSUME NEW y \in Node, NEW j \in DOMAIN d2[y]
               PROVE  LET p == d2[y][j].pkt
                      IN  p.op # "reply_call" /\ (p.op = "client_call" => NodeOf[p.client] = y)
    BY DEF ParkedRight
  <2>1. PICK i \in DOMAIN df[y] : d2[y][j] = df[y][i]
    BY <1>5
  <2> QED BY <2>1 DEF ParkedRight
<1> QED BY <1>6 DEF d2

\* Parking one more.
LEMMA ParkedMore ==
    ASSUME NEW df \in Parkings, ParkedRight(df), NEW n \in Node, NEW e \in Parked,
           e.pkt.op # "reply_call", e.pkt.op = "client_call" => NodeOf[e.pkt.client] = n
    PROVE  ParkedRight([df EXCEPT ![n] = Append(@, e)])
<1> DEFINE d2 == [df EXCEPT ![n] = Append(@, e)]
           s == df[n]
           t == Append(s, e)
<1>1. s \in Seq(Parked)
  BY DEF Parkings
<1>2. \A j \in DOMAIN t : t[j] = e \/ (j \in DOMAIN s /\ t[j] = s[j])
  BY <1>1
<1>3. d2[n] = t /\ \A y \in Node : y # n => d2[y] = df[y]
  BY DEF Parkings
<1> HIDE DEF t, d2
<1>4. ASSUME NEW y \in Node, NEW j \in DOMAIN d2[y]
      PROVE  (y = n /\ d2[y][j] = e) \/ (j \in DOMAIN df[y] /\ d2[y][j] = df[y][j])
  BY <1>2, <1>3
<1>5. ParkedRight(d2)
  BY <1>4 DEF ParkedRight
<1> QED BY <1>5 DEF d2

\* No reply names a request that is not known.
LEMMA NoUnknownReply ==
    ASSUME TypeOK, CallInv, NEW n \in Node, NEW p \in Packet, NEW ch, NEW df,
           Taken({<<p, n>>}, ch, df), p.op \in {"reply_call", "reply_redirect", "reply_dmaster"}
    PROVE  calls[n][p.reqid] # None
<1>1. CallerOf(p, n) = n
  BY DEF CallerOf
<1>2. LET a == CallerOf(p, n) IN calls[a][p.reqid] # None
  BY PacketAtHand
<1> QED BY <1>1, <1>2

\* Every packet handler keeps the invariant.
LEMMA RecvPktKeeps ==
    ASSUME OffLmaster, TypeOK, TypeOK', CallInv, ClientsOk', NEW n \in Node, NEW p \in Packet,
           NEW ch \in Queues, NEW df, Taken({<<p, n>>}, ch, df), ParkedRight(df),
           ctdb_recv_pkt(n, p, ch, df)
    PROVE  CallInv'
<1>1. CASE ctdb_request_call(n, p, ch, df)
  <2>1. p.op = "req_call" /\ deferred' = df /\ calls' = calls /\ cl' = cl /\ up' = up
    BY <1>1 DEF ctdb_request_call
  <2>2. CASE ctdb_call_send_redirect(n, p, ch)
    BY <2>1, <2>2, RedirectKeeps
  <2>3. CASE ctdb_call_send_dmaster(n, p, ch)
    BY <2>1, <2>3, SendDmasterKeeps
  <2>4. CASE CallHere(n, p, ch)
    BY <2>1, <2>4, CallHereKeeps
  <2> QED BY <1>1, <2>2, <2>3, <2>4 DEF ctdb_request_call
<1>2. CASE ctdb_request_dmaster(n, p, ch, df)
  BY <1>2, RequestDmasterKeeps
<1>3. CASE DmasterRequestFatal(n, p, ch, df)
  BY <1>3, NoProtocolError DEF DmasterRequestFatal
<1>4. CASE ctdb_reply_dmaster(n, p, ch, df)
  BY <1>4, ReplyDmasterKeeps
<1>5. CASE ctdb_reply_call(n, p, ch, df)
  BY <1>5, ReplyCallKeeps
<1>6. CASE ctdb_reply_redirect(n, p, ch, df)
  BY <1>6, ReplyRedirectKeeps
<1>7. CASE UnknownReply(n, p, ch, df)
  BY <1>7, NoUnknownReply DEF UnknownReply
<1> QED BY <1>1, <1>2, <1>3, <1>4, <1>5, <1>6, <1>7 DEF ctdb_recv_pkt

\* A daemon reads a packet.
LEMMA RecvPacketKeeps ==
    ASSUME OffLmaster, TypeOK, TypeOK', CallInv, ClientsOk', NEW n \in Node, NEW m \in Node,
           RecvPacket(m, n)
    PROVE  CallInv'
<1> DEFINE ch == [chan EXCEPT ![m][n] = Tail(@)]
           p == Head(chan[m][n])
<1>1. chan \in Queues /\ chan[m][n] # <<>>
  BY DEF TypeOK, Queues, RecvPacket
<1>2. p \in Packet /\ ch \in Queues
  BY <1>1, QueueTypes DEF Queues
<1>3. Taken({<<p, n>>}, ch, deferred) /\ ParkedRight(deferred)
  BY <1>1, TakesRead DEF CallInv
<1>4. ctdb_recv_pkt(n, p, ch, deferred)
  BY DEF RecvPacket
<1> HIDE DEF p, ch
<1> QED BY <1>2, <1>3, <1>4, RecvPktKeeps

\* A daemon takes a parked packet up again.
LEMMA RetryPacketKeeps ==
    ASSUME OffLmaster, TypeOK, TypeOK', CallInv, ClientsOk', NEW n \in Node, NEW i \in DOMAIN deferred[n],
           RetryPacket(n, i)
    PROVE  CallInv'
<1> DEFINE df == [deferred EXCEPT ![n] = RemoveAt(@, i)]
           p == deferred[n][i].pkt
<1>1. chan \in Queues /\ p \in Packet
  BY ParkedTypes DEF TypeOK, Queues, RetryPacket
<1>2. Taken({<<p, n>>}, chan, df)
  BY TakesUnparked
<1>3. ParkedRight(df)
  BY ParkedLess DEF CallInv, TypeOK, Parkings
<1>4. ctdb_recv_pkt(n, p, chan, df)
  BY DEF RetryPacket
<1> HIDE DEF p, df
<1> QED BY <1>1, <1>2, <1>3, <1>4, RecvPktKeeps

\* A daemon parks a packet.
LEMMA DeferPacketKeeps ==
    ASSUME TypeOK, TypeOK', CallInv, ClientsOk', NEW n \in Node, NEW m \in Node,
           DeferPacket(m, n)
    PROVE  CallInv'
<1> DEFINE ch == [chan EXCEPT ![m][n] = Tail(@)]
           p == Head(chan[m][n])
           e == [key |-> KeyOf(n, p), pkt |-> p]
           P == {<<p, n>>}
<1>1. chan \in Queues /\ chan[m][n] # <<>> /\ deferred \in Parkings
  BY DEF TypeOK, Queues, Parkings, DeferPacket
<1>2. p \in Packet /\ p.op # "client_call"
  <2>1. p \in Packet
    BY <1>1, QueueTypes DEF Queues
  <2> HIDE DEF p
  <2> QED BY <2>1 DEF Packet, ReqCall, ReqDmaster, ReplyDmaster, ReplyCall, ReplyRedirect
<1>3. Taken(P, ch, deferred)
  BY <1>1, TakesRead
<1>4. NeedsLock(n, p) /\ p.op # "reply_call"
  BY DEF DeferPacket, NeedsLock
<1>5. /\ chan' = ch /\ deferred' = [deferred EXCEPT ![n] = Append(@, e)]
      /\ lt' = lt /\ calls' = calls /\ cl' = cl /\ up' = up /\ applied' = applied
  BY DEF DeferPacket
<1>6. KeyOf(n, p) \in Key
  <2> HIDE DEF p
  <2>1. CASE p.op \in {"req_call", "req_dmaster"}
    BY <1>2, <2>1, PacketTypes DEF KeyOf, ReqCall, ReqDmaster
  <2>2. CASE p.op = "reply_dmaster"
    <3>1. p.reqid \in ReqId /\ calls[n][p.reqid] # None
      BY <1>2, <1>4, <2>2, PacketTypes DEF NeedsLock, ReplyDmaster
    <3> QED BY <2>2, <3>1, CallEntryType DEF KeyOf, CallState
  <2> QED BY <1>4, <2>1, <2>2 DEF NeedsLock
<1>7. e \in Parked /\ e.pkt = p
  BY <1>2, <1>6 DEF Parked
<1> HIDE DEF e, p
<1>8. Sent(P, ch, deferred)
  BY <1>1, <1>5, <1>7, ParksOne
<1>9. ParkedRight(deferred')
  BY <1>1, <1>2, <1>4, <1>5, <1>7, ParkedMore DEF CallInv
<1>10. /\ Agrees(lt, applied, calls, p, n)
       /\ \A x, y : Hits(P, About(x, y)) => calls[x][y] # None
  <2>1. LET a == CallerOf(p, n) IN
      /\ Agrees(lt, applied, calls, p, n) /\ calls[a][p.reqid] # None
      /\ \A T : Hits(P, T) <=> <<p, n>> \in T
      /\ \A x, y : <<p, n>> \in About(x, y) <=> x = a /\ y = p.reqid
    <3> HIDE DEF ch
    <3>1. Taken({<<p, n>>}, ch, deferred)
      BY <1>3
    <3> QED BY <1>2, <3>1, PacketAtHand
  <2> QED BY <2>1
<1>11. \A x \in Node, y \in ReqId : SameCall(calls[x][y], calls'[x][y])
  BY <1>5 DEF SameCall
<1>12. \A c \in Client : ~ Hits(P, Asking(c))
  BY <1>2, NotAsking
<1>13. \A d \in P : Agrees(lt', applied', calls', d[1], d[2])
  BY <1>5, <1>10
<1>14. \A d \in P : SameCall(CallOf(calls, d[1], d[2]), CallOf(calls', d[1], d[2]))
  BY <1>5 DEF SameCall
<1> HIDE DEF P, ch
<1>15. \A d \in OnTheWay(ch, deferred) : d[1].op # "client_call" =>
              SameCall(CallOf(calls, d[1], d[2]), CallOf(calls', d[1], d[2]))
  BY <1>3, <1>11, PacketsSame
<1>16. AllAgree(lt', applied', calls', chan', deferred')
  BY <1>3, <1>5, <1>8, <1>13, <1>15, AllAgreeStep DEF CallInv
<1>17. CallsCarried'
  BY <1>3, <1>5, <1>8, <1>10, CarriedStep DEF CallInv
<1>18. WaitersServed'
  BY <1>3, <1>5, <1>8, <1>11, <1>12, WaitersSame DEF CallInv
<1>19. RolesCarried'
  BY <1>3, <1>5, <1>8, <1>14, <1>15, QuietKeepsRoles DEF CallInv
<1> QED BY <1>5, <1>9, <1>16, <1>17, <1>18, <1>19 DEF CallInv
-----------------------------------------------------------------------------
(* The steps of the clients, and of their daemon for them *)

\* A client moves that has no call: P are its parked requests, if any.
LEMMA MoveKeeps ==
    ASSUME TypeOK, TypeOK', CallInv, ClientsOk', RolesCarried', NEW P, NEW ch, NEW df,
           Taken(P, ch, df), chan' = ch, deferred' = df, ParkedRight(df),
           NEW c \in Client, \A d \in Client : d # c => cl'[d] = cl[d],
           cl'[c].pc \notin {"wait", "exited"}, calls' = calls, up' = up,
           cl[c].pc = "wait" => Hits(P, Asking(c)),
           \A d \in Client : d # c => ~ Hits(P, Asking(d)),
           \A d \in P : d[1].op = "client_call",
           \A k \in Key : \/ Chosen(lt', k) = Chosen(lt, k) /\ applied'[k] = applied[k]
                          \/ ~ Present(Carrying(calls, k), ch, df)
    PROVE  CallInv'
<1>1. Sent({}, ch, df)
  BY SendsNothing
<1>2. \A x \in Node, y \in ReqId : SameCall(calls[x][y], calls'[x][y])
  BY DEF SameCall
<1>3. \A d \in OnTheWay(ch, df) : d[1].op # "client_call" =>
              SameCall(CallOf(calls, d[1], d[2]), CallOf(calls', d[1], d[2]))
  BY <1>2, PacketsSame
<1>4. AllAgree(lt', applied', calls', chan', deferred')
  BY <1>1, <1>3, AllAgreeStep DEF CallInv
<1>5. CallsCarried'
  <2>1. \A x, y : ~ Hits(P, About(x, y)) /\ ~ Hits({}, About(x, y))
    BY DEF Hits, About
  <2> QED BY <1>1, <2>1, CarriedStep DEF CallInv
<1>6. WaitersServed'
  BY <1>1, WaitersMove DEF CallInv
<1> QED BY <1>4, <1>5, <1>6 DEF CallInv

\* A client moves and leaves tdbs, counts and queues alone.
LEMMA QuietMoveKeeps ==
    ASSUME TypeOK, TypeOK', CallInv, ClientsOk',
           NEW c \in Client, \A d \in Client : d # c => cl'[d] = cl[d],
           cl[c].pc # "wait", cl'[c].pc \notin {"wait", "exited"},
           UNCHANGED <<lt, chan, deferred, calls, up, applied>>
    PROVE  CallInv'
<1>1. Taken({}, chan, deferred) /\ Sent({}, chan, deferred) /\ \A T : ~ Hits({}, T)
  BY TakesNothing, SendsNothing DEF Hits
<1>2. \A x \in Node, y \in ReqId : SameCall(calls[x][y], calls'[x][y])
  BY DEF SameCall
<1>3. \A d \in OnTheWay(chan, deferred) : d[1].op # "client_call" =>
              SameCall(CallOf(calls, d[1], d[2]), CallOf(calls', d[1], d[2]))
  BY <1>1, <1>2, PacketsSame
<1>4. RolesCarried'
  BY <1>1, <1>3, QuietKeepsRoles DEF CallInv
<1>5. ParkedRight(deferred)
  BY DEF CallInv
<1> QED BY <1>1, <1>4, <1>5, MoveKeeps

\* A client or its daemon, with P its parked requests, updates a record on the dmaster.
LEMMA UpdateKeeps ==
    ASSUME TypeOK, TypeOK', CallInv, ClientsOk', NEW P, NEW ch, NEW df,
           Taken(P, ch, df), chan' = ch, deferred' = df, ParkedRight(df),
           NEW c \in Client, \A d \in Client : d # c => cl'[d] = cl[d],
           cl'[c].pc \notin {"wait", "exited"}, calls' = calls, up' = up,
           cl[c].pc = "wait" => Hits(P, Asking(c)),
           \A d \in Client : d # c => ~ Hits(P, Asking(d)),
           \A d \in P : d[1].op = "client_call",
           NEW n \in Node, NEW k \in Key, lt[n][k].dmaster = n,
           lt'[n][k].dmaster = n, lt'[n][k].data = applied'[k],
           \A m \in Node, j \in Key : m # n \/ j # k => lt'[m][j] = lt[m][j],
           \A j \in Key : j # k => applied'[j] = applied[j]
    PROVE  CallInv'
<1>1. Sent({}, ch, df) /\ \A T : ~ Hits({}, T)
  BY SendsNothing DEF Hits
<1>2. \A x \in Node, y \in ReqId : SameCall(calls[x][y], calls'[x][y])
  BY DEF SameCall
<1>3. \A d \in OnTheWay(ch, df) : d[1].op # "client_call" =>
              SameCall(CallOf(calls, d[1], d[2]), CallOf(calls', d[1], d[2]))
  BY <1>2, PacketsSame
<1>4. \A j \in Key : ~ Hits(P, Carrying(calls, j))
  BY DEF Hits, Carrying, Token
<1>5. /\ RolesCarried'
      /\ \A j \in Key : \/ Chosen(lt', j) = Chosen(lt, j) /\ applied'[j] = applied[j]
                        \/ ~ Present(Carrying(calls, j), ch, df)
  BY <1>1, <1>3, <1>4, UpdateKeepsRoles DEF CallInv
<1> QED BY <1>5, MoveKeeps

\* A step of a client process.
LEMMA ClientNextKeeps ==
    ASSUME NothingFails, TypeOK, TypeOK', CallInv, ClientsOk', NEW c \in Client, ClientNext(c)
    PROVE  CallInv'
<1>a. /\ NodeOf[c] \in Node /\ cl[c].key \in Key /\ cl \in [Client -> ClientState] /\ cl[c] \in ClientState
      /\ up[NodeOf[c]] /\ ClientOk(c) /\ RolesCarried
  BY ClientMoves, ClusterAssumption DEF TypeOK, CallInv, ClientsOk
<1>1. ASSUME NEW op \in ClientOps[c], NEW k \in Wants[c], ClientStart(c, op, k) PROVE CallInv'
  <2>1. cl[c].pc = "idle" /\ cl'[c].pc = "lock" /\ \A d \in Client : d # c => cl'[d] = cl[d]
    BY <1>1, <1>a DEF ClientStart
  <2> QED BY <1>1, <2>1, QuietMoveKeeps DEF ClientStart
<1>2. CASE ClientLock(c)
  <2>1. cl[c].pc = "lock" /\ cl'[c].pc = "locked" /\ \A d \in Client : d # c => cl'[d] = cl[d]
    BY <1>2, <1>a DEF ClientLock, ClientState
  <2> QED BY <1>2, <2>1, QuietMoveKeeps DEF ClientLock
<1>3. CASE FetchHere(c)
  <2>1. cl[c].pc = "locked" /\ cl'[c].pc = "held" /\ \A d \in Client : d # c => cl'[d] = cl[d]
    BY <1>3, <1>a DEF FetchHere, ClientState
  <2> QED BY <1>3, <2>1, QuietMoveKeeps DEF FetchHere
<1>4. CASE FetchElsewhere(c)
  <2>1. cl[c].pc = "locked" /\ cl'[c].pc = "lock" /\ \A d \in Client : d # c => cl'[d] = cl[d]
    BY <1>4, <1>a DEF FetchElsewhere, UnlockAndGo, ClientState
  <2> QED BY <1>4, <2>1, QuietMoveKeeps DEF FetchElsewhere
<1>5. CASE ClientCallLocal(c)
  <2>0. PICK n \in Node, k \in Key : n = NodeOf[c] /\ k = cl[c].key
    BY <1>a
  <2>1. /\ cl[c].pc = "locked" /\ cl' = CallReturned(c) /\ lt[n][k].dmaster = n
        /\ ctdb_ltdb_store(n, k, ctdb_call_local(n, lt[n][k], lt[n][k], FuncOf(c), n))
        /\ Perform(FuncOf(c), k) /\ chan' = chan /\ deferred' = deferred /\ calls' = calls /\ up' = up
    BY <1>5, <2>0 DEF ClientCallLocal
  <2>2. FuncOf(c) \in Func /\ lt[n][k] \in Record /\ lt[n][k].data = applied[k]
    BY <1>a, <2>1, DmasterHome DEF FuncOf, Func, TypeOK
  <2>3. /\ lt'[n][k].dmaster = n /\ lt'[n][k].data = applied'[k]
        /\ \A m \in Node, j \in Key : m # n \/ j # k => lt'[m][j] = lt[m][j]
        /\ \A j \in Key : j # k => applied'[j] = applied[j]
    BY <2>1, <2>2, LocalRun
  <2>4. cl'[c].pc \in {"lock", "idle"} /\ \A d \in Client : d # c => cl'[d] = cl[d]
    BY <1>a, <2>1 DEF CallReturned, Resting, ClientState
  <2>5. Taken({}, chan, deferred) /\ ParkedRight(deferred) /\ \A T : ~ Hits({}, T)
    BY TakesNothing DEF CallInv, Hits
  <2> QED BY <2>1, <2>3, <2>4, <2>5, UpdateKeeps
<1>6. CASE ClientCallDaemon(c)
  <2>1. cl[c].pc = "locked" /\ cl'[c].pc = "sent" /\ \A d \in Client : d # c => cl'[d] = cl[d]
    BY <1>6, <1>a DEF ClientCallDaemon, UnlockAndGo, ClientState
  <2> QED BY <1>6, <2>1, QuietMoveKeeps DEF ClientCallDaemon
<1>7. CASE ClientReply(c)
  <2>1. cl[c].pc = "replied" /\ cl'[c].pc \in {"lock", "idle"} /\ \A d \in Client : d # c => cl'[d] = cl[d]
    BY <1>7, <1>a DEF ClientReply, CallReturned, Resting, ClientState
  <2> QED BY <1>7, <2>1, QuietMoveKeeps DEF ClientReply
<1>8. CASE ctdb_record_store(c)
  <2>0. PICK n \in Node, k \in Key : n = NodeOf[c] /\ k = cl[c].key
    BY <1>a
  <2>1. /\ cl[c].pc = "held" /\ cl' = [cl EXCEPT ![c].pc = "stored"]
        /\ lt' = [lt EXCEPT ![n][k] = [cl[c].got EXCEPT !.data = @ + 1]]
        /\ applied' = [applied EXCEPT ![k] = @ + 1]
        /\ chan' = chan /\ deferred' = deferred /\ calls' = calls /\ up' = up
    BY <1>8, <2>0 DEF ctdb_record_store, ctdb_ltdb_store
  <2>2. cl[c].got = lt[n][k] /\ lt[n][k].dmaster = n /\ lt[n][k] \in Record
    BY <1>a, <2>0, <2>1 DEF ClientOk, TypeOK
  <2>3. lt[n][k].data = applied[k]
    BY <1>a, <2>2, DmasterHome
  <2>4. /\ lt'[n][k].dmaster = n /\ lt'[n][k].data = applied'[k]
        /\ \A m \in Node, j \in Key : m # n \/ j # k => lt'[m][j] = lt[m][j]
        /\ \A j \in Key : j # k => applied'[j] = applied[j]
    BY <2>1, <2>2, <2>3 DEF TypeOK, Record
  <2>5. cl'[c].pc = "stored" /\ \A d \in Client : d # c => cl'[d] = cl[d]
    BY <1>a, <2>1 DEF ClientState
  <2>6. Taken({}, chan, deferred) /\ ParkedRight(deferred) /\ \A T : ~ Hits({}, T)
    BY TakesNothing DEF CallInv, Hits
  <2> QED BY <2>1, <2>2, <2>4, <2>5, <2>6, UpdateKeeps
<1>9. CASE ClientRelease(c)
  <2>1. /\ cl[c].pc \in {"held", "stored"} /\ cl'[c].pc = "idle"
        /\ \A d \in Client : d # c => cl'[d] = cl[d]
    BY <1>9, <1>a DEF ClientRelease, UnlockAndRest, Resting
  <2> QED BY <1>9, <2>1, QuietMoveKeeps DEF ClientRelease
<1>10. CASE ClientExit(c)
  BY <1>10 DEF ClientExit, NothingFails
<1>11. CASE ClientDaemonGone(c)
  BY <1>11, <1>a DEF ClientDaemonGone
<1> QED BY <1>1, <1>2, <1>3, <1>4, <1>5, <1>6, <1>7, <1>8, <1>9, <1>10, <1>11 DEF ClientNext

\* The daemon takes a call from client c: P is its parked request, if any.
LEMMA DaemonRequestKeeps ==
    ASSUME TypeOK, TypeOK', CallInv, ClientsOk', NEW P, NEW df, Taken(P, chan, df), ParkedRight(df),
           NEW c \in Client, daemon_request_call_from_client(NodeOf[c], c, df),
           \/ cl[c].pc = "sent"
           \/ cl[c].pc = "wait" /\ Hits(P, Asking(c)),
           \A d \in Client : d # c => ~ Hits(P, Asking(d)),
           \A d \in P : d[1].op = "client_call"
    PROVE  CallInv'
<1>0. PICK n \in Node, k \in Key : n = NodeOf[c] /\ k = cl[c].key
  BY ClientMoves, ClusterAssumption
<1>a. FuncOf(c) \in Func /\ Immediate(c) \in BOOLEAN /\ lt[n][k] \in Record /\ RolesCarried
      /\ lt[n][k].dmaster \in Node /\ lt[n][k].laccessor \in Node /\ lt[n][k].lacount \in Nat
  <2>1. Immediate(c) \in BOOLEAN
    BY Zenon DEF Immediate
  <2>2. FuncOf(c) \in Func
    BY DEF FuncOf, Func
  <2>3. lt[n][k] \in Record /\ RolesCarried
    BY DEF TypeOK, CallInv
  <2>4. lt[n][k].dmaster \in Node /\ lt[n][k].laccessor \in Node /\ lt[n][k].lacount \in Nat
    BY <2>3 DEF Record
  <2> QED BY <2>1, <2>2, <2>3, <2>4
<1>1. CASE DaemonCallLocal(n, c, df)
  <2>1. /\ cl' = [cl EXCEPT ![c].pc = "replied"] /\ lt[n][k].dmaster = n
        /\ ctdb_ltdb_store(n, k, ctdb_call_local(n, lt[n][k], lt[n][k], FuncOf(c), n))
        /\ Perform(FuncOf(c), k) /\ chan' = chan /\ deferred' = df /\ calls' = calls /\ up' = up
    BY <1>0, <1>1 DEF DaemonCallLocal
  <2>2. lt[n][k].data = applied[k]
    BY <1>a, <2>1, DmasterHome
  <2>3. /\ lt'[n][k].dmaster = n /\ lt'[n][k].data = applied'[k]
        /\ \A m \in Node, j \in Key : m # n \/ j # k => lt'[m][j] = lt[m][j]
        /\ \A j \in Key : j # k => applied'[j] = applied[j]
    BY <1>a, <2>1, <2>2, LocalRun
  <2>4. cl'[c].pc = "replied" /\ \A d \in Client : d # c => cl'[d] = cl[d]
    BY <2>1 DEF TypeOK, ClientState
  <2> QED BY <2>1, <2>3, <2>4, UpdateKeeps
<1>2. CASE ctdb_daemon_call_send_remote(n, c, df)
  <2> DEFINE m == lt[n][k].dmaster
             s == [client |-> c, key |-> k, func |-> FuncOf(c), imm |-> Immediate(c),
                   laccessor |-> lt[n][k].laccessor, lacount |-> lt[n][k].lacount, redirects |-> 0]
  <2>1. PICK r \in ReqId :
          /\ calls[n][r] = None /\ calls' = [calls EXCEPT ![n][r] = s]
          /\ chan' = ctdb_queue_packet(chan, n, m,
                [op |-> "req_call", src |-> n, reqid |-> r, key |-> k,
                 func |-> FuncOf(c), imm |-> Immediate(c)])
    BY <1>0, <1>2 DEF ctdb_daemon_call_send_remote
  <2> DEFINE q == [op |-> "req_call", src |-> n, reqid |-> r, key |-> k,
                   func |-> FuncOf(c), imm |-> Immediate(c)]
             Q == {<<q, m>>}
  <2>2. /\ cl' = [cl EXCEPT ![c].pc = "wait"] /\ deferred' = df /\ lt' = lt /\ up' = up
        /\ applied' = applied
    BY <1>2 DEF ctdb_daemon_call_send_remote
  <2>3. s \in CallState /\ s # None
    <3>1. s \in CallState
      BY <1>a, BoundsAssumption DEF CallState
    <3> HIDE DEF s
    <3> QED BY <3>1, NoneAssumption
  <2>4. q \in Packet /\ m \in Node
    BY <1>a DEF Packet, ReqCall
  <2>5. /\ q.op = "req_call" /\ q.reqid = r /\ q.key = s.key /\ q.func = s.func /\ q.imm = s.imm
        /\ CallerOf(q, m) = n /\ ~ Token(q)
        /\ s.client = c /\ s.key = cl[c].key /\ s.func = FuncOf(c) /\ s.imm = Immediate(c)
    BY <1>0 DEF CallerOf, Token
  <2>6. calls' = [calls EXCEPT ![n][r] = s] /\ chan' = ctdb_queue_packet(chan, n, m, q)
    BY <2>1
  <2> HIDE DEF s, q, m
  <2>7. Sent(Q, chan, df)
    BY <2>2, <2>4, <2>6, SendsOne DEF TypeOK, Queues
  <2>8. calls'[n][r] = s /\ \A x \in Node, y \in ReqId : x # n \/ y # r => calls'[x][y] = calls[x][y]
    BY <2>6 DEF TypeOK
  <2>9. \A d \in OnTheWay(chan, df) : d[1].op # "client_call" =>
              SameCall(CallOf(calls, d[1], d[2]), CallOf(calls', d[1], d[2]))
    BY <2>1, <2>8, OthersKeep DEF CallInv
  <2>10. Agrees(lt', applied', calls', q, m)
    <3>1. CallOf(calls', q, m) = s
      BY <2>5, <2>8 DEF CallOf
    <3> QED BY <2>3, <2>5, <3>1 DEF Agrees, Token
  <2>11. /\ \A x, y : Hits(Q, About(x, y)) <=> x = n /\ y = r
         /\ \A x, y : ~ Hits(P, About(x, y))
    <3>1. <<q, m>> \in Delivery
      BY <2>4 DEF Delivery
    <3>2. \A x, y : <<q, m>> \in About(x, y) <=> x = n /\ y = r
      BY <2>5, <3>1, AboutOne
    <3>3. \A x, y : ~ Hits(P, About(x, y))
      BY DEF Hits, About
    <3> QED BY <3>2, <3>3 DEF Hits
  <2>12. /\ \A d \in Q : Agrees(lt', applied', calls', d[1], d[2])
         /\ \A d \in Q : ~ Token(d[1])
         /\ \A d \in Client : ~ Hits(Q, Asking(d))
         /\ \A j \in Key : ~ Hits(P, Carrying(calls, j)) /\ ~ Hits(Q, Carrying(calls, j))
    <3>1. \A j \in Key : ~ Hits(P, Carrying(calls, j))
      BY DEF Hits, Carrying, Token
    <3>2. \A d \in Client : ~ Hits(Q, Asking(d))
      BY <2>5, NotAsking
    <3>3. \A j \in Key : ~ Hits(Q, Carrying(calls, j))
      BY <2>5, CarriesNothing
    <3> QED BY <2>5, <2>10, <3>1, <3>2, <3>3
  <2> HIDE DEF Q
  <2>13. AllAgree(lt', applied', calls', chan', deferred')
    BY <2>2, <2>7, <2>9, <2>12, AllAgreeStep DEF CallInv
  <2>14. CallsCarried'
    <3>1. \A x \in Node, y \in ReqId : Hits(Q, About(x, y)) => calls[x][y] = None
      BY <2>1, <2>11
    <3>2. \A x \in Node, y \in ReqId : calls'[x][y] # None <=> Hits(Q, About(x, y)) \/ calls[x][y] # None
      BY <2>3, <2>8, <2>11
    <3> QED BY <2>7, <2>11, <3>1, <3>2, CarriedStep DEF CallInv
  <2>15. WaitersServed'
    <3>1. calls[NodeOf[c]][r] = None /\ calls' = [calls EXCEPT ![NodeOf[c]][r] = s]
      BY <1>0, <2>1, <2>6
    <3> QED BY <2>2, <2>3, <2>5, <2>7, <2>12, <3>1, WaitersNew DEF CallInv
  <2>16. RolesCarried'
    BY <2>2, <2>7, <2>9, <2>12, QuietKeepsRoles DEF CallInv
  <2> QED BY <2>2, <2>13, <2>14, <2>15, <2>16 DEF CallInv
<1> QED BY <1>0, <1>1, <1>2 DEF daemon_request_call_from_client

\* The daemon reads a client's request.
LEMMA TakeCallKeeps ==
    ASSUME TypeOK, TypeOK', CallInv, ClientsOk', NEW c \in Client, TakeCall(c)
    PROVE  CallInv'
<1>1. Taken({}, chan, deferred) /\ ParkedRight(deferred) /\ \A T : ~ Hits({}, T)
  BY TakesNothing DEF CallInv, Hits
<1> QED BY <1>1, DaemonRequestKeeps DEF TakeCall

\* The daemon takes a parked request up again.
LEMMA RetryCallKeeps ==
    ASSUME TypeOK, TypeOK', CallInv, ClientsOk', NEW n \in Node, NEW i \in DOMAIN deferred[n],
           RetryCall(n, i)
    PROVE  CallInv'
<1> DEFINE df == [deferred EXCEPT ![n] = RemoveAt(@, i)]
<1>0. deferred[n][i].pkt \in ClientCall /\ deferred[n][i].pkt.client \in Client
  <2>1. deferred[n][i].pkt.op = "client_call" /\ deferred[n][i].pkt \in Packet \cup ClientCall
    BY ParkedTypes DEF RetryCall, Parked
  <2>2. deferred[n][i].pkt \notin Packet
    BY <2>1 DEF Packet, ReqCall, ReqDmaster, ReplyDmaster, ReplyCall, ReplyRedirect
  <2> QED BY <2>1, <2>2 DEF ClientCall
<1>1. PICK c \in Client : deferred[n][i].pkt = [op |-> "client_call", client |-> c]
  BY <1>0 DEF ClientCall
<1> DEFINE d0 == <<[op |-> "client_call", client |-> c], n>>
           P == {d0}
<1>2. Taken(P, chan, df)
  BY <1>1, TakesUnparked
<1>3. ParkedRight(df) /\ NodeOf[c] = n
  <2>1. ParkedRight(df)
    BY ParkedLess DEF CallInv, TypeOK, Parkings
  <2>2. NodeOf[c] = n
    BY <1>1 DEF CallInv, ParkedRight
  <2> QED BY <2>1, <2>2
<1>4. daemon_request_call_from_client(n, c, df)
  BY <1>1 DEF RetryCall
<1>5. d0 \in Asking(c)
  BY DEF Asking, Delivery, ClientCall
<1>6. /\ Hits(P, Asking(c)) /\ \A d \in Client : d # c => ~ Hits(P, Asking(d))
      /\ \A d \in P : d[1].op = "client_call"
  BY <1>5, OwnAsking DEF Hits
<1>7. cl[c].pc = "wait"
  <2>1. Present(Asking(c), chan, deferred)
    BY <1>2, <1>5 DEF Taken, Present
  <2> QED BY <2>1 DEF CallInv, WaitersServed, ClientServed
<1> HIDE DEF P, df
<1> QED BY <1>2, <1>3, <1>4, <1>6, <1>7, DaemonRequestKeeps

\* The daemon parks a client's request.
LEMMA DeferCallKeeps ==
    ASSUME TypeOK, TypeOK', CallInv, ClientsOk', NEW c \in Client, DeferCall(c)
    PROVE  CallInv'
<1> DEFINE n == NodeOf[c]
           e == [key |-> cl[c].key, pkt |-> [op |-> "client_call", client |-> c]]
           Q == {<<[op |-> "client_call", client |-> c], n>>}
<1>0. n \in Node /\ cl[c].key \in Key /\ deferred \in Parkings
  BY ClientMoves, ClusterAssumption DEF TypeOK, Parkings
<1>1. e \in Parked /\ e.pkt = [op |-> "client_call", client |-> c]
  BY <1>0 DEF Parked, ClientCall
<1>2. /\ cl[c].pc = "sent" /\ deferred' = [deferred EXCEPT ![n] = Append(@, e)]
      /\ cl' = [cl EXCEPT ![c].pc = "wait"]
      /\ lt' = lt /\ chan' = chan /\ calls' = calls /\ up' = up /\ applied' = applied
  BY DEF DeferCall
<1>3. NodeOf[e.pkt.client] = n /\ e.pkt.op = "client_call"
  BY <1>1
<1> HIDE DEF e
<1>4. Sent(Q, chan, deferred) /\ Taken({}, chan, deferred) /\ \A T : ~ Hits({}, T)
  <2>1. Sent({<<e.pkt, n>>}, chan, deferred)
    BY <1>0, <1>1, <1>2, ParksOne
  <2> QED BY <1>1, <2>1, TakesNothing DEF Hits
<1>5. ParkedRight(deferred')
  BY <1>0, <1>1, <1>2, <1>3, ParkedMore DEF CallInv
<1>6. /\ \A d \in Q : d[1].op = "client_call"
      /\ \A x, y : ~ Hits(Q, About(x, y))
      /\ \A j : ~ Hits(Q, Carrying(calls, j))
  BY DEF Hits, About, Carrying, Token
<1>7. WaitersServed'
  BY <1>2, <1>4, WaitersPark DEF CallInv
<1>8. \A x \in Node, y \in ReqId : SameCall(calls[x][y], calls'[x][y])
  BY <1>2 DEF SameCall
<1> HIDE DEF Q, n
<1>9. \A d \in OnTheWay(chan, deferred) : d[1].op # "client_call" =>
              SameCall(CallOf(calls, d[1], d[2]), CallOf(calls', d[1], d[2]))
  BY <1>4, <1>8, PacketsSame
<1>10. AllAgree(lt', applied', calls', chan', deferred')
  <2>1. \A d \in Q : Agrees(lt', applied', calls', d[1], d[2])
    BY <1>6 DEF Agrees
  <2> QED BY <1>2, <1>4, <1>9, <2>1, AllAgreeStep DEF CallInv
<1>11. CallsCarried'
  BY <1>2, <1>4, <1>6, CarriedStep DEF CallInv
<1>12. RolesCarried'
  <2>1. \A d \in Q : ~ Token(d[1])
    BY <1>6 DEF Token
  <2> QED BY <1>2, <1>4, <1>6, <1>9, <2>1, QuietKeepsRoles DEF CallInv
<1> QED BY <1>2, <1>5, <1>7, <1>10, <1>11, <1>12 DEF CallInv
-----------------------------------------------------------------------------
(* The invariant *)

\* What NothingFails rules out.
LEMMA NoFailure ==
    ASSUME NothingFails, TypeOK, CallInv
    PROVE  /\ \A n \in Node, r \in ReqId : ~ ctdb_call_timeout(n, r)
           /\ \A n, m \in Node : ~ LosePacket(n, m)
           /\ \A n \in Node : \A i \in DOMAIN deferred[n] : ~ RetryDeadCall(n, i)
<1>1. timeouts \in 0..0 /\ losses \in 0..0 /\ MaxTimeouts = 0 /\ MaxLosses = 0
  BY DEF NothingFails, TypeOK
<1>2. ASSUME NEW n \in Node, NEW i \in DOMAIN deferred[n], RetryDeadCall(n, i) PROVE FALSE
  <2>1. deferred[n][i].pkt.client \in Client /\ cl[deferred[n][i].pkt.client].pc = "exited"
    BY <1>2, ParkedTypes DEF RetryDeadCall
  <2> QED BY <2>1 DEF CallInv, WaitersServed, ClientServed
<1> QED BY <1>1, <1>2 DEF ctdb_call_timeout, LosePacket

\* In the initial state nothing is on its way.
LEMMA InitCalls == ASSUME OffLmaster, Init, TypeOK PROVE CallInv
<1>1. /\ \A a, b \in Node : DOMAIN chan[a][b] = {}
      /\ \A b \in Node : DOMAIN deferred[b] = {}
  BY DEF Init
<1>2. \A d : d \notin OnTheWay(chan, deferred)
  BY <1>1, Places
<1>3. \A T : AtMostOne(T, chan, deferred) /\ ~ Present(T, chan, deferred)
  BY <1>1, <1>2 DEF AtMostOne, Present
<1>4. \A n \in Node, r \in ReqId : calls[n][r] = None
  BY DEF Init
<1>5. \A c \in Client : cl[c].pc = "idle"
  BY DEF Init, Resting
<1>6. AllAgree(lt, applied, calls, chan, deferred) /\ ParkedRight(deferred)
  BY <1>1, <1>2 DEF AllAgree, ParkedRight
<1>7. CallsCarried
  BY <1>3, <1>4 DEF CallsCarried
<1>8. WaitersServed
  <2>1. CallsServe /\ OneCallEach
    BY <1>4 DEF CallsServe, OneCallEach
  <2>2. \A c \in Client : ClientServed(c)
    BY <1>3, <1>5 DEF ClientServed
  <2> QED BY <2>1, <2>2 DEF WaitersServed
<1>9. ASSUME NEW k \in Key PROVE RoleCarried(k)
  <2>1. /\ Lmaster[k] \in Node /\ FirstDmaster[k] \in Node /\ FirstDmaster[k] # Lmaster[k]
        /\ applied[k] = 0
    BY ClusterAssumption DEF OffLmaster, Init
  <2>2. \A n \in Node : lt[n][k].dmaster = (IF n \in {Lmaster[k], FirstDmaster[k]}
                                            THEN FirstDmaster[k] ELSE Lmaster[k])
                        /\ lt[n][k].data = 0
    BY DEF Init, ltdb_initial_header
  <2>3. Chosen(lt, k) = FirstDmaster[k]
    BY <2>1, <2>2 DEF Chosen
  <2>4. \A n \in Node : lt[n][k].dmaster = n <=> n = FirstDmaster[k]
    BY <2>1, <2>2
  <2> QED BY <1>3, <2>1, <2>2, <2>3, <2>4 DEF RoleCarried
<1>10. ClientsOk /\ \A n \in Node : up[n]
  BY <1>5 DEF ClientsOk, ClientOk, Locking, Init
<1> QED BY <1>6, <1>7, <1>8, <1>9, <1>10 DEF CallInv, RolesCarried

\* Every step keeps the invariant.
LEMMA NextKeepsCalls ==
    ASSUME OffLmaster, NothingFails, TypeOK, CallInv, [Next]_vars
    PROVE  CallInv'
<1>a. TypeOK' /\ ClientsOk'
  BY NextType, NextKeepsLock DEF CallInv
<1>1. ASSUME NEW c \in Client, ClientNext(c) \/ TakeCall(c) \/ DeferCall(c) PROVE CallInv'
  BY <1>1, <1>a, ClientNextKeeps, TakeCallKeeps, DeferCallKeeps
<1>2. ASSUME NEW n \in Node, DaemonNext(n) PROVE CallInv'
  <2>1. ASSUME NEW m \in Node, RecvPacket(m, n) \/ DeferPacket(m, n) PROVE CallInv'
    BY <1>a, <2>1, RecvPacketKeeps, DeferPacketKeeps
  <2>2. ASSUME NEW i \in DOMAIN deferred[n], RetryPacket(n, i) \/ RetryCall(n, i) \/ RetryDeadCall(n, i)
        PROVE  CallInv'
    BY <1>a, <2>2, RetryPacketKeeps, RetryCallKeeps, NoFailure
  <2>3. ASSUME NEW r \in ReqId, ctdb_call_timeout(n, r) PROVE CallInv'
    BY <2>3, NoFailure
  <2> QED BY <1>2, <2>1, <2>2, <2>3 DEF DaemonNext
<1>3. ASSUME NEW n \in Node, NEW m \in Node, LosePacket(n, m) PROVE CallInv'
  BY <1>3, NoFailure
<1>4. CASE UNCHANGED vars
  <2>1. /\ lt' = lt /\ lock' = lock /\ chan' = chan /\ deferred' = deferred /\ calls' = calls
        /\ cl' = cl /\ up' = up /\ applied' = applied
    BY <1>4 DEF vars
  <2>2. CallsCarried'
    BY <2>1 DEF CallInv, CallsCarried
  <2>3. WaitersServed'
    BY <2>1 DEF CallInv, WaitersServed, CallsServe, OneCallEach, ClientServed, HasCall
  <2>4. RolesCarried'
    BY <2>1 DEF CallInv, RolesCarried, RoleCarried
  <2> QED BY <1>a, <2>1, <2>2, <2>3, <2>4 DEF CallInv
<1> QED BY <1>1, <1>2, <1>3, <1>4 DEF Next

\* In a cluster in which nothing fails every outstanding call and every role on
\* its way is in exactly one packet that says what is true, and every client
\* that waits for its daemon has exactly one call or parked request
\* (ctdb_call.c, ctdb_daemon.c), for any number of nodes, clients and records.
THEOREM CallsAreCarried == OffLmaster /\ NothingFails => (Spec => []CallInv)
<1> SUFFICES ASSUME OffLmaster, NothingFails PROVE Spec => []CallInv
  OBVIOUS
<1>1. Init => TypeOK /\ CallInv
  BY InitType, InitCalls
<1>2. TypeOK /\ [Next]_vars => TypeOK'
  BY NextType
<1>3. TypeOK /\ CallInv /\ [Next]_vars => CallInv'
  BY NextKeepsCalls
<1> QED BY <1>1, <1>2, <1>3, PTL DEF Spec
-----------------------------------------------------------------------------
(* What the clients see *)

WithHandle == {"held", "stored"}
Holds(c, k) == cl[c].pc \in WithHandle /\ cl[c].key = k

\* The copy that counts has every update.
LEMMA ValueIs == TypeOK /\ CallInv => \A k \in Key : ValueOf(k) = applied[k]
<1> SUFFICES ASSUME TypeOK, CallInv, NEW k \in Key PROVE ValueOf(k) = applied[k]
  OBVIOUS
<1>1. RoleCarried(k)
  BY DEF CallInv, RolesCarried
<1>2. CASE \E n \in Node : lt[n][k].dmaster = n
  <2> DEFINE n == CHOOSE n \in Node : lt[n][k].dmaster = n
  <2>1. n \in Node /\ lt[n][k].dmaster = n
    BY <1>2, Zenon
  <2>2. ValueOf(k) = lt[n][k].data
    BY <1>2 DEF ValueOf
  <2> HIDE DEF n
  <2> QED BY <1>1, <2>1, <2>2 DEF RoleCarried
<1>3. CASE ~ \E n \in Node : lt[n][k].dmaster = n
  BY <1>3 DEF ValueOf
<1> QED BY <1>2, <1>3

\* A record whose dmaster has a free lock, or a lock whose owner has no handle,
\* or that has no dmaster, is in nobody's hands.
LEMMA NobodyHolds ==
    ASSUME TypeOK, CallInv, NEW k \in Key,
           \A n \in Node : lt[n][k].dmaster = n =>
              \A c \in Client : lock[n][k] = c => cl[c].pc \notin WithHandle
    PROVE  \A c \in Client : ~ Holds(c, k)
<1> SUFFICES ASSUME NEW c \in Client, Holds(c, k) PROVE FALSE
  OBVIOUS
<1>1. ClientOk(c) /\ NodeOf[c] \in Node
  BY ClusterAssumption DEF CallInv, ClientsOk
<1>2. lock[NodeOf[c]][k] = c /\ lt[NodeOf[c]][k].dmaster = NodeOf[c] /\ cl[c].pc \in WithHandle
  BY <1>1 DEF ClientOk, Holds, WithHandle, Locking
<1> QED BY <1>1, <1>2

\* At most one client holds a record, and HolderOf is that client.
LEMMA HolderIs ==
    TypeOK /\ CallInv =>
        \A k \in Key : /\ \A c \in Client : Holds(c, k) => HolderOf(k) = c
                       /\ (\A c \in Client : ~ Holds(c, k)) => HolderOf(k) = None
<1> SUFFICES ASSUME TypeOK, CallInv, NEW k \in Key
             PROVE  /\ \A c \in Client : Holds(c, k) => HolderOf(k) = c
                    /\ (\A c \in Client : ~ Holds(c, k)) => HolderOf(k) = None
  OBVIOUS
<1>1. ASSUME NEW c \in Client, NEW d \in Client, Holds(c, k), Holds(d, k) PROVE c = d
  <2>1. ClientOk(c) /\ ClientOk(d) /\ NodeOf[c] \in Node /\ NodeOf[d] \in Node
    BY ClusterAssumption DEF CallInv, ClientsOk
  <2>2. /\ lock[NodeOf[c]][k] = c /\ lt[NodeOf[c]][k].dmaster = NodeOf[c]
        /\ lock[NodeOf[d]][k] = d /\ lt[NodeOf[d]][k].dmaster = NodeOf[d]
    BY <1>1, <2>1 DEF ClientOk, Holds, WithHandle, Locking
  <2>3. NodeOf[c] = NodeOf[d]
    BY <2>1, <2>2 DEF CallInv, RolesCarried, RoleCarried
  <2> QED BY <2>2, <2>3
<1>2. ASSUME NEW c \in Client, Holds(c, k) PROVE HolderOf(k) = c
  <2> DEFINE h == CHOOSE d \in Client : cl[d].key = k /\ cl[d].pc \in {"held", "stored"}
  <2>1. \E d \in Client : cl[d].key = k /\ cl[d].pc \in {"held", "stored"}
    BY <1>2 DEF Holds, WithHandle
  <2>2. h \in Client /\ cl[h].key = k /\ cl[h].pc \in {"held", "stored"}
    BY <2>1, Zenon
  <2>3. HolderOf(k) = h
    BY <2>1 DEF HolderOf
  <2> HIDE DEF h
  <2>4. Holds(h, k)
    BY <2>2 DEF Holds, WithHandle
  <2> QED BY <1>1, <1>2, <2>2, <2>3, <2>4
<1>3. ASSUME \A c \in Client : ~ Holds(c, k) PROVE HolderOf(k) = None
  BY <1>3 DEF Holds, WithHandle, HolderOf
<1> QED BY <1>2, <1>3

\* The same, after a step.
LEMMA AfterStep ==
    ASSUME TypeOK', CallInv'
    PROVE  /\ \A k \in Key : ValueOf(k)' = applied'[k]
           /\ \A k \in Key : /\ \A c \in Client : Holds(c, k)' => HolderOf(k)' = c
                             /\ (\A c \in Client : ~ Holds(c, k)') => HolderOf(k)' = None
<1>1. (TypeOK /\ CallInv => \A k \in Key : ValueOf(k) = applied[k])'
  BY ValueIs, PTL
<1>2. (TypeOK /\ CallInv =>
        \A k \in Key : /\ \A c \in Client : Holds(c, k) => HolderOf(k) = c
                       /\ (\A c \in Client : ~ Holds(c, k)) => HolderOf(k) = None)'
  BY HolderIs, PTL
<1> QED BY <1>1, <1>2

\* The packet e answers the call of client c.
Answers(cs, e, c) ==
    /\ e[1].op = "reply_call" /\ e[2] = NodeOf[c]
    /\ CallOf(cs, e[1], e[2]) # None /\ CallOf(cs, e[1], e[2]).client = c

\* A reply is never parked.
LEMMA AnsweredIs ==
    TypeOK /\ ParkedRight(deferred) =>
        \A c \in Client : Answered(c) <=> \E e \in OnTheWay(chan, deferred) : Answers(calls, e, c)
<1> SUFFICES ASSUME TypeOK, ParkedRight(deferred), NEW c \in Client
             PROVE  Answered(c) <=> \E e \in OnTheWay(chan, deferred) : Answers(calls, e, c)
  OBVIOUS
<1>0. NodeOf[c] \in Node
  BY ClusterAssumption
<1>1. ASSUME Answered(c) PROVE \E e \in OnTheWay(chan, deferred) : Answers(calls, e, c)
  <2>0. PICK n \in Node : n = NodeOf[c]
    BY <1>0
  <2>1. PICK r \in ReqId, m \in Node :
          /\ calls[n][r] # None /\ calls[n][r].client = c
          /\ \E i \in DOMAIN chan[m][n] : chan[m][n][i].op = "reply_call" /\ chan[m][n][i].reqid = r
    BY <1>1, <2>0 DEF Answered
  <2>2. PICK i \in DOMAIN chan[m][n] : chan[m][n][i].op = "reply_call" /\ chan[m][n][i].reqid = r
    BY <2>1
  <2> DEFINE e == <<chan[m][n][i], n>>
  <2>3. e \in OnTheWay(chan, deferred)
    BY ArePlaces
  <2>4. CallerOf(e[1], e[2]) = n
    BY <2>2 DEF CallerOf
  <2>5. Answers(calls, e, c)
    BY <2>0, <2>1, <2>2, <2>4 DEF Answers, CallOf
  <2> QED BY <2>3, <2>5
<1>2. ASSUME NEW e \in OnTheWay(chan, deferred), Answers(calls, e, c) PROVE Answered(c)
  <2>1. ASSUME NEW b \in Node, NEW i \in DOMAIN deferred[b], e = <<deferred[b][i].pkt, b>> PROVE FALSE
    BY <1>2, <2>1 DEF Answers, ParkedRight
  <2>2. ASSUME NEW a \in Node, NEW b \in Node, NEW i \in DOMAIN chan[a][b], e = <<chan[a][b][i], b>>
        PROVE  Answered(c)
    <3>1. b = NodeOf[c] /\ chan[a][b][i].op = "reply_call"
      BY <1>2, <2>2 DEF Answers
    <3>2. chan[a][b][i] \in Packet
      BY DEF TypeOK
    <3>3. chan[a][b][i].reqid \in ReqId
      BY <3>1, <3>2, PacketTypes DEF ReplyCall
    <3>4. CallOf(calls, e[1], e[2]) = calls[b][chan[a][b][i].reqid]
      BY <2>2, <3>1 DEF CallOf, CallerOf
    <3> QED BY <1>2, <3>1, <3>3, <3>4 DEF Answered, Answers
  <2>3. \/ \E a, b \in Node : \E i \in DOMAIN chan[a][b] : e = <<chan[a][b][i], b>>
        \/ \E b \in Node : \E i \in DOMAIN deferred[b] : e = <<deferred[b][i].pkt, b>>
    BY <1>2, Places
  <2> QED BY <2>1, <2>2, <2>3
<1> QED BY <1>1, <1>2

\* The same, after a step.
LEMMA AnsweredAfter ==
    ASSUME TypeOK', CallInv'
    PROVE  \A c \in Client :
              Answered(c)' <=> \E e \in OnTheWay(chan', deferred') : Answers(calls', e, c)
<1>1. (TypeOK /\ ParkedRight(deferred) =>
        \A c \in Client : Answered(c) <=> \E e \in OnTheWay(chan, deferred) : Answers(calls, e, c))'
  BY AnsweredIs, PTL
<1> QED BY <1>1 DEF CallInv

\* A step that answers nobody's call, or not that of client c.
LEMMA AnsweredStep ==
    ASSUME TypeOK, TypeOK', CallInv, CallInv', NEW P, NEW Q, NEW ch, NEW df, Taken(P, ch, df), Sent(Q, ch, df),
           \A d \in OnTheWay(ch, df) : d[1].op # "client_call" =>
              SameCall(CallOf(calls, d[1], d[2]), CallOf(calls', d[1], d[2])),
           NEW c \in Client, \A e \in P : ~ Answers(calls, e, c)
    PROVE  Answered(c)' <=> Answered(c) \/ \E e \in Q : Answers(calls', e, c)
<1>1. Answered(c) <=> \E e \in OnTheWay(chan, deferred) : Answers(calls, e, c)
  BY AnsweredIs DEF CallInv
<1>3. Answered(c)' <=> \E e \in OnTheWay(chan', deferred') : Answers(calls', e, c)
  BY AnsweredAfter
<1>4. ASSUME NEW e \in OnTheWay(ch, df) PROVE Answers(calls, e, c) <=> Answers(calls', e, c)
  <2>1. CASE e[1].op = "reply_call"
    <3>1. SameCall(CallOf(calls, e[1], e[2]), CallOf(calls', e[1], e[2]))
      BY <2>1
    <3> QED BY <3>1 DEF Answers, SameCall
  <2>2. CASE e[1].op # "reply_call"
    BY <2>2 DEF Answers
  <2> QED BY <2>1, <2>2
<1> QED BY <1>1, <1>3, <1>4 DEF Taken, Sent

\* A client without a call has no answer on its way.
LEMMA NotAnswered ==
    ASSUME NEW c \in Client, ~ HasCall(c)
    PROVE  ~ Answered(c)
BY DEF HasCall, Answered
-----------------------------------------------------------------------------
(* The steps of CtdbRecord *)

Abstractly == AbstractRecord!RNext \/ UNCHANGED AbstractRecord!rvars

\* A client that a step leaves alone sees nothing.
LEMMA SeesNothing ==
    ASSUME NEW d \in Client, cl'[d] = cl[d], Answered(d)' <=> Answered(d)
    PROVE  DoingOf(d)' = DoingOf(d) /\ SeenBy(d)' = SeenBy(d) /\ \A k : Holds(d, k)' <=> Holds(d, k)
BY DEF DoingOf, SeenBy, Holds, WithHandle

\* The handles stay where they are.
LEMMA SameHolders ==
    ASSUME TypeOK, CallInv, TypeOK', CallInv', NEW k \in Key,
           \A d \in Client : Holds(d, k)' <=> Holds(d, k)
    PROVE  HolderOf(k)' = HolderOf(k)
<1>1. /\ \A c \in Client : Holds(c, k) => HolderOf(k) = c
      /\ (\A c \in Client : ~ Holds(c, k)) => HolderOf(k) = None
  BY HolderIs
<1>2. /\ \A c \in Client : Holds(c, k)' => HolderOf(k)' = c
      /\ (\A c \in Client : ~ Holds(c, k)') => HolderOf(k)' = None
  BY AfterStep
<1>3. CASE \E c \in Client : Holds(c, k)
  <2>1. PICK c \in Client : Holds(c, k)
    BY <1>3
  <2> QED BY <1>1, <1>2, <2>1
<1>4. CASE \A c \in Client : ~ Holds(c, k)
  BY <1>1, <1>2, <1>4
<1> QED BY <1>3, <1>4

\* A step that no client sees.
LEMMA Unseen ==
    ASSUME TypeOK, CallInv, TypeOK', CallInv', applied' = applied,
           \A d \in Client : DoingOf(d)' = DoingOf(d) /\ SeenBy(d)' = SeenBy(d),
           \A d \in Client, k \in Key : Holds(d, k)' <=> Holds(d, k)
    PROVE  Abstractly
<1>1. \A k \in Key : ValueOf(k)' = ValueOf(k)
  BY ValueIs, AfterStep
<1>2. \A k \in Key : HolderOf(k)' = HolderOf(k)
  BY SameHolders
<1>3. UNCHANGED AbstractRecord!rvars
  BY <1>1, <1>2 DEF AbstractRecord!rvars
<1> QED BY <1>3 DEF Abstractly

\* An operation starts.
LEMMA SeenInvoke ==
    ASSUME TypeOK, CallInv, TypeOK', CallInv', applied' = applied,
           NEW c \in Client, DoingOf(c) = "nothing", DoingOf(c)' \in {"get", "incr", "fetch"},
           \A d \in Client : d # c => DoingOf(d)' = DoingOf(d),
           \A d \in Client : SeenBy(d)' = SeenBy(d),
           \A d \in Client, k \in Key : Holds(d, k)' <=> Holds(d, k)
    PROVE  Abstractly
<1>1. \A k \in Key : ValueOf(k)' = ValueOf(k)
  BY ValueIs, AfterStep
<1>2. \A k \in Key : HolderOf(k)' = HolderOf(k)
  BY SameHolders
<1>3. PICK op \in {"get", "incr", "fetch"} : DoingOf(c)' = op
  OBVIOUS
<1>4. [d \in Client |-> DoingOf(d)]' = [[d \in Client |-> DoingOf(d)] EXCEPT ![c] = op]
  BY <1>3
<1>5. AbstractRecord!Invoke(c, op)
  BY <1>1, <1>2, <1>4 DEF AbstractRecord!Invoke
<1> QED BY <1>5 DEF AbstractRecord!RNext, Abstractly

\* A call returns.
LEMMA SeenReturn ==
    ASSUME TypeOK, CallInv, TypeOK', CallInv', applied' = applied,
           NEW c \in Client, DoingOf(c) = "done", DoingOf(c)' = "nothing",
           \A d \in Client : d # c => DoingOf(d)' = DoingOf(d),
           \A d \in Client : SeenBy(d)' = SeenBy(d),
           \A d \in Client, k \in Key : Holds(d, k)' <=> Holds(d, k)
    PROVE  Abstractly
<1>1. \A k \in Key : ValueOf(k)' = ValueOf(k)
  BY ValueIs, AfterStep
<1>2. \A k \in Key : HolderOf(k)' = HolderOf(k)
  BY SameHolders
<1>4. [d \in Client |-> DoingOf(d)]' = [[d \in Client |-> DoingOf(d)] EXCEPT ![c] = "nothing"]
  OBVIOUS
<1>5. AbstractRecord!Return(c)
  BY <1>1, <1>2, <1>4 DEF AbstractRecord!Return
<1> QED BY <1>5 DEF AbstractRecord!RNext, Abstractly

\* A call takes effect on a record that nobody holds.
LEMMA SeenEffect ==
    ASSUME TypeOK, CallInv, TypeOK', CallInv',
           NEW c \in Client, NEW k \in Key, NEW func, Perform(func, k),
           DoingOf(c) \in {"get", "incr"}, func = IF DoingOf(c) = "incr" THEN "incr" ELSE "null",
           DoingOf(c)' \in {"done", "nothing"},
           \A d \in Client : d # c => DoingOf(d)' = DoingOf(d),
           \A d \in Client : SeenBy(d)' = SeenBy(d),
           \A d \in Client, j \in Key : Holds(d, j)' <=> Holds(d, j),
           \A d \in Client : ~ Holds(d, k)
    PROVE  Abstractly
<1>1. \A j \in Key : ValueOf(j) = applied[j] /\ ValueOf(j)' = applied'[j]
  BY ValueIs, AfterStep
<1>2. \A j \in Key : HolderOf(j)' = HolderOf(j)
  BY SameHolders
<1>3. HolderOf(k) = None
  BY HolderIs
<1>4. PICK x \in {"done", "nothing"} : DoingOf(c)' = x
  OBVIOUS
<1>5. [d \in Client |-> DoingOf(d)]' = [[d \in Client |-> DoingOf(d)] EXCEPT ![c] = x]
  BY <1>4
<1>6. [j \in Key |-> ValueOf(j)]' = IF DoingOf(c) = "incr" THEN [[j \in Key |-> ValueOf(j)] EXCEPT ![k] = @ + 1]
                                    ELSE [j \in Key |-> ValueOf(j)]
  <2>1. \A j \in Key : applied'[j] = IF DoingOf(c) = "incr" /\ j = k THEN applied[j] + 1 ELSE applied[j]
    BY DEF Perform, TypeOK
  <2> QED BY <1>1, <2>1
<1>7. AbstractRecord!Effect(c, k)
  BY <1>2, <1>3, <1>5, <1>6 DEF AbstractRecord!Effect
<1> QED BY <1>7 DEF AbstractRecord!RNext, Abstractly

\* A client gets a handle on a record that nobody holds.
LEMMA SeenAcquire ==
    ASSUME TypeOK, CallInv, TypeOK', CallInv', applied' = applied,
           NEW c \in Client, NEW k \in Key, DoingOf(c) = "fetch", DoingOf(c)' = "hold",
           SeenBy(c)' = applied[k],
           \A d \in Client : d # c => DoingOf(d)' = DoingOf(d) /\ SeenBy(d)' = SeenBy(d),
           \A d \in Client, j \in Key : Holds(d, j)' <=> Holds(d, j) \/ (d = c /\ j = k),
           \A d \in Client : ~ Holds(d, k)
    PROVE  Abstractly
<1>1. \A j \in Key : ValueOf(j)' = ValueOf(j) /\ ValueOf(j) = applied[j]
  BY ValueIs, AfterStep
<1>2. HolderOf(k) = None /\ HolderOf(k)' = c
  BY HolderIs, AfterStep
<1>3. ASSUME NEW j \in Key, j # k PROVE HolderOf(j)' = HolderOf(j)
  BY <1>3, SameHolders
<1>4. [d \in Client |-> DoingOf(d)]' = [[d \in Client |-> DoingOf(d)] EXCEPT ![c] = "hold"]
  OBVIOUS
<1>5. [d \in Client |-> SeenBy(d)]' = [[d \in Client |-> SeenBy(d)] EXCEPT ![c] = ValueOf(k)]
  BY <1>1
<1>6. [j \in Key |-> HolderOf(j)]' = [[j \in Key |-> HolderOf(j)] EXCEPT ![k] = c]
  BY <1>2, <1>3
<1>7. AbstractRecord!Acquire(c, k)
  BY <1>1, <1>2, <1>4, <1>5, <1>6 DEF AbstractRecord!Acquire
<1> QED BY <1>7 DEF AbstractRecord!RNext, Abstractly

\* The holder stores what it saw and one more update.
LEMMA SeenStore ==
    ASSUME TypeOK, CallInv, TypeOK', CallInv',
           NEW c \in Client, NEW k \in Key, Holds(c, k), SeenBy(c) = applied[k],
           applied' = [applied EXCEPT ![k] = @ + 1],
           \A d \in Client : DoingOf(d)' = DoingOf(d) /\ SeenBy(d)' = SeenBy(d),
           \A d \in Client, j \in Key : Holds(d, j)' <=> Holds(d, j)
    PROVE  Abstractly
<1>1. \A j \in Key : ValueOf(j)' = applied'[j] /\ ValueOf(j) = applied[j]
  BY ValueIs, AfterStep
<1>2. \A j \in Key : HolderOf(j)' = HolderOf(j)
  BY SameHolders
<1>3. HolderOf(k) = c
  BY HolderIs
<1>4. [j \in Key |-> ValueOf(j)]' = [[j \in Key |-> ValueOf(j)] EXCEPT ![k] = SeenBy(c) + 1]
  <2>1. \A j \in Key : applied'[j] = IF j = k THEN SeenBy(c) + 1 ELSE applied[j]
    BY DEF TypeOK
  <2> QED BY <1>1, <2>1
<1>5. AbstractRecord!Store(c, k)
  BY <1>2, <1>3, <1>4 DEF AbstractRecord!Store
<1> QED BY <1>5 DEF AbstractRecord!RNext, Abstractly

\* The holder lets go.
LEMMA SeenRelease ==
    ASSUME TypeOK, CallInv, TypeOK', CallInv', applied' = applied,
           NEW c \in Client, NEW k \in Key, Holds(c, k), DoingOf(c)' = "nothing", SeenBy(c)' = None,
           \A d \in Client : d # c => DoingOf(d)' = DoingOf(d) /\ SeenBy(d)' = SeenBy(d),
           \A d \in Client, j \in Key : Holds(d, j)' <=> Holds(d, j) /\ d # c
    PROVE  Abstractly
<1>1. \A j \in Key : ValueOf(j)' = ValueOf(j)
  BY ValueIs, AfterStep
<1>2. HolderOf(k) = c
  BY HolderIs
<1>3. ASSUME NEW d \in Client, d # c PROVE ~ Holds(d, k)
  BY <1>2, <1>3, HolderIs
<1>4. HolderOf(k)' = None
  BY <1>3, AfterStep
<1>5. ASSUME NEW j \in Key, j # k PROVE HolderOf(j)' = HolderOf(j)
  <2>1. ~ Holds(c, j)
    BY <1>5 DEF Holds
  <2> QED BY <2>1, SameHolders
<1>6. [d \in Client |-> DoingOf(d)]' = [[d \in Client |-> DoingOf(d)] EXCEPT ![c] = "nothing"]
  OBVIOUS
<1>7. [d \in Client |-> SeenBy(d)]' = [[d \in Client |-> SeenBy(d)] EXCEPT ![c] = None]
  OBVIOUS
<1>8. [j \in Key |-> HolderOf(j)]' = [[j \in Key |-> HolderOf(j)] EXCEPT ![k] = None]
  BY <1>4, <1>5
<1>9. AbstractRecord!Release(c, k)
  BY <1>1, <1>2, <1>6, <1>7, <1>8 DEF AbstractRecord!Release
<1> QED BY <1>9 DEF AbstractRecord!RNext, Abstractly
-----------------------------------------------------------------------------
(* What the steps of a client look like *)

\* Only what ctdb_call sends reaches the daemon, whatever step is taken.
LEMMA NextKeepsCallers ==
    ASSUME TypeOK, CallInv, CallersCall, [Next]_vars
    PROVE  CallersCall'
<1>a. cl \in [Client -> ClientState]
  BY DEF TypeOK
<1>b. ASSUME \A d \in Client :
               \/ cl'[d].pc \notin {"sent", "wait", "replied"}
               \/ cl'[d].op = cl[d].op /\ (cl[d].op # "fetch" \/ cl[d].pc \in {"sent", "wait", "replied"})
      PROVE  CallersCall'
  BY <1>b DEF CallersCall
<1>1. ASSUME NEW c \in Client, ClientNext(c) PROVE CallersCall'
  <2>1. \A d \in Client : d # c => cl'[d] = cl[d]
    BY <1>1, <1>a DEF ClientNext, ClientStart, ClientLock, FetchHere, FetchElsewhere, ClientCallLocal,
        ClientCallDaemon, ClientReply, ctdb_record_store, ClientRelease, ClientExit, ClientDaemonGone,
        UnlockAndGo, UnlockAndRest, CallReturned
  <2>2. cl[c] \in ClientState
    BY <1>a
  <2>3. \/ cl'[c].pc \notin {"sent", "wait", "replied"}
        \/ cl'[c].op = cl[c].op /\ cl[c].op # "fetch"
    BY <1>1, <1>a, <2>2 DEF ClientNext, ClientStart, ClientLock, FetchHere, FetchElsewhere, ClientCallLocal,
        ClientCallDaemon, ClientReply, ctdb_record_store, ClientRelease, ClientExit, ClientDaemonGone,
        UnlockAndGo, UnlockAndRest, CallReturned, Resting, ClientState
  <2> QED BY <2>1, <2>3 DEF CallersCall
<1>2. ASSUME NEW c \in Client, NEW n \in Node, NEW df, daemon_request_call_from_client(n, c, df),
             cl[c].pc \in {"sent", "wait"}
      PROVE  CallersCall'
  <2>1. \E x : cl' = [cl EXCEPT ![c].pc = x]
    BY <1>2 DEF daemon_request_call_from_client, DaemonCallLocal, ctdb_daemon_call_send_remote
  <2> QED BY <1>2, <1>a, <1>b, <2>1 DEF ClientState
<1>3. ASSUME NEW c \in Client, TakeCall(c) PROVE CallersCall'
  BY <1>2, <1>3, ClusterAssumption DEF TakeCall
<1>4. ASSUME NEW c \in Client, DeferCall(c) PROVE CallersCall'
  BY <1>4, <1>a, <1>b DEF DeferCall, ClientState
<1>5. ASSUME NEW n \in Node, NEW p, NEW ch, NEW df, ctdb_recv_pkt(n, p, ch, df), p \in Packet PROVE CallersCall'
  <2>1. CASE cl' = cl
    BY <2>1 DEF CallersCall
  <2>2. CASE calls[n][p.reqid] # None /\ CompleteCall(n, p.reqid)
    <3>0. p.reqid \in ReqId
      BY <1>5 DEF Packet, ReqCall, ReqDmaster, ReplyDmaster, ReplyCall, ReplyRedirect
    <3>1. calls[n][p.reqid] \in CallState /\ Serves(cl, calls[n][p.reqid], n)
      BY <2>2, <3>0, CallEntryType DEF CallInv, WaitersServed, CallsServe
    <3>2. PICK c \in Client : calls[n][p.reqid].client = c
      BY <3>1 DEF CallState
    <3>3. cl[c].pc = "wait" /\ cl' = [cl EXCEPT ![c].pc = "replied"]
      BY <2>2, <3>1, <3>2 DEF Serves, CompleteCall
    <3> QED BY <1>a, <1>b, <3>3 DEF ClientState
  <2> QED BY <1>5, <2>1, <2>2 DEF ctdb_recv_pkt, ctdb_request_call, ctdb_request_dmaster,
            DmasterRequestFatal, ctdb_reply_dmaster, ctdb_reply_call, ctdb_reply_redirect, UnknownReply
<1>6. ASSUME NEW n \in Node, DaemonNext(n) PROVE CallersCall'
  <2>1. ASSUME NEW m \in Node, RecvPacket(m, n) PROVE CallersCall'
    <3>1. Head(chan[m][n]) \in Packet
      BY <2>1, QueueTypes DEF RecvPacket, TypeOK
    <3> QED BY <1>5, <2>1, <3>1 DEF RecvPacket
  <2>2. ASSUME NEW i \in DOMAIN deferred[n], RetryPacket(n, i) PROVE CallersCall'
    BY <1>5, <2>2, ParkedTypes DEF RetryPacket
  <2>3. ASSUME NEW i \in DOMAIN deferred[n], RetryCall(n, i) PROVE CallersCall'
    <3>1. PICK c \in Client : deferred[n][i].pkt.client = c
      BY <2>3, ParkedTypes DEF RetryCall
    <3>2. <<deferred[n][i].pkt, n>> \in OnTheWay(chan, deferred) /\ <<deferred[n][i].pkt, n>> \in Delivery
      BY ArePlaces, ParkedTypes DEF Delivery, Parked
    <3>3. Present(Asking(c), chan, deferred)
      BY <2>3, <3>1, <3>2 DEF Present, Asking, RetryCall
    <3>4. cl[c].pc = "wait"
      BY <3>3 DEF CallInv, WaitersServed, ClientServed
    <3> QED BY <1>2, <2>3, <3>1, <3>4 DEF RetryCall
  <2>4. CASE cl' = cl
    BY <2>4 DEF CallersCall
  <2> QED BY <1>6, <2>1, <2>2, <2>3, <2>4 DEF DaemonNext, DeferPacket, RetryDeadCall, ctdb_call_timeout
<1>7. CASE cl' = cl
  BY <1>7 DEF CallersCall
<1> QED BY <1>1, <1>3, <1>4, <1>6, <1>7 DEF Next, LosePacket, vars

\* A step of a client process is a step of the record store.
LEMMA ClientNextSeen ==
    ASSUME NothingFails, TypeOK, TypeOK', CallInv, CallInv', CallersCall, NEW c \in Client, ClientNext(c)
    PROVE  Abstractly
<1>0. PICK n \in Node, k \in Key : n = NodeOf[c] /\ k = cl[c].key
  BY ClientMoves, ClusterAssumption
<1>a. /\ cl \in [Client -> ClientState] /\ cl[c] \in ClientState
      /\ up[n] /\ ClientOk(c) /\ RolesCarried
  BY <1>0 DEF TypeOK, CallInv, ClientsOk
<1>b. chan' = chan /\ calls' = calls /\ \A d \in Client : Answered(d)' <=> Answered(d)
  <2>1. chan' = chan /\ calls' = calls
    BY DEF ClientNext, ClientStart, ClientLock, FetchHere, FetchElsewhere, ClientCallLocal, NothingFails,
        ClientCallDaemon, ClientReply, ctdb_record_store, ClientRelease, ClientExit, ClientDaemonGone
  <2> QED BY <2>1 DEF Answered
<1>c. cl[c].pc # "wait" => ~ Answered(c) /\ ~ Answered(c)'
  <2>1. ASSUME cl[c].pc # "wait" PROVE ~ HasCall(c)
    BY <1>0, <2>1, NotWaiting DEF HasCall, CallInv
  <2> QED BY <1>b, <2>1, NotAnswered
<1>d. ASSUME \A d \in Client : d # c => cl'[d] = cl[d]
      PROVE  \A d \in Client : d # c =>
               DoingOf(d)' = DoingOf(d) /\ SeenBy(d)' = SeenBy(d) /\ \A j : Holds(d, j)' <=> Holds(d, j)
  BY <1>b, <1>d, SeesNothing
<1>e. ASSUME applied' = applied, \A d \in Client : d # c => cl'[d] = cl[d],
             cl[c].pc \notin WithHandle, cl'[c].pc \notin WithHandle, DoingOf(c)' = DoingOf(c)
      PROVE  Abstractly
  <2>1. \A d \in Client, j \in Key : Holds(d, j)' <=> Holds(d, j)
    BY <1>d, <1>e DEF Holds
  <2>2. SeenBy(c)' = SeenBy(c)
    BY <1>e DEF SeenBy, WithHandle
  <2> QED BY <1>d, <1>e, <2>1, <2>2, Unseen
<1>f. ASSUME lt[n][k].dmaster = n, cl[c].pc = "locked" PROVE \A d \in Client : ~ Holds(d, k)
  <2>1. lock[n][k] = c
    BY <1>0, <1>a, <1>f DEF ClientOk, Locking
  <2>2. \A m \in Node : lt[m][k].dmaster = m => m = n
    BY <1>a, <1>f, DmasterHome
  <2> QED BY <1>f, <2>1, <2>2, NobodyHolds DEF WithHandle
<1>1. ASSUME NEW op \in ClientOps[c], NEW j \in Wants[c], ClientStart(c, op, j) PROVE Abstractly
  <2>1. /\ cl[c].pc = "idle" /\ cl'[c].pc = "lock" /\ cl'[c].op = op /\ \A d \in Client : d # c => cl'[d] = cl[d]
        /\ applied' = applied
    BY <1>1, <1>a DEF ClientStart
  <2>2. op \in {"get", "incr", "fetch"}
    BY ClusterAssumption DEF StartOp
  <2>3. DoingOf(c) = "nothing" /\ DoingOf(c)' = op
    BY <1>c, <2>1, <2>2 DEF DoingOf
  <2>4. \A d \in Client, i \in Key : Holds(d, i)' <=> Holds(d, i)
    BY <1>d, <2>1 DEF Holds, WithHandle
  <2>5. SeenBy(c)' = SeenBy(c)
    BY <2>1 DEF SeenBy
  <2> QED BY <1>d, <2>1, <2>2, <2>3, <2>4, <2>5, SeenInvoke
<1>2. CASE ClientLock(c)
  <2>1. /\ cl[c].pc = "lock" /\ cl'[c].pc = "locked" /\ cl'[c].op = cl[c].op
        /\ \A d \in Client : d # c => cl'[d] = cl[d]
    BY <1>2, <1>a DEF ClientLock, ClientState
  <2>2. DoingOf(c)' = DoingOf(c)
    BY <1>c, <2>1 DEF DoingOf
  <2> QED BY <1>2, <1>e, <2>1, <2>2 DEF ClientLock, WithHandle
<1>3. CASE FetchHere(c)
  <2>1. /\ cl[c].pc = "locked" /\ cl[c].op = "fetch" /\ cl'[c].pc = "held" /\ cl'[c].key = k
        /\ cl'[c].got = lt[n][k]
        /\ \A d \in Client : d # c => cl'[d] = cl[d]
        /\ lt[n][k].dmaster = n /\ applied' = applied
    BY <1>0, <1>3, <1>a DEF FetchHere, ClientState
  <2>2. DoingOf(c) = "fetch" /\ DoingOf(c)' = "hold"
    BY <2>1 DEF DoingOf
  <2>3. SeenBy(c)' = applied[k]
    <3>1. lt[n][k].data = applied[k]
      BY <1>a, <2>1, DmasterHome
    <3> QED BY <2>1, <3>1 DEF SeenBy
  <2>4. \A d \in Client, j \in Key : Holds(d, j)' <=> Holds(d, j) \/ (d = c /\ j = k)
    BY <1>d, <2>1 DEF Holds, WithHandle
  <2> QED BY <1>d, <1>f, <2>1, <2>2, <2>3, <2>4, SeenAcquire
<1>4. CASE FetchElsewhere(c)
  <2>1. /\ cl[c].pc = "locked" /\ cl'[c].pc = "lock" /\ cl[c].op = "fetch" /\ cl'[c].op = "migrate"
        /\ \A d \in Client : d # c => cl'[d] = cl[d]
    BY <1>4, <1>a DEF FetchElsewhere, UnlockAndGo, ClientState
  <2>2. DoingOf(c)' = DoingOf(c)
    BY <2>1 DEF DoingOf
  <2> QED BY <1>4, <1>e, <2>1, <2>2 DEF FetchElsewhere, WithHandle
<1>5. CASE ClientCallLocal(c)
  <2>1. /\ cl[c].pc = "locked" /\ cl[c].op # "fetch" /\ cl' = CallReturned(c) /\ lt[n][k].dmaster = n
        /\ Perform(FuncOf(c), k)
    BY <1>0, <1>5 DEF ClientCallLocal
  <2>2. cl'[c].pc \in {"lock", "idle"} /\ \A d \in Client : d # c => cl'[d] = cl[d]
    BY <1>a, <2>1 DEF CallReturned, Resting, ClientState
  <2>3. CASE cl[c].op = "migrate"
    <3>1. cl'[c].pc = "lock" /\ cl'[c].op = "fetch" /\ applied' = applied
      BY <1>a, <2>1, <2>3 DEF CallReturned, ClientState, Perform, FuncOf
    <3>2. DoingOf(c)' = DoingOf(c)
      BY <2>1, <2>3, <3>1 DEF DoingOf
    <3> QED BY <1>e, <2>1, <2>2, <3>1, <3>2 DEF WithHandle
  <2>4. CASE cl[c].op # "migrate"
    <3>1. cl[c].op \in {"get", "incr"} /\ cl'[c].pc = "idle"
      BY <1>a, <2>1, <2>4 DEF CallReturned, ClientState, Op, StartOp, Resting
    <3>2. DoingOf(c) = cl[c].op /\ DoingOf(c)' = "nothing"
      BY <1>c, <2>1, <3>1 DEF DoingOf
    <3>3. \A d \in Client, j \in Key : Holds(d, j)' <=> Holds(d, j)
      BY <1>d, <2>1, <2>2 DEF Holds, WithHandle
    <3>4. SeenBy(c)' = SeenBy(c)
      BY <2>1, <2>2 DEF SeenBy
    <3>5. FuncOf(c) = IF DoingOf(c) = "incr" THEN "incr" ELSE "null"
      BY <3>2 DEF FuncOf
    <3> QED BY <1>d, <1>f, <2>1, <2>2, <3>1, <3>2, <3>3, <3>4, <3>5, SeenEffect
  <2> QED BY <2>3, <2>4
<1>6. CASE ClientCallDaemon(c)
  <2>1. /\ cl[c].pc = "locked" /\ cl'[c].pc = "sent" /\ cl'[c].op = cl[c].op
        /\ \A d \in Client : d # c => cl'[d] = cl[d]
    BY <1>6, <1>a DEF ClientCallDaemon, UnlockAndGo, ClientState
  <2>2. DoingOf(c)' = DoingOf(c)
    BY <1>c, <2>1 DEF DoingOf
  <2> QED BY <1>6, <1>e, <2>1, <2>2 DEF ClientCallDaemon, WithHandle
<1>7. CASE ClientReply(c)
  <2>1. /\ cl[c].pc = "replied" /\ cl[c].op # "fetch" /\ cl' = CallReturned(c) /\ applied' = applied
    BY <1>7 DEF ClientReply, CallersCall
  <2>2. cl'[c].pc \in {"lock", "idle"} /\ \A d \in Client : d # c => cl'[d] = cl[d]
    BY <1>a, <2>1 DEF CallReturned, Resting, ClientState
  <2>3. CASE cl[c].op = "migrate"
    <3>1. cl'[c].pc = "lock" /\ cl'[c].op = "fetch"
      BY <1>a, <2>1, <2>3 DEF CallReturned, ClientState
    <3>2. DoingOf(c)' = DoingOf(c)
      BY <2>1, <2>3, <3>1 DEF DoingOf
    <3> QED BY <1>e, <2>1, <2>2, <3>1, <3>2 DEF WithHandle
  <2>4. CASE cl[c].op # "migrate"
    <3>1. cl[c].op \in {"get", "incr"} /\ cl'[c].pc = "idle"
      BY <1>a, <2>1, <2>4 DEF CallReturned, ClientState, Op, StartOp, Resting
    <3>2. DoingOf(c) = "done" /\ DoingOf(c)' = "nothing"
      BY <2>1, <3>1 DEF DoingOf
    <3>3. \A d \in Client, j \in Key : Holds(d, j)' <=> Holds(d, j)
      BY <1>d, <2>1, <2>2 DEF Holds, WithHandle
    <3>4. SeenBy(c)' = SeenBy(c)
      BY <2>1, <2>2 DEF SeenBy
    <3> QED BY <1>d, <2>1, <2>2, <3>1, <3>2, <3>3, <3>4, SeenReturn
  <2> QED BY <2>3, <2>4
<1>8. CASE ctdb_record_store(c)
  <2>1. /\ cl[c].pc = "held" /\ cl'[c].pc = "stored" /\ cl'[c].key = k /\ cl'[c].got = cl[c].got
        /\ applied' = [applied EXCEPT ![k] = @ + 1]
        /\ \A d \in Client : d # c => cl'[d] = cl[d]
    BY <1>0, <1>8, <1>a DEF ctdb_record_store, ClientState
  <2>2. cl[c].got = lt[n][k] /\ lt[n][k].dmaster = n
    BY <1>0, <1>a, <2>1 DEF ClientOk
  <2>3. lt[n][k].data = applied[k]
    BY <1>a, <2>2, DmasterHome
  <2>4. Holds(c, k) /\ SeenBy(c) = applied[k] /\ SeenBy(c)' = SeenBy(c) /\ DoingOf(c)' = DoingOf(c)
    BY <1>0, <2>1, <2>2, <2>3 DEF Holds, WithHandle, SeenBy, DoingOf
  <2>5. \A d \in Client, j \in Key : Holds(d, j)' <=> Holds(d, j)
    BY <1>0, <1>d, <2>1 DEF Holds, WithHandle
  <2> QED BY <1>d, <2>1, <2>4, <2>5, SeenStore
<1>9. CASE ClientRelease(c)
  <2>1. /\ cl[c].pc \in {"held", "stored"} /\ cl'[c].pc = "idle" /\ applied' = applied
        /\ \A d \in Client : d # c => cl'[d] = cl[d]
    BY <1>9, <1>a DEF ClientRelease, UnlockAndRest, Resting
  <2>2. Holds(c, k) /\ SeenBy(c)' = None /\ DoingOf(c)' = "nothing"
    BY <1>0, <2>1 DEF Holds, WithHandle, SeenBy, DoingOf
  <2>3. \A d \in Client, j \in Key : Holds(d, j)' <=> Holds(d, j) /\ d # c
    BY <1>d, <2>1 DEF Holds, WithHandle
  <2> QED BY <1>d, <2>1, <2>2, <2>3, SeenRelease
<1>10. CASE ClientExit(c)
  BY <1>10 DEF ClientExit, NothingFails
<1>11. CASE ClientDaemonGone(c)
  BY <1>0, <1>11, <1>a DEF ClientDaemonGone
<1> QED BY <1>1, <1>2, <1>3, <1>4, <1>5, <1>6, <1>7, <1>8, <1>9, <1>10, <1>11 DEF ClientNext
-----------------------------------------------------------------------------
(* What the steps of a daemon look like *)

\* A step between daemons that answers nobody is invisible.
LEMMA QuietSeen ==
    ASSUME TypeOK, TypeOK', CallInv, CallInv', NEW P, NEW Q, NEW ch, NEW df, Taken(P, ch, df), Sent(Q, ch, df),
           \A d \in OnTheWay(ch, df) : d[1].op # "client_call" =>
              SameCall(CallOf(calls, d[1], d[2]), CallOf(calls', d[1], d[2])),
           \A e \in P : e[1].op # "reply_call", \A e \in Q : e[1].op # "reply_call",
           cl' = cl, applied' = applied
    PROVE  Abstractly
<1>1. ASSUME NEW c \in Client PROVE Answered(c)' <=> Answered(c)
  <2>1. \A e \in P : ~ Answers(calls, e, c)
    BY DEF Answers
  <2>2. \A e \in Q : ~ Answers(calls', e, c)
    BY DEF Answers
  <2> QED BY <2>1, <2>2, AnsweredStep
<1>2. \A d \in Client :
        DoingOf(d)' = DoingOf(d) /\ SeenBy(d)' = SeenBy(d) /\ \A k : Holds(d, k)' <=> Holds(d, k)
  BY <1>1, SeesNothing
<1> QED BY <1>2, Unseen

\* The function of a client's call runs once: it is the client's operation that
\* takes effect, or a migration that the client does not see.
LEMMA RunSeen ==
    ASSUME TypeOK, TypeOK', CallInv, CallInv', CallersCall,
           NEW c \in Client, cl[c].pc \in {"sent", "wait"}, ~ Answered(c),
           cl'[c].op = cl[c].op, \/ cl'[c].pc = "replied"
                                 \/ cl'[c].pc = "wait" /\ Answered(c)',
           NEW k \in Key, Perform(FuncOf(c), k), \A d \in Client : ~ Holds(d, k),
           \A d \in Client : d # c => cl'[d] = cl[d] /\ (Answered(d)' <=> Answered(d))
    PROVE  Abstractly
<1>1. \A d \in Client : d # c =>
        DoingOf(d)' = DoingOf(d) /\ SeenBy(d)' = SeenBy(d) /\ \A j : Holds(d, j)' <=> Holds(d, j)
  BY SeesNothing
<1>2. SeenBy(c)' = SeenBy(c) /\ \A j : Holds(c, j)' <=> Holds(c, j)
  BY DEF SeenBy, Holds, WithHandle
<1>3. cl[c].op \in {"get", "incr", "migrate"}
  <2>1. cl[c].op \in Op
    BY DEF TypeOK, ClientState
  <2> QED BY <2>1 DEF CallersCall, Op, StartOp
<1>4. CASE cl[c].op = "migrate"
  <2>1. DoingOf(c) = "fetch" /\ DoingOf(c)' = "fetch"
    BY <1>4 DEF DoingOf
  <2>2. applied' = applied
    BY <1>4 DEF FuncOf, Perform
  <2> QED BY <1>1, <1>2, <2>1, <2>2, Unseen
<1>5. CASE cl[c].op \in {"get", "incr"}
  <2>1. DoingOf(c) = cl[c].op
    BY <1>5 DEF DoingOf
  <2>2. DoingOf(c)' = "done"
    BY <1>5 DEF DoingOf
  <2>3. FuncOf(c) = IF DoingOf(c) = "incr" THEN "incr" ELSE "null"
    BY <2>1 DEF FuncOf
  <2> QED BY <1>1, <1>2, <1>5, <2>1, <2>2, <2>3, SeenEffect
<1> QED BY <1>3, <1>4, <1>5

\* A call that a packet other than a reply is about has no reply yet.
LEMMA NoOtherAnswer ==
    ASSUME TypeOK, CallInv, NEW n \in Node, NEW p \in Packet, NEW ch, NEW df,
           Taken({<<p, n>>}, ch, df), p.op # "reply_call",
           NEW a \in Node, a = CallerOf(p, n), NEW c \in Client, calls[a][p.reqid].client = c
    PROVE  ~ Answered(c)
<1> SUFFICES ASSUME Answered(c) PROVE FALSE
  OBVIOUS
<1>1. LET b == CallerOf(p, n) IN
      /\ p.reqid \in ReqId /\ calls[b][p.reqid] # None /\ Serves(cl, calls[b][p.reqid], b)
      /\ \A x, y : <<p, n>> \in About(x, y) <=> x = b /\ y = p.reqid
  BY PacketAtHand
<1>2. /\ p.reqid \in ReqId /\ calls[a][p.reqid] # None /\ NodeOf[c] = a
      /\ <<p, n>> \in About(a, p.reqid)
  BY <1>1 DEF Serves
<1>3. PICK e \in OnTheWay(chan, deferred) : Answers(calls, e, c)
  BY AnsweredIs DEF CallInv
<1>4. e \in Delivery
  BY WayTyped DEF TypeOK, Queues, Parkings
<1>5. /\ e[1].op = "reply_call" /\ CallerOf(e[1], e[2]) = a /\ e[1].reqid \in ReqId
      /\ calls[a][e[1].reqid] # None /\ calls[a][e[1].reqid].client = c
      /\ e \in About(a, e[1].reqid)
  <2>1. e[1].op = "reply_call" /\ e[2] = a
    BY <1>2, <1>3 DEF Answers
  <2>2. CallerOf(e[1], e[2]) = a
    BY <2>1 DEF CallerOf
  <2>3. e[1].reqid \in ReqId /\ e \in About(a, e[1].reqid)
    BY <1>4, <2>1, <2>2, AboutOne
  <2> QED BY <1>3, <2>1, <2>2, <2>3 DEF Answers, CallOf
<1>6. e[1].reqid = p.reqid
  BY <1>2, <1>5 DEF CallInv, WaitersServed, OneCallEach
<1>7. e \in OnTheWay(ch, df)
  BY <1>3, <1>5 DEF Taken
<1>8. Present(About(a, p.reqid), ch, df)
  BY <1>5, <1>6, <1>7 DEF Present
<1>9. ~ Present(About(a, p.reqid), ch, df)
  BY <1>2 DEF Taken, Hits, CallInv, CallsCarried
<1> QED BY <1>8, <1>9

\* ctdb_request_call: only a function that runs is seen.
LEMMA RequestCallSeen ==
    ASSUME TypeOK, TypeOK', CallInv, CallInv', CallersCall, NEW n \in Node, NEW p \in Packet,
           NEW ch \in Queues, NEW df, Taken({<<p, n>>}, ch, df), ctdb_request_call(n, p, ch, df)
    PROVE  Abstractly
<1>a. /\ p.op = "req_call" /\ deferred' = df /\ calls' = calls /\ cl' = cl /\ lock[n][p.key] = None
      /\ p \in ReqCall
  BY PacketTypes DEF ctdb_request_call, TryLock
<1>0. PICK a \in Node, r \in ReqId, k \in Key, s \in CallState :
        /\ a = p.src /\ r = p.reqid /\ k = p.key /\ s = calls[a][r] /\ s # None
        /\ a = CallerOf(p, n) /\ Serves(cl, s, a) /\ p.key = s.key /\ p.func = s.func /\ p.imm = s.imm
  <2>1. CallerOf(p, n) = p.src
    BY <1>a DEF CallerOf
  <2>2. LET a == CallerOf(p, n) IN
        /\ a \in Node /\ p.reqid \in ReqId /\ Agrees(lt, applied, calls, p, n)
        /\ calls[a][p.reqid] # None /\ calls[a][p.reqid] \in CallState /\ Serves(cl, calls[a][p.reqid], a)
        /\ CallOf(calls, p, n) = calls[a][p.reqid]
    BY PacketAtHand
  <2>3. p.key \in Key
    BY <1>a DEF ReqCall
  <2>4. p.key = CallOf(calls, p, n).key /\ p.func = CallOf(calls, p, n).func /\ p.imm = CallOf(calls, p, n).imm
    BY <1>a, <2>2 DEF Agrees
  <2> QED BY <2>1, <2>2, <2>3, <2>4
<1>b. lt[n][k] \in Record /\ lt[n][k].dmaster \in Node /\ lt[n][k].data \in Nat /\ Lmaster[k] \in Node
  <2>1. lt[n][k] \in Record
    BY DEF TypeOK
  <2>2. lt[n][k].dmaster \in Node /\ lt[n][k].data \in Nat
    BY <2>1 DEF Record
  <2>3. Lmaster[k] \in Node
    BY ClusterAssumption
  <2> QED BY <2>1, <2>2, <2>3
<1>c. \A d \in OnTheWay(ch, df) : d[1].op # "client_call" =>
              SameCall(CallOf(calls, d[1], d[2]), CallOf(calls', d[1], d[2]))
  BY <1>a DEF SameCall
<1>1. CASE ctdb_call_send_redirect(n, p, ch)
  <2> DEFINE q == [op |-> "reply_redirect", reqid |-> p.reqid, dmaster |-> lt[n][p.key].dmaster]
  <2>1. q \in Packet
    BY <1>0, <1>b DEF Packet, ReplyRedirect
  <2>2. chan' = ctdb_queue_packet(ch, n, a, q) /\ applied' = applied
    BY <1>0, <1>1 DEF ctdb_call_send_redirect
  <2>3. q.op # "reply_call"
    OBVIOUS
  <2> HIDE DEF q
  <2>4. Sent({<<q, a>>}, ch, df)
    BY <1>a, <2>1, <2>2, SendsOne
  <2> QED BY <1>a, <1>c, <2>2, <2>3, <2>4, QuietSeen
<1>2. CASE ctdb_call_send_dmaster(n, p, ch)
  <2> DEFINE q == [op |-> "req_dmaster", src |-> n, reqid |-> p.reqid, key |-> p.key,
                   dmaster |-> p.src, data |-> lt[n][p.key].data]
  <2>1. q \in Packet
    BY <1>0, <1>b DEF Packet, ReqDmaster
  <2>2. chan' = ctdb_queue_packet(ch, n, Lmaster[k], q) /\ applied' = applied
    BY <1>0, <1>2 DEF ctdb_call_send_dmaster
  <2>3. q.op # "reply_call"
    OBVIOUS
  <2> HIDE DEF q
  <2>4. Sent({<<q, Lmaster[k]>>}, ch, df)
    BY <1>a, <1>b, <2>1, <2>2, SendsOne
  <2> QED BY <1>a, <1>c, <2>2, <2>3, <2>4, QuietSeen
<1>3. CASE CallHere(n, p, ch)
  <2> DEFINE q == [op |-> "reply_call", reqid |-> p.reqid]
  <2>1. q \in Packet
    BY <1>0 DEF Packet, ReplyCall
  <2>2. /\ chan' = ctdb_queue_packet(ch, n, a, q) /\ lt[n][k].dmaster = n
        /\ Perform(s.func, k)
    BY <1>0, <1>3 DEF CallHere
  <2>3. q.op = "reply_call" /\ q.reqid = r /\ CallerOf(q, a) = a
    BY <1>0 DEF CallerOf
  <2> HIDE DEF q
  <2>4. Sent({<<q, a>>}, ch, df)
    BY <1>a, <2>1, <2>2, SendsOne
  <2>5. PICK c \in Client : s.client = c
    BY DEF CallState
  <2>6. /\ NodeOf[c] = a /\ cl[c].pc = "wait" /\ s.func = FuncOf(c)
    BY <1>0, <2>5 DEF Serves, FuncOf
  <2>7. ~ Answered(c)
    BY <1>0, <1>a, <2>5, NoOtherAnswer
  <2>8. CallOf(calls', q, a) = s
    BY <1>0, <1>a, <2>3 DEF CallOf
  <2>9. ASSUME NEW d \in Client PROVE Answered(d)' <=> Answered(d) \/ d = c
    <3>1. \A e \in {<<p, n>>} : ~ Answers(calls, e, d)
      BY <1>a DEF Answers
    <3>2. (\E e \in {<<q, a>>} : Answers(calls', e, d)) <=> d = c
      BY <1>0, <2>3, <2>5, <2>6, <2>8 DEF Answers
    <3> QED BY <1>c, <2>4, <3>1, <3>2, AnsweredStep
  <2>10. \A d \in Client : ~ Holds(d, k)
    <3>1. RolesCarried
      BY DEF CallInv
    <3>2. \A m \in Node : lt[m][k].dmaster = m => m = n
      BY <2>2, <3>1, DmasterHome
    <3>3. \A m \in Node : lt[m][k].dmaster = m =>
              \A d \in Client : lock[m][k] = d => cl[d].pc \notin WithHandle
      BY <1>0, <1>a, <3>2, ClusterAssumption
    <3> QED BY <3>3, NobodyHolds
  <2> QED BY <1>a, <2>2, <2>6, <2>7, <2>9, <2>10, RunSeen
<1> QED BY <1>1, <1>2, <1>3 DEF ctdb_request_call

\* ctdb_request_dmaster and ctdb_reply_redirect are invisible.
LEMMA RequestDmasterSeen ==
    ASSUME TypeOK, TypeOK', CallInv, CallInv', NEW n \in Node, NEW p \in Packet,
           NEW ch \in Queues, NEW df, Taken({<<p, n>>}, ch, df), ctdb_request_dmaster(n, p, ch, df)
    PROVE  Abstractly
<1> DEFINE q == [op |-> "reply_dmaster", reqid |-> p.reqid, data |-> p.data]
<1>1. /\ p.op = "req_dmaster" /\ p \in ReqDmaster /\ deferred' = df /\ calls' = calls /\ cl' = cl
      /\ applied' = applied /\ chan' = ctdb_queue_packet(ch, n, p.dmaster, q)
  BY PacketTypes DEF ctdb_request_dmaster
<1>2. q \in Packet /\ p.dmaster \in Node /\ q.op # "reply_call"
  BY <1>1 DEF Packet, ReqDmaster, ReplyDmaster
<1> HIDE DEF q
<1>3. Sent({<<q, p.dmaster>>}, ch, df)
  BY <1>1, <1>2, SendsOne
<1>4. \A d \in OnTheWay(ch, df) : d[1].op # "client_call" =>
              SameCall(CallOf(calls, d[1], d[2]), CallOf(calls', d[1], d[2]))
  BY <1>1 DEF SameCall
<1> QED BY <1>1, <1>2, <1>3, <1>4, QuietSeen

\* A redirect goes on to the next node, unseen.
LEMMA ReplyRedirectSeen ==
    ASSUME TypeOK, TypeOK', CallInv, CallInv', NEW n \in Node, NEW p \in Packet,
           NEW ch \in Queues, NEW df, Taken({<<p, n>>}, ch, df), ctdb_reply_redirect(n, p, ch, df)
    PROVE  Abstractly
<1>a. /\ p.op = "reply_redirect" /\ CallerOf(p, n) = n /\ calls[n][p.reqid] # None
      /\ deferred' = df /\ applied' = applied /\ cl' = cl
  BY DEF ctdb_reply_redirect, CallerOf
<1>b. p.reqid \in ReqId /\ Hits({<<p, n>>}, About(n, p.reqid))
  BY <1>a, ReplyAtHand
<1>0. PICK r \in ReqId, s \in CallState : r = p.reqid /\ s = calls[n][r]
  BY <1>a, <1>b, CallEntryType
<1> DEFINE q == [op |-> "req_call", src |-> n, reqid |-> r, key |-> s.key,
                 func |-> s.func, imm |-> s.imm]
<1>1. PICK m \in Node : chan' = ctdb_queue_packet(ch, n, m, q)
  <2>1. (IF s.redirects = MaxRedirect THEN Lmaster[s.key] ELSE p.dmaster) \in Node
    <3>1. p.dmaster \in Node
      BY <1>a, PacketTypes DEF ReplyRedirect
    <3>2. Lmaster[s.key] \in Node
      BY ClusterAssumption DEF CallState
    <3> QED BY <3>1, <3>2
  <2>2. chan' = ctdb_queue_packet(ch, n, IF s.redirects = MaxRedirect THEN Lmaster[s.key] ELSE p.dmaster, q)
    BY <1>0 DEF ctdb_reply_redirect
  <2> QED BY <2>1, <2>2
<1>2. q \in Packet /\ q.op # "reply_call"
  BY DEF Packet, ReqCall, CallState
<1> HIDE DEF q
<1>3. Sent({<<q, m>>}, ch, df)
  BY <1>1, <1>2, <1>a, SendsOne
<1>4. \A x \in Node, y \in ReqId : x # n \/ y # r => calls'[x][y] = calls[x][y]
  <2>1. \E t : calls' = [calls EXCEPT ![n][r].redirects = t]
    BY <1>0 DEF ctdb_reply_redirect
  <2> QED BY <2>1 DEF TypeOK
<1>5. \A d \in OnTheWay(ch, df) : d[1].op # "client_call" =>
              SameCall(CallOf(calls, d[1], d[2]), CallOf(calls', d[1], d[2]))
  BY <1>0, <1>4, <1>b, OthersKeep DEF CallInv
<1> QED BY <1>2, <1>3, <1>5, <1>a, QuietSeen

\* ctdb_reply_dmaster: the call takes effect on a record that has no dmaster and
\* so no holder.
LEMMA ReplyDmasterSeen ==
    ASSUME TypeOK, TypeOK', CallInv, CallInv', CallersCall, NEW n \in Node, NEW p \in Packet,
           NEW ch \in Queues, NEW df, Taken({<<p, n>>}, ch, df), ctdb_reply_dmaster(n, p, ch, df)
    PROVE  Abstractly
<1>a. /\ p.op = "reply_dmaster" /\ Token(p) /\ CallerOf(p, n) = n /\ calls[n][p.reqid] # None
      /\ chan' = ch /\ deferred' = df
  BY DEF ctdb_reply_dmaster, CallerOf, Token
<1>b. p.reqid \in ReqId /\ Hits({<<p, n>>}, About(n, p.reqid))
  BY <1>a, ReplyAtHand
<1>0. PICK r \in ReqId, s \in CallState : r = p.reqid /\ s = calls[n][r]
  BY <1>a, <1>b, CallEntryType
<1>c. PICK k \in Key, c \in Client : s.key = k /\ s.client = c
  BY DEF CallState
<1>d. Serves(cl, s, n)
  BY <1>0, <1>a DEF CallInv, WaitersServed, CallsServe
<1>1. /\ NodeOf[c] = n /\ cl[c].pc = "wait" /\ s.func = FuncOf(c)
  BY <1>c, <1>d DEF Serves, FuncOf
<1>2. /\ Perform(FuncOf(c), k) /\ calls' = [calls EXCEPT ![n][r] = None]
      /\ cl' = [cl EXCEPT ![c].pc = "replied"]
  BY <1>0, <1>1, <1>c DEF ctdb_reply_dmaster, CompleteCall
<1>3. /\ cl'[c].pc = "replied" /\ cl'[c].op = cl[c].op
      /\ \A d \in Client : d # c => cl'[d] = cl[d]
  BY <1>2 DEF TypeOK, ClientState
<1>4. \A x \in Node, y \in ReqId : x # n \/ y # r => calls'[x][y] = calls[x][y]
  BY <1>2 DEF TypeOK
<1>5. \A d \in OnTheWay(ch, df) : d[1].op # "client_call" =>
              SameCall(CallOf(calls, d[1], d[2]), CallOf(calls', d[1], d[2]))
  BY <1>0, <1>4, <1>b, OthersKeep DEF CallInv
<1>6. Sent({}, ch, df)
  BY <1>a, SendsNothing
<1>7. ~ Answered(c)
  BY <1>0, <1>a, <1>c, NoOtherAnswer
<1>8. ASSUME NEW d \in Client PROVE Answered(d)' <=> Answered(d)
  <2>1. \A e \in {<<p, n>>} : ~ Answers(calls, e, d)
    BY <1>a DEF Answers
  <2> QED BY <1>5, <1>6, <2>1, AnsweredStep
<1>9. \A d \in Client : ~ Holds(d, k)
  <2>1. CallOf(calls, p, n).key = k
    BY <1>0, <1>a, <1>c DEF CallOf
  <2>2. \A m \in Node : lt[m][k].dmaster # m
    BY <1>a, <2>1, RoleAtHand
  <2> QED BY <2>2, NobodyHolds
<1> QED BY <1>1, <1>2, <1>3, <1>7, <1>8, <1>9, RunSeen

\* ctdb_reply_call: the call has taken effect before, nothing is seen.
LEMMA ReplyCallSeen ==
    ASSUME TypeOK, TypeOK', CallInv, CallInv', CallersCall, NEW n \in Node, NEW p \in Packet,
           NEW ch \in Queues, NEW df, Taken({<<p, n>>}, ch, df), ctdb_reply_call(n, p, ch, df)
    PROVE  Abstractly
<1>a. /\ p.op = "reply_call" /\ CallerOf(p, n) = n /\ calls[n][p.reqid] # None
      /\ chan' = ch /\ deferred' = df /\ applied' = applied
  BY DEF ctdb_reply_call, CallerOf
<1>b. p.reqid \in ReqId /\ Hits({<<p, n>>}, About(n, p.reqid))
  BY <1>a, ReplyAtHand
<1>0. PICK r \in ReqId, s \in CallState : r = p.reqid /\ s = calls[n][r]
  BY <1>a, <1>b, CallEntryType
<1>c. PICK c \in Client : s.client = c
  BY DEF CallState
<1>d. Serves(cl, s, n)
  BY <1>0, <1>a DEF CallInv, WaitersServed, CallsServe
<1>1. NodeOf[c] = n /\ cl[c].pc = "wait"
  BY <1>c, <1>d DEF Serves
<1>2. calls' = [calls EXCEPT ![n][r] = None] /\ cl' = [cl EXCEPT ![c].pc = "replied"]
  BY <1>0, <1>c DEF ctdb_reply_call, CompleteCall
<1>3. /\ cl'[c].pc = "replied" /\ cl'[c].op = cl[c].op
      /\ \A d \in Client : d # c => cl'[d] = cl[d]
  BY <1>2 DEF TypeOK, ClientState
<1>4. \A x \in Node, y \in ReqId : x # n \/ y # r => calls'[x][y] = calls[x][y]
  BY <1>2 DEF TypeOK
<1>5. \A d \in OnTheWay(ch, df) : d[1].op # "client_call" =>
              SameCall(CallOf(calls, d[1], d[2]), CallOf(calls', d[1], d[2]))
  BY <1>0, <1>4, <1>b, OthersKeep DEF CallInv
<1>6. Sent({}, ch, df)
  BY <1>a, SendsNothing
<1>7. CallOf(calls, p, n) = s /\ s # None
  BY <1>0, <1>a DEF CallOf
<1>8. Answered(c)
  <2>1. Answers(calls, <<p, n>>, c)
    BY <1>1, <1>7, <1>a, <1>c DEF Answers
  <2>2. <<p, n>> \in OnTheWay(chan, deferred)
    BY DEF Taken
  <2> QED BY <2>1, <2>2, AnsweredIs DEF CallInv
<1>9. ASSUME NEW d \in Client, d # c PROVE Answered(d)' <=> Answered(d)
  <2>1. \A e \in {<<p, n>>} : ~ Answers(calls, e, d)
    BY <1>7, <1>9, <1>c DEF Answers
  <2> QED BY <1>5, <1>6, <2>1, AnsweredStep
<1>10. \A d \in Client : d # c =>
        DoingOf(d)' = DoingOf(d) /\ SeenBy(d)' = SeenBy(d) /\ \A j : Holds(d, j)' <=> Holds(d, j)
  BY <1>3, <1>9, SeesNothing
<1>11. DoingOf(c)' = DoingOf(c)
  BY <1>1, <1>3, <1>8 DEF DoingOf
<1>12. SeenBy(c)' = SeenBy(c) /\ \A j : Holds(c, j)' <=> Holds(c, j)
  BY <1>1, <1>3 DEF SeenBy, Holds, WithHandle
<1> QED BY <1>10, <1>11, <1>12, <1>a, Unseen

\* Every packet handler is a step of the record store.
LEMMA RecvPktSeen ==
    ASSUME OffLmaster, TypeOK, TypeOK', CallInv, CallInv', CallersCall, NEW n \in Node, NEW p \in Packet,
           NEW ch \in Queues, NEW df, Taken({<<p, n>>}, ch, df), ctdb_recv_pkt(n, p, ch, df)
    PROVE  Abstractly
<1>1. CASE ctdb_request_call(n, p, ch, df)
  BY <1>1, RequestCallSeen
<1>2. CASE ctdb_request_dmaster(n, p, ch, df)
  BY <1>2, RequestDmasterSeen
<1>3. CASE DmasterRequestFatal(n, p, ch, df)
  BY <1>3, NoProtocolError DEF DmasterRequestFatal
<1>4. CASE ctdb_reply_dmaster(n, p, ch, df)
  BY <1>4, ReplyDmasterSeen
<1>5. CASE ctdb_reply_call(n, p, ch, df)
  BY <1>5, ReplyCallSeen
<1>6. CASE ctdb_reply_redirect(n, p, ch, df)
  BY <1>6, ReplyRedirectSeen
<1>7. CASE UnknownReply(n, p, ch, df)
  BY <1>7, NoUnknownReply DEF UnknownReply
<1> QED BY <1>1, <1>2, <1>3, <1>4, <1>5, <1>6, <1>7 DEF ctdb_recv_pkt

\* A daemon reads a packet or takes a parked one up again.
LEMMA RecvPacketSeen ==
    ASSUME OffLmaster, TypeOK, TypeOK', CallInv, CallInv', CallersCall, NEW n \in Node, NEW m \in Node,
           RecvPacket(m, n)
    PROVE  Abstractly
<1> DEFINE ch == [chan EXCEPT ![m][n] = Tail(@)]
           p == Head(chan[m][n])
<1>1. chan \in Queues /\ chan[m][n] # <<>>
  BY DEF TypeOK, Queues, RecvPacket
<1>2. p \in Packet /\ ch \in Queues
  BY <1>1, QueueTypes DEF Queues
<1>3. Taken({<<p, n>>}, ch, deferred)
  BY <1>1, TakesRead
<1>4. ctdb_recv_pkt(n, p, ch, deferred)
  BY DEF RecvPacket
<1> HIDE DEF p, ch
<1> QED BY <1>2, <1>3, <1>4, RecvPktSeen

\* The same for a packet that was parked.
LEMMA RetryPacketSeen ==
    ASSUME OffLmaster, TypeOK, TypeOK', CallInv, CallInv', CallersCall, NEW n \in Node,
           NEW i \in DOMAIN deferred[n], RetryPacket(n, i)
    PROVE  Abstractly
<1> DEFINE df == [deferred EXCEPT ![n] = RemoveAt(@, i)]
           p == deferred[n][i].pkt
<1>1. chan \in Queues /\ p \in Packet
  BY ParkedTypes DEF TypeOK, Queues, RetryPacket
<1>2. Taken({<<p, n>>}, chan, df)
  BY TakesUnparked
<1>3. ctdb_recv_pkt(n, p, chan, df)
  BY DEF RetryPacket
<1> HIDE DEF p, df
<1> QED BY <1>1, <1>2, <1>3, RecvPktSeen

\* A daemon parks a packet, unseen.
LEMMA DeferPacketSeen ==
    ASSUME TypeOK, TypeOK', CallInv, CallInv', NEW n \in Node, NEW m \in Node, DeferPacket(m, n)
    PROVE  Abstractly
<1> DEFINE ch == [chan EXCEPT ![m][n] = Tail(@)]
           p == Head(chan[m][n])
           e == [key |-> KeyOf(n, p), pkt |-> p]
           P == {<<p, n>>}
<1>1. chan \in Queues /\ chan[m][n] # <<>> /\ deferred \in Parkings
  BY DEF TypeOK, Queues, Parkings, DeferPacket
<1>2. p \in Packet
  BY <1>1, QueueTypes DEF Queues
<1>3. Taken(P, ch, deferred)
  BY <1>1, TakesRead
<1>4. NeedsLock(n, p) /\ p.op # "reply_call"
  BY DEF DeferPacket, NeedsLock
<1>5. /\ chan' = ch /\ deferred' = [deferred EXCEPT ![n] = Append(@, e)]
      /\ calls' = calls /\ cl' = cl /\ applied' = applied
  BY DEF DeferPacket
<1>6. KeyOf(n, p) \in Key
  <2> HIDE DEF p
  <2>1. CASE p.op \in {"req_call", "req_dmaster"}
    BY <1>2, <2>1, PacketTypes DEF KeyOf, ReqCall, ReqDmaster
  <2>2. CASE p.op = "reply_dmaster"
    <3>1. p.reqid \in ReqId /\ calls[n][p.reqid] # None
      BY <1>2, <1>4, <2>2, PacketTypes DEF NeedsLock, ReplyDmaster
    <3> QED BY <2>2, <3>1, CallEntryType DEF KeyOf, CallState
  <2> QED BY <1>4, <2>1, <2>2 DEF NeedsLock
<1>7. e \in Parked /\ e.pkt = p
  BY <1>2, <1>6 DEF Parked
<1> HIDE DEF e, p
<1>8. Sent(P, ch, deferred)
  BY <1>1, <1>5, <1>7, ParksOne
<1>9. \A d \in P : d[1].op # "reply_call"
  BY <1>4
<1>10. \A d \in OnTheWay(ch, deferred) : d[1].op # "client_call" =>
              SameCall(CallOf(calls, d[1], d[2]), CallOf(calls', d[1], d[2]))
  BY <1>5 DEF SameCall
<1> HIDE DEF P, ch
<1> QED BY <1>3, <1>5, <1>8, <1>9, <1>10, QuietSeen

\* A client's request that is taken or parked and not answered is not seen.
LEMMA WaitSeen ==
    ASSUME TypeOK, TypeOK', CallInv, CallInv', CallersCall, NEW c \in Client,
           cl[c].pc \in {"sent", "wait"}, cl' = [cl EXCEPT ![c].pc = "wait"], applied' = applied,
           \A d \in Client : Answered(d)' <=> Answered(d)
    PROVE  Abstractly
<1>1. /\ cl'[c].pc = "wait" /\ cl'[c].op = cl[c].op
      /\ \A d \in Client : d # c => cl'[d] = cl[d]
  BY DEF TypeOK, ClientState
<1>2. \A d \in Client : d # c =>
        DoingOf(d)' = DoingOf(d) /\ SeenBy(d)' = SeenBy(d) /\ \A j : Holds(d, j)' <=> Holds(d, j)
  BY <1>1, SeesNothing
<1>3. DoingOf(c)' = DoingOf(c)
  BY <1>1 DEF DoingOf
<1>4. SeenBy(c)' = SeenBy(c) /\ \A j : Holds(c, j)' <=> Holds(c, j)
  BY <1>1 DEF SeenBy, Holds, WithHandle
<1> QED BY <1>2, <1>3, <1>4, Unseen

\* The daemon takes a call from client c: P is its parked request, if any.
LEMMA DaemonRequestSeen ==
    ASSUME TypeOK, TypeOK', CallInv, CallInv', CallersCall, NEW P, NEW df, Taken(P, chan, df),
           NEW c \in Client, daemon_request_call_from_client(NodeOf[c], c, df),
           cl[c].pc \in {"sent", "wait"}, ~ HasCall(c), \A d \in P : d[1].op = "client_call"
    PROVE  Abstractly
<1>0. PICK n \in Node, k \in Key : n = NodeOf[c] /\ k = cl[c].key
  BY ClientMoves, ClusterAssumption
<1>a. ~ Answered(c)
  BY NotAnswered
<1>1. CASE DaemonCallLocal(n, c, df)
  <2>1. /\ cl' = [cl EXCEPT ![c].pc = "replied"] /\ lt[n][k].dmaster = n
        /\ Perform(FuncOf(c), k) /\ chan' = chan /\ calls' = calls /\ lock[n][k] = None
    BY <1>0, <1>1 DEF DaemonCallLocal, daemon_request_call_from_client, TryLock
  <2>2. \A d \in Client : Answered(d)' <=> Answered(d)
    BY <2>1 DEF Answered
  <2>3. /\ cl'[c].pc = "replied" /\ cl'[c].op = cl[c].op
        /\ \A d \in Client : d # c => cl'[d] = cl[d]
    BY <2>1 DEF TypeOK, ClientState
  <2>4. \A d \in Client : ~ Holds(d, k)
    <3>1. RolesCarried
      BY DEF CallInv
    <3>2. \A m \in Node : lt[m][k].dmaster = m => m = n
      BY <2>1, <3>1, DmasterHome
    <3>3. \A m \in Node : lt[m][k].dmaster = m =>
              \A d \in Client : lock[m][k] = d => cl[d].pc \notin WithHandle
      BY <2>1, <3>2, ClusterAssumption
    <3> QED BY <3>3, NobodyHolds
  <2> QED BY <1>a, <2>1, <2>2, <2>3, <2>4, RunSeen
<1>2. CASE ctdb_daemon_call_send_remote(n, c, df)
  <2>0. lt[n][k].dmaster \in Node /\ FuncOf(c) \in Func /\ Immediate(c) \in BOOLEAN
    <3>1. lt[n][k] \in Record
      BY DEF TypeOK
    <3>2. lt[n][k].dmaster \in Node
      BY <3>1 DEF Record
    <3>3. FuncOf(c) \in Func
      BY DEF FuncOf, Func
    <3>4. Immediate(c) \in BOOLEAN
      BY Zenon DEF Immediate
    <3> QED BY <3>2, <3>3, <3>4
  <2>1. PICK r \in ReqId :
          /\ calls[n][r] = None /\ \E s : calls' = [calls EXCEPT ![n][r] = s]
          /\ chan' = ctdb_queue_packet(chan, n, lt[n][k].dmaster,
                [op |-> "req_call", src |-> n, reqid |-> r, key |-> k,
                 func |-> FuncOf(c), imm |-> Immediate(c)])
    BY <1>0, <1>2 DEF ctdb_daemon_call_send_remote
  <2> DEFINE q == [op |-> "req_call", src |-> n, reqid |-> r, key |-> k,
                   func |-> FuncOf(c), imm |-> Immediate(c)]
             m == lt[n][k].dmaster
  <2>2. cl' = [cl EXCEPT ![c].pc = "wait"] /\ deferred' = df /\ applied' = applied
    BY <1>2 DEF ctdb_daemon_call_send_remote
  <2>3. q \in Packet /\ q.op # "reply_call" /\ m \in Node
    BY <2>0 DEF Packet, ReqCall
  <2>4. chan' = ctdb_queue_packet(chan, n, m, q)
    BY <2>1
  <2> HIDE DEF q, m
  <2>5. Sent({<<q, m>>}, chan, df)
    BY <2>2, <2>3, <2>4, SendsOne DEF TypeOK, Queues
  <2>6. \A x \in Node, y \in ReqId : x # n \/ y # r => calls'[x][y] = calls[x][y]
    BY <2>1 DEF TypeOK
  <2>7. \A d \in OnTheWay(chan, df) : d[1].op # "client_call" =>
              SameCall(CallOf(calls, d[1], d[2]), CallOf(calls', d[1], d[2]))
    <3>1. calls[n][r] = None
      BY <2>1
    <3>2. CallsCarried
      BY DEF CallInv
    <3> QED BY <2>6, <3>1, <3>2, OthersKeep
  <2>8. ASSUME NEW d \in Client PROVE Answered(d)' <=> Answered(d)
    <3>1. \A e \in P : ~ Answers(calls, e, d)
      BY DEF Answers
    <3>2. \A e \in {<<q, m>>} : ~ Answers(calls', e, d)
      BY <2>3 DEF Answers
    <3> QED BY <2>5, <2>7, <3>1, <3>2, AnsweredStep
  <2> QED BY <2>2, <2>8, WaitSeen
<1> QED BY <1>0, <1>1, <1>2 DEF daemon_request_call_from_client

\* The daemon reads a client's request.
LEMMA TakeCallSeen ==
    ASSUME TypeOK, TypeOK', CallInv, CallInv', CallersCall, NEW c \in Client, TakeCall(c)
    PROVE  Abstractly
<1>1. Taken({}, chan, deferred) /\ \A d \in {} : d[1].op = "client_call"
  BY TakesNothing
<1>2. ~ HasCall(c)
  BY NotWaiting, ClusterAssumption DEF HasCall, CallInv, TakeCall
<1> QED BY <1>1, <1>2, DaemonRequestSeen DEF TakeCall

\* The daemon takes a parked request up again.
LEMMA RetryCallSeen ==
    ASSUME TypeOK, TypeOK', CallInv, CallInv', CallersCall, NEW n \in Node, NEW i \in DOMAIN deferred[n],
           RetryCall(n, i)
    PROVE  Abstractly
<1> DEFINE df == [deferred EXCEPT ![n] = RemoveAt(@, i)]
           d0 == <<deferred[n][i].pkt, n>>
<1>1. PICK c \in Client : deferred[n][i].pkt.client = c
  BY ParkedTypes DEF RetryCall
<1>2. /\ deferred[n][i].pkt.op = "client_call" /\ NodeOf[c] = n
      /\ daemon_request_call_from_client(n, c, df)
  BY <1>1 DEF RetryCall, CallInv, ParkedRight
<1>3. Taken({d0}, chan, df)
  BY TakesUnparked
<1>4. d0 \in OnTheWay(chan, deferred) /\ d0 \in Delivery
  BY ArePlaces, ParkedTypes DEF Delivery, Parked
<1>5. Present(Asking(c), chan, deferred)
  BY <1>1, <1>2, <1>4 DEF Present, Asking
<1>6. cl[c].pc = "wait" /\ ~ HasCall(c)
  BY <1>5 DEF CallInv, WaitersServed, ClientServed
<1>7. \A d \in {d0} : d[1].op = "client_call"
  BY <1>2
<1> HIDE DEF df, d0
<1> QED BY <1>2, <1>3, <1>6, <1>7, DaemonRequestSeen

\* The daemon parks a client's request.
LEMMA DeferCallSeen ==
    ASSUME TypeOK, TypeOK', CallInv, CallInv', CallersCall, NEW c \in Client, DeferCall(c)
    PROVE  Abstractly
<1>1. /\ cl[c].pc = "sent" /\ cl' = [cl EXCEPT ![c].pc = "wait"]
      /\ chan' = chan /\ calls' = calls /\ applied' = applied
  BY DEF DeferCall
<1>2. \A d \in Client : Answered(d)' <=> Answered(d)
  BY <1>1 DEF Answered
<1> QED BY <1>1, <1>2, WaitSeen
-----------------------------------------------------------------------------
(* The refinement *)

\* The initial state of the cluster is the initial state of the record store.
LEMMA InitSeen == ASSUME TypeOK, CallInv, Init PROVE AbstractRecord!RInit /\ CallersCall
<1>1. \A c \in Client : cl[c].pc = "idle"
  BY DEF Init, Resting
<1>2. \A k \in Key : ValueOf(k) = 0
  BY ValueIs DEF Init
<1>3. \A c \in Client, k \in Key : ~ Holds(c, k)
  BY <1>1 DEF Holds, WithHandle
<1>4. \A k \in Key : HolderOf(k) = None
  BY <1>3, HolderIs
<1>5. \A c \in Client : DoingOf(c) = "nothing" /\ SeenBy(c) = None
  BY <1>1 DEF DoingOf, SeenBy
<1>6. AbstractRecord!RInit
  BY <1>2, <1>4, <1>5 DEF AbstractRecord!RInit
<1> QED BY <1>1, <1>6 DEF CallersCall

\* Every step of the cluster is a step of the record store, or none.
LEMMA NextSeen ==
    ASSUME OffLmaster, NothingFails, TypeOK, TypeOK', CallInv, CallInv', CallersCall, [Next]_vars
    PROVE  Abstractly
<1>1. ASSUME NEW c \in Client, ClientNext(c) \/ TakeCall(c) \/ DeferCall(c) PROVE Abstractly
  BY <1>1, ClientNextSeen, TakeCallSeen, DeferCallSeen
<1>2. ASSUME NEW n \in Node, DaemonNext(n) PROVE Abstractly
  <2>1. ASSUME NEW m \in Node, RecvPacket(m, n) \/ DeferPacket(m, n) PROVE Abstractly
    BY <2>1, RecvPacketSeen, DeferPacketSeen
  <2>2. ASSUME NEW i \in DOMAIN deferred[n], RetryPacket(n, i) \/ RetryCall(n, i) \/ RetryDeadCall(n, i)
        PROVE  Abstractly
    BY <2>2, RetryPacketSeen, RetryCallSeen, NoFailure
  <2>3. ASSUME NEW r \in ReqId, ctdb_call_timeout(n, r) PROVE Abstractly
    BY <2>3, NoFailure
  <2> QED BY <1>2, <2>1, <2>2, <2>3 DEF DaemonNext
<1>3. ASSUME NEW n \in Node, NEW m \in Node, LosePacket(n, m) PROVE Abstractly
  BY <1>3, NoFailure
<1>4. CASE UNCHANGED vars
  <2>1. cl' = cl /\ chan' = chan /\ calls' = calls /\ applied' = applied
    BY <1>4 DEF vars
  <2>2. \A d \in Client : Answered(d)' <=> Answered(d)
    BY <2>1 DEF Answered
  <2>3. \A d \in Client :
        DoingOf(d)' = DoingOf(d) /\ SeenBy(d)' = SeenBy(d) /\ \A k : Holds(d, k)' <=> Holds(d, k)
    BY <2>1, <2>2, SeesNothing
  <2> QED BY <2>1, <2>3, Unseen
<1> QED BY <1>1, <1>2, <1>3, <1>4 DEF Next

\* A cluster in which nothing fails is, for its clients, one store of records:
\* every step of daemons and clients (ctdb_call.c, ctdb_daemon.c, ctdb_client.c)
\* is a step of CtdbRecord or is not seen, for any number of nodes, clients and
\* records.  A call takes effect exactly once, between its invocation and its
\* return, on the latest body, and never while somebody has a handle.
THEOREM OneCopy == OffLmaster /\ NothingFails => (Spec => ImplementsRecord)
<1> SUFFICES ASSUME OffLmaster, NothingFails PROVE Spec => ImplementsRecord
  OBVIOUS
<1>1. Init => TypeOK /\ CallInv /\ CallersCall /\ AbstractRecord!RInit
  BY InitType, InitCalls, InitSeen
<1>2. TypeOK /\ [Next]_vars => TypeOK'
  BY NextType
<1>3. TypeOK /\ CallInv /\ [Next]_vars => CallInv'
  BY NextKeepsCalls
<1>4. TypeOK /\ CallInv /\ CallersCall /\ [Next]_vars => CallersCall'
  BY NextKeepsCallers
<1>5. TypeOK /\ TypeOK' /\ CallInv /\ CallInv' /\ CallersCall /\ [Next]_vars
        => [AbstractRecord!RNext]_AbstractRecord!rvars
  BY NextSeen DEF Abstractly
<1> QED BY <1>1, <1>2, <1>3, <1>4, <1>5, PTL DEF Spec, ImplementsRecord, AbstractRecord!RSpec

\* What the failures run checks for one record holds for any number of records
\* while nothing fails: one dmaster, known to the lmaster, with every update,
\* handles that exclude each other, and no daemon that meets the protocol
\* error of ctdb_request_dmaster.
THEOREM EveryRecordSafe ==
    OffLmaster /\ NothingFails =>
        (Spec => [](OneDmaster /\ LmasterKnows /\ NoLostUpdate /\ HolderIsDmaster /\ NeverFatal))
<1> SUFFICES ASSUME OffLmaster, NothingFails
             PROVE  Spec => [](OneDmaster /\ LmasterKnows /\ NoLostUpdate /\ HolderIsDmaster /\ NeverFatal)
  OBVIOUS
<1>1. Spec => [](TypeOK /\ CallInv)
  <2>1. Init => TypeOK /\ CallInv
    BY InitType, InitCalls
  <2>2. TypeOK /\ [Next]_vars => TypeOK'
    BY NextType
  <2>3. TypeOK /\ CallInv /\ [Next]_vars => CallInv'
    BY NextKeepsCalls
  <2> QED BY <2>1, <2>2, <2>3, PTL DEF Spec
<1>2. TypeOK /\ CallInv => OneDmaster /\ LmasterKnows /\ NoLostUpdate
  BY DEF CallInv, RolesCarried, RoleCarried, OneDmaster, LmasterKnows, NoLostUpdate, Chosen
<1>3. TypeOK /\ CallInv => HolderIsDmaster
  <2> SUFFICES ASSUME TypeOK, CallInv PROVE HolderIsDmaster
    OBVIOUS
  <2>1. ASSUME NEW c \in Client, cl[c].pc \in {"held", "stored"}
        PROVE  lt[NodeOf[c]][cl[c].key].dmaster = NodeOf[c]
    BY <2>1 DEF CallInv, ClientsOk, ClientOk
  <2>2. ASSUME NEW c \in Client, NEW d \in Client, cl[c].pc \in {"held", "stored"},
               cl[d].pc \in {"held", "stored"}, cl[c].key = cl[d].key
        PROVE  c = d
    <3>1. PICK k \in Key : k = cl[c].key
      BY DEF TypeOK, ClientState
    <3>2. Holds(c, k) /\ Holds(d, k)
      BY <2>2, <3>1 DEF Holds, WithHandle
    <3>3. HolderOf(k) = c /\ HolderOf(k) = d
      BY <3>2, HolderIs
    <3> QED BY <3>3
  <2> QED BY <2>1, <2>2 DEF HolderIsDmaster
<1>4. TypeOK /\ CallInv => NeverFatal
  BY DEF CallInv, NeverFatal
<1> QED BY <1>1, <1>2, <1>3, <1>4, PTL
=============================================================================
