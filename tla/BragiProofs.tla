----------------------------- MODULE BragiProofs -----------------------------
(***************************************************************************)
(* Theorems about bragi: for any nodes, cards and profiles, however many   *)
(* appear, change and go while the engine asks.                            *)
(***************************************************************************)
EXTENDS LevelupToolsProofs

-----------------------------------------------------------------------------
(***************************************************************************)
(* Queues, whatever waits in them.                                         *)
(***************************************************************************)

\* u is s and then t.
Joins(u, s, n, t, m) ==
  /\ Numbered(u) /\ Len(s) = n /\ Len(t) = m /\ Len(u) = n + m
  /\ \A i \in 1..n : u[i] = s[i]
  /\ \A i \in 1..m : n + i \in 1..n + m /\ u[n + i] = t[i]
  /\ \A i \in 1..n + m : \/ i \in 1..n /\ u[i] = s[i]
                         \/ \E j \in 1..m : i = n + j /\ u[i] = t[j]

\* Two in a row.
LEMMA Joined ==
  ASSUME NEW n \in Nat, NEW s, s = [i \in 1..n |-> s[i]],
         NEW m \in Nat, NEW t, t = [i \in 1..m |-> t[i]]
  PROVE  Joins(s \o t, s, n, t, m)
<1> DEFINE T == {s[i] : i \in 1..n} \cup {t[i] : i \in 1..m}
<1>1. s \in [1..n -> T] /\ t \in [1..m -> T]
  OBVIOUS
<1> HIDE DEF T
<1>2. s \in Seq(T) /\ t \in Seq(T) /\ Len(s) = n /\ Len(t) = m
  BY <1>1
<1>3. /\ s \o t \in Seq(T) /\ Len(s \o t) = n + m
      /\ \A i \in 1..n + m : (s \o t)[i] = IF i <= n THEN s[i] ELSE t[i - n]
  BY <1>2
<1>4. Numbered(s \o t)
  <2>1. n + m \in Nat /\ s \o t = [i \in 1..n + m |-> (s \o t)[i]]
    BY <1>3
  <2>2. QED BY <2>1 DEF Numbered
<1>5. ASSUME NEW i \in 1..n PROVE (s \o t)[i] = s[i]
  BY <1>3
<1>6. ASSUME NEW i \in 1..m PROVE n + i \in 1..n + m /\ (s \o t)[n + i] = t[i]
  <2>1. n + i \in 1..n + m /\ ~(n + i <= n) /\ (n + i) - n = i
    OBVIOUS
  <2>2. QED BY <1>3, <2>1
<1>7. ASSUME NEW i \in 1..n + m
      PROVE  \/ i \in 1..n /\ (s \o t)[i] = s[i]
             \/ \E j \in 1..m : i = n + j /\ (s \o t)[i] = t[j]
  <2>1. CASE i <= n
    BY <1>5, <2>1
  <2>2. CASE ~(i <= n)
    <3>1. i - n \in 1..m /\ i = n + (i - n)
      BY <2>2
    <3>2. QED BY <1>3, <2>2, <3>1
  <2>3. QED BY <2>1, <2>2
<1>8. QED BY <1>2, <1>3, <1>4, <1>5, <1>6, <1>7 DEF Joins

\* One less.
LEMMA Shorter ==
  ASSUME NEW n \in Nat, NEW s, s = [i \in 1..n |-> s[i]], s # <<>>
  PROVE  /\ n - 1 \in Nat /\ Len(s) = n /\ Head(s) = s[1]
         /\ Tail(s) = [i \in 1..n - 1 |-> Tail(s)[i]] /\ Len(Tail(s)) = n - 1 /\ Numbered(Tail(s))
         /\ \A i \in 1..n - 1 : Tail(s)[i] = s[i + 1]
<1> DEFINE T == {s[i] : i \in 1..n}
<1>1. s \in [1..n -> T]
  OBVIOUS
<1> HIDE DEF T
<1>2. s \in Seq(T) /\ Len(s) = n
  BY <1>1
<1>3. n # 0
  BY <1>2
<1>4. /\ Tail(s) \in Seq(T) /\ Len(Tail(s)) = n - 1 /\ Head(s) = s[1]
      /\ \A i \in 1..n - 1 : Tail(s)[i] = s[i + 1]
  BY <1>2, <1>3
<1>5. n - 1 \in Nat /\ Tail(s) = [i \in 1..n - 1 |-> Tail(s)[i]]
  BY <1>3, <1>4
<1>6. QED BY <1>2, <1>4, <1>5 DEF Numbered

\* What SetToSeq makes of a finite set holds all of it and nothing else.
LEMMA Enumerated ==
  ASSUME NEW T, IsFiniteSet(T)
  PROVE  /\ Numbered(B!SetToSeq(T)) /\ \A i \in 1..Len(B!SetToSeq(T)) : B!SetToSeq(T)[i] \in T
         /\ \A x \in T : \E i \in 1..Len(B!SetToSeq(T)) : B!SetToSeq(T)[i] = x
<1> DEFINE n == Cardinality(T)
           f == B!SetToSeq(T)
<1>1. n \in Nat /\ \E g : g \in Bijection(1..n, T)
  BY FS_CardinalityType DEF ExistsBijection
<1>2. B!Cardinality(T) = n
  BY Zenon DEF B!Cardinality, Cardinality
<1>3. f = CHOOSE g \in [1..n -> T] : B!IsInjective(g)
  BY Zenon, <1>2 DEF B!SetToSeq
<1>4. \E g \in [1..n -> T] : B!IsInjective(g)
  <2>1. PICK g : g \in Bijection(1..n, T)
    BY <1>1
  <2> HIDE DEF n
  <2>2. g \in [1..n -> T] /\ IsInjective(g)
    BY <2>1 DEF Bijection, Injection
  <2>3. B!IsInjective(g)
    BY <2>2 DEF B!IsInjective, IsInjective
  <2>4. QED BY <2>2, <2>3
<1> HIDE DEF f
<1>5. f \in [1..n -> T] /\ B!IsInjective(f)
  <2> HIDE DEF n
  <2>1. QED BY <1>3, <1>4
<1>6. ASSUME NEW x \in T, \A i \in 1..n : f[i] # x PROVE FALSE
  <2>1. IsFiniteSet(T \ {x}) /\ Cardinality(T \ {x}) = n - 1
    BY FS_RemoveElement
  <2>2. IsFiniteSet(1..n) /\ Cardinality(1..n) = n
    <3> HIDE DEF n
    <3>1. Cardinality(1..n) = IF 1 > n THEN 0 ELSE n - 1 + 1
      BY <1>1, FS_Interval
    <3>2. IsFiniteSet(1..n)
      BY <1>1, FS_Interval
    <3>3. QED BY <1>1, <3>1, <3>2
  <2>3. f \in [1..n -> T \ {x}]
    <3> HIDE DEF n
    <3>1. QED BY <1>5, <1>6
  <2>4. n - 1 < n
    <3> HIDE DEF n
    <3>1. QED BY <1>1
  <2> DEFINE places == 1..n
             rest == T \ {x}
  <2>5. IsFiniteSet(places) /\ IsFiniteSet(rest) /\ f \in [places -> rest] /\ Cardinality(rest) < Cardinality(places)
    BY <2>1, <2>2, <2>3, <2>4
  <2>6. PICK i, j \in 1..n : i # j /\ f[i] = f[j]
    <3> HIDE DEF places, rest
    <3>1. \E i, j \in places : i # j /\ f[i] = f[j]
      BY <2>5, FS_PigeonHole
    <3>2. QED BY <3>1 DEF places
  <2> HIDE DEF n
  <2>7. QED BY <1>5, <2>6 DEF B!IsInjective
<1> HIDE DEF n
<1>7. f = [i \in 1..n |-> f[i]] /\ Len(f) = n
  BY <1>1, <1>5
<1>8. QED BY <1>1, <1>5, <1>6, <1>7 DEF Numbered, f

-----------------------------------------------------------------------------
(* bragi's. *)
server == v1
bound == v2
asked == v3
told == v4
graph == v5
awaited == v8
numbers == v9
ordered == v10
window == v12

USE DEF server, bound, asked, told, graph, awaited, numbers, ordered, window

(***************************************************************************)
(* bragi: a volume, or that its node is gone, is told before the round     *)
(* trip of number k is done;                                               *)
(***************************************************************************)
IsDone(e, k) == e.on = "done" /\ e.id = k
Tells(e, n) == e.on \in {"props", "remove"} /\ e.id = n

NotDone(E, k) == \A i \in 1..Len(E) : ~IsDone(E[i], k)
ToldFirst(E, n, k) == \E i \in 1..Len(E) : Tells(E[i], n) /\ \A j \in 1..i - 1 : ~IsDone(E[j], k)

(* or its bind is asked for before that. *)
IsSync(r, k) == r.ask = "sync" /\ r.id = k
Binds(r, n) == r.ask = "bind" /\ r.id = n

AskedFirst(R, n, k) == \E i \in 1..Len(R) : Binds(R[i], n) /\ \A j \in 1..i - 1 : ~IsSync(R[j], k)

Coming(nodes, E, R, n, k) ==
  ToldFirst(E, n, k) \/ (n \in nodes /\ NotDone(E, k) /\ AskedFirst(R, n, k))

\* A node that appeared and is there no more will be told to be gone.
Gone(E, nodes) == \A i \in 1..Len(E) : E[i].on = "global" /\ E[i].id \in B!Nodes \ nodes =>
  \E j \in i + 1..Len(E) : E[j].on = "remove" /\ E[j].id = E[i].id

\* More events change nothing of what is told first,
LEMMA ToldMore ==
  ASSUME NEW s, Numbered(s), NEW t, Numbered(t), NEW n, NEW k
  PROVE  /\ ToldFirst(s, n, k) => ToldFirst(s \o t, n, k)
         /\ NotDone(s, k) /\ NotDone(t, k) => NotDone(s \o t, k)
         /\ NotDone(s, k) /\ ToldFirst(t, n, k) => ToldFirst(s \o t, n, k)
<1>1. PICK a \in Nat : s = [i \in 1..a |-> s[i]]
  BY DEF Numbered
<1>2. PICK b \in Nat : t = [i \in 1..b |-> t[i]]
  BY DEF Numbered
<1> DEFINE u == s \o t
<1> HIDE DEF u
<1>3. /\ Len(s) = a /\ Len(t) = b /\ Len(u) = a + b
      /\ \A i \in 1..a : u[i] = s[i]
      /\ \A i \in 1..b : a + i \in 1..a + b /\ u[a + i] = t[i]
      /\ \A i \in 1..a + b : \/ i \in 1..a /\ u[i] = s[i]
                             \/ \E j \in 1..b : i = a + j /\ u[i] = t[j]
  <2>1. Joins(u, s, a, t, b)
    BY <1>1, <1>2, Joined DEF u
  <2>2. QED BY <2>1 DEF Joins
<1>4. ASSUME ToldFirst(s, n, k) PROVE ToldFirst(u, n, k)
  <2>1. PICK i \in 1..a : Tells(s[i], n) /\ \A j \in 1..i - 1 : ~IsDone(s[j], k)
    BY <1>3, <1>4 DEF ToldFirst
  <2>2. i \in 1..a + b /\ Tells(u[i], n) /\ \A j \in 1..i - 1 : ~IsDone(u[j], k)
    BY <1>3, <2>1
  <2>3. QED BY <1>3, <2>2 DEF ToldFirst
<1>5. ASSUME NotDone(s, k), NotDone(t, k) PROVE NotDone(u, k)
  BY <1>3, <1>5 DEF NotDone
<1>6. ASSUME NotDone(s, k), ToldFirst(t, n, k) PROVE ToldFirst(u, n, k)
  <2>1. PICK i \in 1..b : Tells(t[i], n) /\ \A j \in 1..i - 1 : ~IsDone(t[j], k)
    BY <1>3, <1>6 DEF ToldFirst
  <2>2. a + i \in 1..a + b /\ Tells(u[a + i], n)
    BY <1>3, <2>1
  <2>3. ASSUME NEW j \in 1..(a + i) - 1 PROVE ~IsDone(u[j], k)
    <3>1. j \in 1..a + b
      OBVIOUS
    <3>2. CASE j \in 1..a /\ u[j] = s[j]
      BY <1>3, <1>6, <3>2 DEF NotDone
    <3>3. CASE \E l \in 1..b : j = a + l /\ u[j] = t[l]
      <4>1. PICK l \in 1..b : j = a + l /\ u[j] = t[l]
        BY <3>3
      <4>2. l \in 1..i - 1
        BY <4>1
      <4>3. QED BY <2>1, <4>1, <4>2
    <3>4. QED BY <1>3, <3>1, <3>2, <3>3
  <2>4. QED BY <1>3, <2>2, <2>3 DEF ToldFirst
<1>7. QED BY <1>4, <1>5, <1>6 DEF u

\* nor do fewer, but for what the first one says.
LEMMA ToldLess ==
  ASSUME NEW s, Numbered(s), s # <<>>, NEW n, NEW k
  PROVE  /\ ToldFirst(s, n, k) => Tells(Head(s), n) \/ (~IsDone(Head(s), k) /\ ToldFirst(Tail(s), n, k))
         /\ NotDone(s, k) => ~IsDone(Head(s), k) /\ NotDone(Tail(s), k)
<1>1. PICK a \in Nat : s = [i \in 1..a |-> s[i]]
  BY DEF Numbered
<1> DEFINE t == Tail(s)
<1>2. /\ a - 1 \in Nat /\ Len(s) = a /\ Head(s) = s[1] /\ Len(t) = a - 1
      /\ \A i \in 1..a - 1 : t[i] = s[i + 1]
  BY <1>1, Shorter
<1> HIDE DEF t
<1>3. ASSUME ToldFirst(s, n, k), ~Tells(Head(s), n) PROVE ~IsDone(Head(s), k) /\ ToldFirst(t, n, k)
  <2>1. PICK i \in 1..a : Tells(s[i], n) /\ \A j \in 1..i - 1 : ~IsDone(s[j], k)
    BY <1>2, <1>3 DEF ToldFirst
  <2>2. i # 1 /\ i - 1 \in 1..a - 1 /\ 1 \in 1..i - 1
    BY <1>2, <1>3, <2>1
  <2>3. Tells(t[i - 1], n) /\ ~IsDone(Head(s), k)
    BY <1>2, <2>1, <2>2
  <2>4. ASSUME NEW j \in 1..(i - 1) - 1 PROVE ~IsDone(t[j], k)
    <3>1. j + 1 \in 1..i - 1 /\ j \in 1..a - 1
      BY <2>2
    <3>2. QED BY <1>2, <2>1, <3>1
  <2>5. QED BY <1>2, <2>2, <2>3, <2>4 DEF ToldFirst
<1>4. ASSUME NotDone(s, k) PROVE ~IsDone(Head(s), k) /\ NotDone(t, k)
  <2>1. \A i \in 1..a : ~IsDone(s[i], k)
    BY <1>2, <1>4 DEF NotDone
  <2>2. 1 \in 1..a /\ \A i \in 1..a - 1 : i + 1 \in 1..a
    BY <1>2
  <2>3. QED BY <1>2, <2>1, <2>2 DEF NotDone
<1>5. QED BY <1>3, <1>4 DEF t

\* The same of requests.
LEMMA AskedMore ==
  ASSUME NEW s, Numbered(s), NEW t, Numbered(t), NEW n, NEW k
  PROVE  /\ AskedFirst(s, n, k) => AskedFirst(s \o t, n, k)
         /\ (\A i \in 1..Len(s) : ~IsSync(s[i], k)) /\ AskedFirst(t, n, k) => AskedFirst(s \o t, n, k)
<1>1. PICK a \in Nat : s = [i \in 1..a |-> s[i]]
  BY DEF Numbered
<1>2. PICK b \in Nat : t = [i \in 1..b |-> t[i]]
  BY DEF Numbered
<1> DEFINE u == s \o t
<1> HIDE DEF u
<1>3. /\ Len(s) = a /\ Len(t) = b /\ Len(u) = a + b
      /\ \A i \in 1..a : u[i] = s[i]
      /\ \A i \in 1..b : a + i \in 1..a + b /\ u[a + i] = t[i]
      /\ \A i \in 1..a + b : \/ i \in 1..a /\ u[i] = s[i]
                             \/ \E j \in 1..b : i = a + j /\ u[i] = t[j]
  <2>1. Joins(u, s, a, t, b)
    BY <1>1, <1>2, Joined DEF u
  <2>2. QED BY <2>1 DEF Joins
<1>4. ASSUME AskedFirst(s, n, k) PROVE AskedFirst(u, n, k)
  <2>1. PICK i \in 1..a : Binds(s[i], n) /\ \A j \in 1..i - 1 : ~IsSync(s[j], k)
    BY <1>3, <1>4 DEF AskedFirst
  <2>2. i \in 1..a + b /\ Binds(u[i], n) /\ \A j \in 1..i - 1 : ~IsSync(u[j], k)
    BY <1>3, <2>1
  <2>3. QED BY <1>3, <2>2 DEF AskedFirst
<1>5. ASSUME \A i \in 1..a : ~IsSync(s[i], k), AskedFirst(t, n, k) PROVE AskedFirst(u, n, k)
  <2>1. PICK i \in 1..b : Binds(t[i], n) /\ \A j \in 1..i - 1 : ~IsSync(t[j], k)
    BY <1>3, <1>5 DEF AskedFirst
  <2>2. a + i \in 1..a + b /\ Binds(u[a + i], n)
    BY <1>3, <2>1
  <2>3. ASSUME NEW j \in 1..(a + i) - 1 PROVE ~IsSync(u[j], k)
    <3>1. j \in 1..a + b
      OBVIOUS
    <3>2. CASE j \in 1..a /\ u[j] = s[j]
      BY <1>5, <3>2
    <3>3. CASE \E l \in 1..b : j = a + l /\ u[j] = t[l]
      <4>1. PICK l \in 1..b : j = a + l /\ u[j] = t[l]
        BY <3>3
      <4>2. l \in 1..i - 1
        BY <4>1
      <4>3. QED BY <2>1, <4>1, <4>2
    <3>4. QED BY <1>3, <3>1, <3>2, <3>3
  <2>4. QED BY <1>3, <2>2, <2>3 DEF AskedFirst
<1>6. QED BY <1>3, <1>4, <1>5 DEF u

LEMMA AskedLess ==
  ASSUME NEW s, Numbered(s), s # <<>>, NEW n, NEW k, AskedFirst(s, n, k)
  PROVE  ~IsSync(Head(s), k) /\ (Binds(Head(s), n) \/ AskedFirst(Tail(s), n, k))
<1>1. PICK a \in Nat : s = [i \in 1..a |-> s[i]]
  BY DEF Numbered
<1> DEFINE t == Tail(s)
<1>2. /\ a - 1 \in Nat /\ Len(s) = a /\ Head(s) = s[1] /\ Len(t) = a - 1
      /\ \A i \in 1..a - 1 : t[i] = s[i + 1]
  BY <1>1, Shorter
<1> HIDE DEF t
<1>3. PICK i \in 1..a : Binds(s[i], n) /\ \A j \in 1..i - 1 : ~IsSync(s[j], k)
  BY <1>2 DEF AskedFirst
<1>4. CASE i = 1
  BY <1>2, <1>3, <1>4 DEF Binds, IsSync
<1>5. CASE i # 1
  <2>1. i - 1 \in 1..a - 1 /\ 1 \in 1..i - 1
    BY <1>2, <1>5
  <2>2. Binds(t[i - 1], n) /\ ~IsSync(Head(s), k)
    BY <1>2, <1>3, <2>1
  <2>3. ASSUME NEW j \in 1..(i - 1) - 1 PROVE ~IsSync(t[j], k)
    <3>1. j + 1 \in 1..i - 1 /\ j \in 1..a - 1
      BY <2>1
    <3>2. QED BY <1>2, <1>3, <3>1
  <2>4. QED BY <1>2, <2>1, <2>2, <2>3 DEF AskedFirst, t
<1>6. QED BY <1>4, <1>5

\* Nodes that leave are told to be gone, and only those appear that are there.
LEMMA GoneMore ==
  ASSUME NEW s, Numbered(s), NEW t, Numbered(t), NEW was, NEW is, Gone(s, was),
         (\E i \in 1..Len(s) : s[i].on = "global") =>
           \A n \in was \ is : \E j \in 1..Len(t) : t[j].on = "remove" /\ t[j].id = n,
         \A i \in 1..Len(t) : t[i].on = "global" /\ t[i].id \in B!Nodes => t[i].id \in is
  PROVE  Gone(s \o t, is)
<1>1. PICK a \in Nat : s = [i \in 1..a |-> s[i]]
  BY DEF Numbered
<1>2. PICK b \in Nat : t = [i \in 1..b |-> t[i]]
  BY DEF Numbered
<1> DEFINE u == s \o t
<1> HIDE DEF u
<1>3. /\ Len(s) = a /\ Len(t) = b /\ Len(u) = a + b
      /\ \A i \in 1..a : u[i] = s[i]
      /\ \A i \in 1..b : a + i \in 1..a + b /\ u[a + i] = t[i]
      /\ \A i \in 1..a + b : \/ i \in 1..a /\ u[i] = s[i]
                             \/ \E j \in 1..b : i = a + j /\ u[i] = t[j]
  <2>1. Joins(u, s, a, t, b)
    BY <1>1, <1>2, Joined DEF u
  <2>2. QED BY <2>1 DEF Joins
<1>4. ASSUME NEW i \in 1..a + b, u[i].on = "global", u[i].id \in B!Nodes \ is
      PROVE  \E j \in i + 1..a + b : u[j].on = "remove" /\ u[j].id = u[i].id
  <2>1. i \in 1..a /\ u[i] = s[i]
    BY <1>3, <1>4
  <2>2. CASE u[i].id \in was
    <3>1. PICK j \in 1..b : t[j].on = "remove" /\ t[j].id = u[i].id
      BY <1>3, <1>4, <2>1, <2>2
    <3>2. a + j \in i + 1..a + b /\ u[a + j] = t[j]
      BY <1>3, <2>1
    <3>3. QED BY <3>1, <3>2
  <2>3. CASE u[i].id \notin was
    <3>1. PICK j \in i + 1..a : s[j].on = "remove" /\ s[j].id = s[i].id
      BY <1>3, <1>4, <2>1, <2>3 DEF Gone
    <3>2. j \in 1..a /\ j \in i + 1..a + b
      BY <2>1
    <3>3. QED BY <1>3, <2>1, <3>1, <3>2
  <2>4. QED BY <2>2, <2>3
<1>5. Gone(u, is)
  BY <1>3, <1>4 DEF Gone
<1>6. QED BY <1>5 DEF u

LEMMA GoneLess ==
  ASSUME NEW s, Numbered(s), s # <<>>, NEW nodes, Gone(s, nodes)
  PROVE  /\ Gone(Tail(s), nodes)
         /\ Head(s).on = "global" /\ Head(s).id \in B!Nodes \ nodes =>
              \E j \in 1..Len(Tail(s)) : Tail(s)[j].on = "remove" /\ Tail(s)[j].id = Head(s).id
<1>1. PICK a \in Nat : s = [i \in 1..a |-> s[i]]
  BY DEF Numbered
<1> DEFINE t == Tail(s)
<1>2. /\ a - 1 \in Nat /\ Len(s) = a /\ Head(s) = s[1] /\ Len(t) = a - 1
      /\ \A i \in 1..a - 1 : t[i] = s[i + 1]
  BY <1>1, Shorter
<1> HIDE DEF t
<1>3. ASSUME NEW i \in 1..a, s[i].on = "global", s[i].id \in B!Nodes \ nodes
      PROVE  \E j \in i..a - 1 : t[j].on = "remove" /\ t[j].id = s[i].id
  <2>1. PICK j \in i + 1..a : s[j].on = "remove" /\ s[j].id = s[i].id
    BY <1>2, <1>3 DEF Gone
  <2>2. j - 1 \in i..a - 1 /\ j - 1 \in 1..a - 1 /\ (j - 1) + 1 = j
    OBVIOUS
  <2>3. t[j - 1] = s[j]
    BY <1>2, <2>2
  <2>4. QED BY <2>1, <2>2, <2>3
<1>4. ASSUME NEW i \in 1..a - 1, t[i].on = "global", t[i].id \in B!Nodes \ nodes
      PROVE  \E j \in i + 1..a - 1 : t[j].on = "remove" /\ t[j].id = t[i].id
  <2>1. i + 1 \in 1..a /\ t[i] = s[i + 1]
    BY <1>2
  <2>2. QED BY <1>3, <1>4, <2>1
<1>5. 1 \in 1..a
  BY <1>2
<1>6. Gone(t, nodes)
  BY <1>2, <1>4 DEF Gone
<1>7. QED BY <1>2, <1>3, <1>5, <1>6 DEF t

(***************************************************************************)
(* What waits in the queues, and what the two sides have.                  *)
(***************************************************************************)
EventsTyped(E, k) == \A i \in 1..Len(E) :
  /\ E[i].on = "done" => E[i].id \in 0..k
  /\ E[i].on = "props" => E[i].node.volume \in Int

RequestsTyped(R, k) == \A i \in 1..Len(R) :
  /\ R[i].ask = "sync" => R[i].id \in 0..k
  /\ R[i].ask = "write" /\ "volume" \in DOMAIN R[i].set => R[i].set.volume \in Int

OrdersTyped(C) == \A i \in 1..Len(C) : C[i].cmd = "volume" => C[i].to \in {0, 2}

ServerTyped ==
  /\ {"nodes", "cards", "links", "default"} \subseteq DOMAIN server
  /\ DOMAIN server.nodes \subseteq B!Nodes /\ DOMAIN server.cards \subseteq B!Cards
  /\ IsFiniteSet(DOMAIN server.nodes) /\ IsFiniteSet(DOMAIN server.cards) /\ IsFiniteSet(server.links)
  /\ \A n \in DOMAIN server.nodes :
       "volume" \in DOMAIN server.nodes[n] /\ server.nodes[n].volume \in Int

GraphTyped ==
  /\ {"nodes", "cards", "links", "default", "complete"} \subseteq DOMAIN graph
  /\ graph.complete \in BOOLEAN
  /\ \A n \in DOMAIN graph.nodes :
       /\ {"volume", "mute", "card"} \subseteq DOMAIN graph.nodes[n]
       /\ graph.nodes[n].volume = Nothing \/ graph.nodes[n].volume \in Int

ChooserTyped ==
  /\ "chooser" \in DOMAIN window
  /\ window.chooser = Nothing \/ ({"kind", "sel"} \subseteq DOMAIN window.chooser /\ window.chooser.kind \in {"move", "profile"})

(***************************************************************************)
(* While the graph is not complete, a node without a volume is waited for: *)
(* its volume, or that it is gone, comes before the answer that completes. *)
(***************************************************************************)
WaitedFor == ~graph.complete =>
  /\ awaited = numbers
  /\ \A n \in DOMAIN graph.nodes :
       graph.nodes[n].volume = Nothing => Coming(DOMAIN server.nodes, told, asked, n, numbers)

CompleteInv ==
  /\ Numbered(told) /\ Numbered(asked) /\ Numbered(ordered) /\ numbers \in Nat
  /\ ServerTyped /\ GraphTyped /\ ChooserTyped
  /\ EventsTyped(told, numbers) /\ RequestsTyped(asked, numbers) /\ OrdersTyped(ordered)
  /\ Registry \notin bound =>
       DOMAIN graph.nodes = {} /\ \A i \in 1..Len(told) : told[i].on # "global"
  /\ Gone(told, DOMAIN server.nodes)
  /\ WaitedFor

\* Queues of what is typed are typed.
LEMMA TypedMore ==
  ASSUME NEW s, Numbered(s), NEW t, Numbered(t), NEW k
  PROVE  /\ Numbered(s \o t)
         /\ EventsTyped(s, k) /\ EventsTyped(t, k) => EventsTyped(s \o t, k)
         /\ RequestsTyped(s, k) /\ RequestsTyped(t, k) => RequestsTyped(s \o t, k)
         /\ OrdersTyped(s) /\ OrdersTyped(t) => OrdersTyped(s \o t)
         /\ \A i \in 1..Len(s \o t) : \/ \E j \in 1..Len(s) : (s \o t)[i] = s[j]
                                      \/ \E j \in 1..Len(t) : (s \o t)[i] = t[j]
<1>1. PICK a \in Nat : s = [i \in 1..a |-> s[i]]
  BY DEF Numbered
<1>2. PICK b \in Nat : t = [i \in 1..b |-> t[i]]
  BY DEF Numbered
<1> DEFINE u == s \o t
<1> HIDE DEF u
<1>3. Joins(u, s, a, t, b)
  BY <1>1, <1>2, Joined DEF u
<1>4. /\ Numbered(u)
      /\ \A i \in 1..Len(u) : \/ \E j \in 1..Len(s) : u[i] = s[j]
                              \/ \E j \in 1..Len(t) : u[i] = t[j]
  BY <1>3 DEF Joins
<1>5. EventsTyped(s, k) /\ EventsTyped(t, k) => EventsTyped(u, k)
  BY <1>4 DEF EventsTyped
<1>6. RequestsTyped(s, k) /\ RequestsTyped(t, k) => RequestsTyped(u, k)
  BY <1>4 DEF RequestsTyped
<1>7. OrdersTyped(s) /\ OrdersTyped(t) => OrdersTyped(u)
  BY <1>4 DEF OrdersTyped
<1>8. QED BY <1>4, <1>5, <1>6, <1>7 DEF u

LEMMA TypedLess ==
  ASSUME NEW s, Numbered(s), s # <<>>, NEW k
  PROVE  /\ Numbered(Tail(s)) /\ 1 \in 1..Len(s) /\ Head(s) = s[1]
         /\ EventsTyped(s, k) => EventsTyped(Tail(s), k)
         /\ RequestsTyped(s, k) => RequestsTyped(Tail(s), k)
         /\ OrdersTyped(s) => OrdersTyped(Tail(s))
         /\ \A i \in 1..Len(Tail(s)) : \E j \in 1..Len(s) : Tail(s)[i] = s[j]
<1>1. PICK a \in Nat : s = [i \in 1..a |-> s[i]]
  BY DEF Numbered
<1> DEFINE t == Tail(s)
<1>2. /\ a - 1 \in Nat /\ Len(s) = a /\ Head(s) = s[1] /\ Len(t) = a - 1 /\ Numbered(t)
      /\ \A i \in 1..a - 1 : t[i] = s[i + 1]
  BY <1>1, Shorter
<1> HIDE DEF t
<1>3. \A i \in 1..Len(t) : \E j \in 1..Len(s) : t[i] = s[j]
  <2>1. \A i \in 1..a - 1 : i + 1 \in 1..a
    BY <1>2
  <2>2. QED BY <1>2, <2>1
<1>4. EventsTyped(s, k) => EventsTyped(t, k)
  BY <1>3 DEF EventsTyped
<1>5. RequestsTyped(s, k) => RequestsTyped(t, k)
  BY <1>3 DEF RequestsTyped
<1>6. OrdersTyped(s) => OrdersTyped(t)
  BY <1>3 DEF OrdersTyped
<1>7. QED BY <1>2, <1>3, <1>4, <1>5, <1>6 DEF t

\* Short queues.
LEMMA ShortQueues ==
  ASSUME NEW e, NEW f
  PROVE  /\ Numbered(<<>>) /\ Len(<<>>) = 0
         /\ Numbered(<<e>>) /\ Len(<<e>>) = 1 /\ <<e>>[1] = e
         /\ Numbered(<<e, f>>) /\ Len(<<e, f>>) = 2 /\ <<e, f>>[1] = e /\ <<e, f>>[2] = f
<1>1. <<>> = [i \in 1..0 |-> <<>>[i]] /\ Len(<<>>) = 0
  OBVIOUS
<1>2. <<e>> = [i \in 1..1 |-> <<e>>[i]] /\ Len(<<e>>) = 1 /\ <<e>>[1] = e
  OBVIOUS
<1>3. <<e, f>> = [i \in 1..2 |-> <<e, f>>[i]] /\ Len(<<e, f>>) = 2 /\ <<e, f>>[1] = e /\ <<e, f>>[2] = f
  OBVIOUS
<1>4. QED BY <1>1, <1>2, <1>3 DEF Numbered

\* Appending is joining one, or none.
LEMMA Joining ==
  ASSUME NEW s, Numbered(s), NEW e
  PROVE  Append(s, e) = s \o <<e>> /\ s \o <<>> = s
<1>1. PICK n \in Nat : s = [i \in 1..n |-> s[i]]
  BY DEF Numbered
<1> DEFINE T == {s[i] : i \in 1..n} \cup {e}
<1>2. s \in [1..n -> T] /\ e \in T
  BY <1>1
<1> HIDE DEF T
<1>3. s \in Seq(T) /\ <<e>> \in Seq(T)
  BY <1>2
<1>4. QED BY <1>3, <1>2

\* What is made of each member of a finite set is finite.
LEMMA FiniteImage ==
  ASSUME NEW f, IsFiniteSet(DOMAIN f), f = [x \in DOMAIN f |-> f[x]]
  PROVE  IsFiniteSet({f[x] : x \in DOMAIN f})
<1> DEFINE T == {f[x] : x \in DOMAIN f}
<1>1. f \in Surjection(DOMAIN f, T)
  BY DEF Surjection
<1> HIDE DEF T
<1>2. IsFiniteSet(T)
  BY <1>1, FS_Surjection
<1>3. QED BY <1>2 DEF T

(***************************************************************************)
(* What PipeWire tells at once: about nodes it has, of those that left,    *)
(* and of a round trip only when it is asked for one; whatever it is asked *)
(* to bind it tells the volume of.                                         *)
(***************************************************************************)
Answers(es) ==
  /\ told' = told \o es /\ Numbered(es) /\ EventsTyped(es, numbers)
  /\ UNCHANGED <<graph, awaited, numbers, ordered, window>> /\ ServerTyped'
  /\ \/ asked' = asked /\ \A i \in 1..Len(es) : es[i].on # "done"
     \/ /\ asked # <<>> /\ asked' = Tail(asked)
        /\ \A i \in 1..Len(es) : es[i].on = "done" => IsSync(Head(asked), es[i].id)
        /\ DOMAIN server.nodes' = DOMAIN server.nodes
        /\ \A n \in DOMAIN server.nodes, k \in Nat : Binds(Head(asked), n) => ToldFirst(es, n, k)
  /\ \A i \in 1..Len(es) : es[i].on = "global" =>
       Registry \in bound' /\ (es[i].id \in B!Nodes => es[i].id \in DOMAIN server.nodes')
  /\ Registry \in bound =>
       /\ Registry \in bound'
       /\ \A n \in DOMAIN server.nodes \ DOMAIN server.nodes' :
            \E i \in 1..Len(es) : es[i].on = "remove" /\ es[i].id = n

LEMMA AnswersKeep ==
  ASSUME CompleteInv, NEW es, Answers(es)
  PROVE  CompleteInv'
<1>1. /\ Numbered(told') /\ EventsTyped(told', numbers')
      /\ \A i \in 1..Len(told') : \/ \E j \in 1..Len(told) : told'[i] = told[j]
                                  \/ \E j \in 1..Len(es) : told'[i] = es[j]
  BY TypedMore DEF CompleteInv, Answers
<1>2. Numbered(asked') /\ RequestsTyped(asked', numbers')
  <2>1. Numbered(asked) /\ RequestsTyped(asked, numbers) /\ numbers' = numbers
    BY DEF CompleteInv, Answers
  <2>2. asked' = asked \/ (asked # <<>> /\ asked' = Tail(asked))
    BY DEF Answers
  <2>3. asked # <<>> => Numbered(Tail(asked)) /\ RequestsTyped(Tail(asked), numbers)
    BY <2>1, TypedLess
  <2>4. QED BY <2>1, <2>2, <2>3
<1>3. /\ Numbered(ordered') /\ numbers' \in Nat /\ ServerTyped' /\ GraphTyped' /\ ChooserTyped'
      /\ OrdersTyped(ordered') /\ UNCHANGED <<graph, awaited, numbers>>
  BY DEF CompleteInv, Answers, GraphTyped, ChooserTyped
<1>4. Registry \notin bound' => DOMAIN graph'.nodes = {} /\ \A i \in 1..Len(told') : told'[i].on # "global"
  BY <1>1, <1>3 DEF CompleteInv, Answers
<1>5. Gone(told', DOMAIN server.nodes')
  <2>1. (\E i \in 1..Len(told) : told[i].on = "global") => Registry \in bound
    BY DEF CompleteInv
  <2>2. (\E i \in 1..Len(told) : told[i].on = "global") =>
          \A n \in DOMAIN server.nodes \ DOMAIN server.nodes' :
            \E j \in 1..Len(es) : es[j].on = "remove" /\ es[j].id = n
    BY <2>1 DEF Answers
  <2>3. \A i \in 1..Len(es) : es[i].on = "global" /\ es[i].id \in B!Nodes => es[i].id \in DOMAIN server.nodes'
    BY DEF Answers
  <2>4. Numbered(told) /\ Numbered(es) /\ Gone(told, DOMAIN server.nodes) /\ told' = told \o es
    BY DEF CompleteInv, Answers
  <2>5. Gone(told \o es, DOMAIN server.nodes')
    <3> DEFINE was == DOMAIN server.nodes
               is == DOMAIN server.nodes'
    <3>1. /\ Gone(told, was)
          /\ (\E i \in 1..Len(told) : told[i].on = "global") =>
               \A n \in was \ is : \E j \in 1..Len(es) : es[j].on = "remove" /\ es[j].id = n
          /\ \A i \in 1..Len(es) : es[i].on = "global" /\ es[i].id \in B!Nodes => es[i].id \in is
      BY <2>2, <2>3, <2>4
    <3> HIDE DEF was, is
    <3>2. Gone(told \o es, is)
      BY <2>4, <3>1, GoneMore
    <3>3. QED BY <3>2 DEF is
  <2>6. QED BY <2>4, <2>5
<1>6. WaitedFor'
  <2>1. SUFFICES ASSUME ~graph'.complete, NEW n \in DOMAIN graph'.nodes, graph'.nodes[n].volume = Nothing
                 PROVE  Coming(DOMAIN server.nodes', told', asked', n, numbers')
    BY <1>3 DEF WaitedFor, CompleteInv
  <2> DEFINE k == numbers
  <2>2. Coming(DOMAIN server.nodes, told, asked, n, k) /\ k \in Nat
    BY <1>3, <2>1 DEF WaitedFor, CompleteInv
  <2>3. Numbered(told) /\ Numbered(es) /\ told' = told \o es /\ numbers' = k /\ Numbered(asked)
    BY <1>3 DEF CompleteInv, Answers
  <2>4. Registry \in bound
    BY <1>3, <2>1 DEF CompleteInv
  <2> HIDE DEF k
  <2>5. CASE ToldFirst(told, n, k)
    BY <2>3, <2>5, ToldMore DEF Coming
  <2>6. CASE n \in DOMAIN server.nodes /\ NotDone(told, k) /\ AskedFirst(asked, n, k)
    <3>1. CASE asked' = asked /\ \A i \in 1..Len(es) : es[i].on # "done"
      <4>1. NotDone(es, k)
        BY <3>1 DEF NotDone, IsDone
      <4>2. CASE n \in DOMAIN server.nodes'
        BY <2>3, <2>6, <3>1, <4>1, <4>2, ToldMore DEF Coming
      <4>3. CASE n \notin DOMAIN server.nodes'
        <5>1. PICK i \in 1..Len(es) : es[i].on = "remove" /\ es[i].id = n
          BY <2>4, <2>6, <4>3 DEF Answers
        <5>2. Len(es) \in Nat
          BY <2>3 DEF Numbered
        <5>3. Tells(es[i], n) /\ \A j \in 1..i - 1 : ~IsDone(es[j], k)
          BY <3>1, <5>1, <5>2 DEF Tells, IsDone
        <5>4. ToldFirst(es, n, k)
          BY <5>3 DEF ToldFirst
        <5>5. QED BY <2>3, <2>6, <5>4, ToldMore DEF Coming
      <4>4. QED BY <4>2, <4>3
    <3>2. CASE /\ asked # <<>> /\ asked' = Tail(asked)
               /\ \A i \in 1..Len(es) : es[i].on = "done" => IsSync(Head(asked), es[i].id)
               /\ DOMAIN server.nodes' = DOMAIN server.nodes
               /\ \A m \in DOMAIN server.nodes, l \in Nat : Binds(Head(asked), m) => ToldFirst(es, m, l)
      <4>1. ~IsSync(Head(asked), k) /\ (Binds(Head(asked), n) \/ AskedFirst(Tail(asked), n, k))
        BY <2>3, <2>6, <3>2, AskedLess
      <4>2. CASE Binds(Head(asked), n)
        <5>1. ToldFirst(es, n, k)
          BY <2>2, <2>6, <3>2, <4>2
        <5>2. QED BY <2>3, <2>6, <5>1, ToldMore DEF Coming
      <4>3. CASE AskedFirst(Tail(asked), n, k)
        <5>1. NotDone(es, k)
          BY <3>2, <4>1 DEF NotDone, IsDone
        <5>2. NotDone(told \o es, k)
          BY <2>3, <2>6, <5>1, ToldMore
        <5>3. QED BY <2>3, <2>6, <3>2, <4>3, <5>2 DEF Coming
      <4>4. QED BY <4>1, <4>2, <4>3
    <3>3. QED BY <3>1, <3>2 DEF Answers
  <2>7. QED BY <2>2, <2>5, <2>6 DEF Coming
<1>7. QED BY <1>1, <1>2, <1>3, <1>4, <1>5, <1>6 DEF CompleteInv

\* What PipeWire says of an id when it is asked,
LEMMA DetailsOf ==
  ASSUME ServerTyped, NEW id
  PROVE  /\ Numbered(B!Details(id)) /\ EventsTyped(B!Details(id), numbers)
         /\ \A i \in 1..Len(B!Details(id)) : B!Details(id)[i].on \notin {"done", "global"}
         /\ id \in DOMAIN server.nodes => \A k \in Nat : ToldFirst(B!Details(id), id, k)
<1> DEFINE es == B!Details(id)
<1>1. CASE id \in DOMAIN server.nodes
  <2> DEFINE e == [on |-> "info", id |-> id]
             f == B!Props(id, server.nodes[id])
  <2>1. es = <<e, f>>
    BY <1>1 DEF B!Details
  <2>2. e.on = "info" /\ f.on = "props" /\ f.id = id /\ f.node.volume \in Int
    BY <1>1 DEF B!Props, ServerTyped
  <2> HIDE DEF es, e, f
  <2>3. Numbered(es) /\ Len(es) = 2 /\ es[1] = e /\ es[2] = f
    BY <2>1, ShortQueues
  <2>4. \A i \in 1..2 : i = 1 \/ i = 2
    OBVIOUS
  <2>5. EventsTyped(es, numbers) /\ \A i \in 1..Len(es) : es[i].on \notin {"done", "global"}
    BY <2>2, <2>3, <2>4 DEF EventsTyped
  <2>6. ASSUME NEW k PROVE ToldFirst(es, id, k)
    <3>1. Tells(es[2], id) /\ 2 \in 1..Len(es) /\ \A j \in 1..2 - 1 : ~IsDone(es[j], k)
      BY <2>2, <2>3 DEF Tells, IsDone
    <3>2. QED BY <3>1 DEF ToldFirst
  <2>7. QED BY <2>3, <2>5, <2>6 DEF es
<1>2. CASE id \notin DOMAIN server.nodes
  <2>1. CASE es = <<>>
    <3> HIDE DEF es
    <3>1. Numbered(es) /\ Len(es) = 0
      BY <2>1, ShortQueues
    <3>2. QED BY <1>2, <3>1 DEF EventsTyped, es
  <2>2. CASE \E e : es = <<e>> /\ e.on \in {"params", "default"}
    <3>1. PICK e : es = <<e>> /\ e.on \in {"params", "default"}
      BY <2>2
    <3> HIDE DEF es
    <3>2. Numbered(es) /\ Len(es) = 1 /\ es[1] = e
      BY <3>1, ShortQueues
    <3>3. QED BY <1>2, <3>1, <3>2 DEF EventsTyped, es
  <2>3. es = <<>> \/ \E e : es = <<e>> /\ e.on \in {"params", "default"}
    BY <1>2 DEF B!Details
  <2>4. QED BY <2>1, <2>2, <2>3
<1>3. QED BY <1>1, <1>2

\* when it is asked what there is,
LEMMA GlobalsOf ==
  ASSUME ServerTyped, Metadata \notin B!Nodes \cup B!Cards, B!Nodes \cap B!Cards = {}
  PROVE  /\ Numbered(B!Globals) /\ EventsTyped(B!Globals, numbers)
         /\ \A i \in 1..Len(B!Globals) :
              /\ B!Globals[i].on # "done"
              /\ B!Globals[i].on = "global" /\ B!Globals[i].id \in B!Nodes => B!Globals[i].id \in DOMAIN server.nodes
<1> DEFINE ids == {Metadata} \cup DOMAIN server.nodes \cup DOMAIN server.cards
           new == [id \in ids |-> [on |-> "global", id |-> id]]
           link == [l \in server.links |-> [on |-> "link", id |-> l]]
           T == {[on |-> "global", id |-> id] : id \in ids}
           U == {[on |-> "link", id |-> l] : l \in server.links}
<1>1. IsFiniteSet(T) /\ IsFiniteSet(U)
  <2>1. IsFiniteSet({Metadata} \cup DOMAIN server.nodes)
    BY FS_Singleton, FS_Union DEF ServerTyped
  <2>2. IsFiniteSet(ids) /\ IsFiniteSet(server.links)
    BY <2>1, FS_Union DEF ServerTyped
  <2>3. T = {new[id] : id \in DOMAIN new} /\ U = {link[l] : l \in DOMAIN link}
    OBVIOUS
  <2>4. IsFiniteSet({new[id] : id \in DOMAIN new})
    BY <2>2, FiniteImage
  <2>5. IsFiniteSet({link[l] : l \in DOMAIN link})
    BY <2>2, FiniteImage
  <2>6. QED BY <2>3, <2>4, <2>5
<1>2. \A e \in T : e.on = "global" /\ e.id \in ids
  OBVIOUS
<1>3. \A e \in U : e.on = "link"
  OBVIOUS
<1>4. B!Globals = B!SetToSeq(T) \o B!SetToSeq(U)
  BY DEF B!Globals
<1>5. \A id \in ids : id \in B!Nodes => id \in DOMAIN server.nodes
  BY DEF ServerTyped
<1> HIDE DEF T, U, ids
<1> DEFINE s == B!SetToSeq(T)
           t == B!SetToSeq(U)
<1>6. Numbered(s) /\ Numbered(t) /\ (\A i \in 1..Len(s) : s[i] \in T) /\ (\A i \in 1..Len(t) : t[i] \in U)
  BY <1>1, Enumerated
<1> HIDE DEF s, t
<1>7. Numbered(s \o t) /\ \A i \in 1..Len(s \o t) : (s \o t)[i] \in T \cup U
  <2>1. /\ Numbered(s \o t)
        /\ \A i \in 1..Len(s \o t) : \/ \E j \in 1..Len(s) : (s \o t)[i] = s[j]
                                     \/ \E j \in 1..Len(t) : (s \o t)[i] = t[j]
    BY <1>6, TypedMore
  <2>2. QED BY <1>6, <2>1
<1>8. Numbered(B!Globals) /\ \A i \in 1..Len(B!Globals) : B!Globals[i] \in T \cup U
  BY <1>4, <1>7 DEF s, t
<1>9. \A e \in T \cup U : /\ e.on \notin {"done", "props"}
                          /\ e.on = "global" /\ e.id \in B!Nodes => e.id \in DOMAIN server.nodes
  BY <1>2, <1>3, <1>5
<1>10. EventsTyped(B!Globals, numbers)
  BY <1>8, <1>9 DEF EventsTyped
<1>11. QED BY <1>8, <1>9, <1>10

\* and when links change.
LEMMA LinkEventsOf ==
  ASSUME NEW old, NEW new, IsFiniteSet(old), IsFiniteSet(new)
  PROVE  /\ Numbered(B!LinkEvents(old, new)) /\ EventsTyped(B!LinkEvents(old, new), numbers)
         /\ \A i \in 1..Len(B!LinkEvents(old, new)) : B!LinkEvents(old, new)[i].on \in {"unlink", "link"}
<1> DEFINE less == [l \in old \ new |-> [on |-> "unlink", id |-> l]]
           more == [l \in new \ old |-> [on |-> "link", id |-> l]]
           T == {[on |-> "unlink", id |-> l] : l \in old \ new}
           U == {[on |-> "link", id |-> l] : l \in new \ old}
<1>1. IsFiniteSet(T) /\ IsFiniteSet(U)
  <2>1. IsFiniteSet(old \ new) /\ IsFiniteSet(new \ old)
    BY FS_Subset
  <2>2. T = {less[l] : l \in DOMAIN less} /\ U = {more[l] : l \in DOMAIN more}
    OBVIOUS
  <2>3. IsFiniteSet({less[l] : l \in DOMAIN less})
    BY <2>1, FiniteImage
  <2>4. IsFiniteSet({more[l] : l \in DOMAIN more})
    BY <2>1, FiniteImage
  <2>5. QED BY <2>2, <2>3, <2>4
<1>2. \A e \in T \cup U : e.on \in {"unlink", "link"}
  OBVIOUS
<1>3. B!LinkEvents(old, new) = B!SetToSeq(T) \o B!SetToSeq(U)
  BY DEF B!LinkEvents
<1> HIDE DEF T, U
<1> DEFINE s == B!SetToSeq(T)
           t == B!SetToSeq(U)
<1>4. Numbered(s) /\ Numbered(t) /\ (\A i \in 1..Len(s) : s[i] \in T) /\ (\A i \in 1..Len(t) : t[i] \in U)
  BY <1>1, Enumerated
<1> HIDE DEF s, t
<1>5. Numbered(s \o t) /\ \A i \in 1..Len(s \o t) : (s \o t)[i] \in T \cup U
  BY <1>4, TypedMore
<1>6. /\ Numbered(B!LinkEvents(old, new))
      /\ \A i \in 1..Len(B!LinkEvents(old, new)) : B!LinkEvents(old, new)[i].on \in {"unlink", "link"}
  BY <1>2, <1>3, <1>5 DEF s, t
<1>7. QED BY <1>6 DEF EventsTyped

(* Ids are of one thing each. *)
Distinct ==
  /\ {Registry, Metadata} \cap (B!Nodes \cup B!Cards) = {} /\ B!Nodes \cap B!Cards = {}
  /\ MaxVolume \in Int

\* A request that is not a bind is answered with what leaves the rest as it is.
Serving == /\ asked # <<>> /\ asked' = Tail(asked) /\ UNCHANGED <<graph, awaited, numbers, ordered, window>>
Told(id, es) == told' = IF id \in bound THEN told \o es ELSE told
Harmless(es) ==
  /\ Numbered(es) /\ EventsTyped(es, numbers)
  /\ \A i \in 1..Len(es) : es[i].on \notin {"done", "global"}

LEMMA HarmlessAnswers ==
  ASSUME CompleteInv, Serving, NEW id, NEW es, Told(id, es), Harmless(es),
         ServerTyped', DOMAIN server.nodes' = DOMAIN server.nodes, bound' = bound,
         Head(asked).ask # "bind"
  PROVE  \E e : Answers(e)
<1>1. \A n : ~Binds(Head(asked), n)
  BY DEF Binds
<1>2. CASE id \in bound
  <2>1. told' = told \o es
    BY <1>2 DEF Told
  <2>2. Answers(es)
    BY <1>1, <2>1 DEF Serving, Harmless, Answers
  <2>3. QED BY <2>2
<1>3. CASE id \notin bound
  <2>1. told' = told \o <<>>
    BY <1>3, Joining DEF Told, CompleteInv
  <2>2. Numbered(<<>>) /\ Len(<<>>) = 0
    BY ShortQueues
  <2>3. EventsTyped(<<>>, numbers)
    BY <2>2 DEF EventsTyped
  <2>4. Answers(<<>>)
    BY <1>1, <2>1, <2>2, <2>3 DEF Serving, Answers
  <2>5. QED BY <2>4
<1>4. QED BY <1>2, <1>3

\* Nothing, and one that tells neither.
LEMMA NothingHarmless == Harmless(<<>>)
<1>1. Numbered(<<>>) /\ Len(<<>>) = 0
  BY ShortQueues
<1>2. QED BY <1>1 DEF Harmless, EventsTyped

LEMMA OneHarmless ==
  ASSUME NEW e, e.on \notin {"done", "global"}, e.on = "props" => e.node.volume \in Int
  PROVE  Harmless(<<e>>)
<1> DEFINE es == <<e>>
<1>1. Numbered(es) /\ Len(es) = 1 /\ es[1] = e
  BY ShortQueues
<1> HIDE DEF es
<1>2. \A i \in 1..Len(es) : es[i] = e
  BY <1>1
<1>3. EventsTyped(es, numbers) /\ \A i \in 1..Len(es) : es[i].on \notin {"done", "global"}
  BY <1>2 DEF EventsTyped
<1>4. QED BY <1>1, <1>3 DEF Harmless, es

LEMMA ServeAnswers ==
  ASSUME CompleteInv, Distinct, B!Serve
  PROVE  \E es : Answers(es)
<1> DEFINE r == Head(asked)
<1>1. Serving /\ ServerTyped /\ Numbered(asked) /\ RequestsTyped(asked, numbers)
  BY DEF B!Serve, B!mirror, Serving, CompleteInv
<1>2. /\ r.ask = "sync" => r.id \in 0..numbers
      /\ r.ask = "write" /\ "volume" \in DOMAIN r.set => r.set.volume \in Int
  BY <1>1, TypedLess DEF RequestsTyped, Serving
<1>3. CASE /\ r.ask = "registry" /\ bound' = bound \cup {Registry} /\ told' = told \o B!Globals
           /\ UNCHANGED server
  <2>1. /\ Numbered(B!Globals) /\ EventsTyped(B!Globals, numbers)
        /\ \A i \in 1..Len(B!Globals) :
              /\ B!Globals[i].on # "done"
              /\ B!Globals[i].on = "global" /\ B!Globals[i].id \in B!Nodes => B!Globals[i].id \in DOMAIN server.nodes
    <3>1. Metadata \notin B!Nodes \cup B!Cards /\ B!Nodes \cap B!Cards = {}
      BY DEF Distinct
    <3>2. QED BY <1>1, <3>1, GlobalsOf
  <2>2. \A n : ~Binds(r, n)
    BY <1>3 DEF Binds
  <2> DEFINE es == B!Globals
  <2> HIDE DEF r, es
  <2>3. ServerTyped'
    BY <1>1, <1>3 DEF ServerTyped
  <2>4. /\ \A i \in 1..Len(es) : es[i].on = "global" =>
             Registry \in bound' /\ (es[i].id \in B!Nodes => es[i].id \in DOMAIN server.nodes')
        /\ \A i \in 1..Len(es) : es[i].on = "done" => IsSync(r, es[i].id)
        /\ Registry \in bound' /\ DOMAIN server.nodes' = DOMAIN server.nodes
    BY <1>3, <2>1 DEF es
  <2>5. told' = told \o es /\ Numbered(es) /\ EventsTyped(es, numbers)
    BY <1>3, <2>1 DEF es
  <2>6. Answers(es)
    BY <1>1, <2>2, <2>3, <2>4, <2>5 DEF Answers, Serving, r
  <2>7. QED BY <2>6
<1>4. CASE /\ r.ask = "bind" /\ told' = told \o B!Details(r.id)
           /\ bound' = bound \cup ({r.id} \cap ({Metadata} \cup DOMAIN server.nodes \cup DOMAIN server.cards))
           /\ UNCHANGED server
  <2> DEFINE es == B!Details(r.id)
  <2>1. /\ Numbered(es) /\ EventsTyped(es, numbers)
        /\ \A i \in 1..Len(es) : es[i].on \notin {"done", "global"}
        /\ r.id \in DOMAIN server.nodes => \A k \in Nat : ToldFirst(es, r.id, k)
    BY <1>1, DetailsOf
  <2>2. told' = told \o es /\ DOMAIN server.nodes' = DOMAIN server.nodes
    BY <1>4
  <2> HIDE DEF es, r
  <2>3. \A n \in DOMAIN server.nodes, k \in Nat : Binds(r, n) => ToldFirst(es, n, k)
    BY <2>1 DEF Binds
  <2>4. ServerTyped'
    BY <1>1, <1>4 DEF ServerTyped
  <2>5. Answers(es)
    BY <1>1, <1>4, <2>1, <2>2, <2>3, <2>4 DEF Answers, Serving, r
  <2>6. QED BY <2>5
<1>5. CASE r.ask = "enum" /\ told' = told \o B!Details(r.id) /\ UNCHANGED <<server, bound>>
  <2> DEFINE es == B!Details(r.id)
  <2>1. /\ Numbered(es) /\ EventsTyped(es, numbers)
        /\ \A i \in 1..Len(es) : es[i].on \notin {"done", "global"}
    BY <1>1, DetailsOf
  <2>2. told' = told \o es /\ DOMAIN server.nodes' = DOMAIN server.nodes
    BY <1>5
  <2> HIDE DEF es, r
  <2>3. \A n : ~Binds(r, n)
    BY <1>5 DEF Binds
  <2>4. ServerTyped'
    BY <1>1, <1>5 DEF ServerTyped
  <2>5. Answers(es)
    BY <1>1, <1>5, <2>1, <2>2, <2>3, <2>4 DEF Answers, Serving, r
  <2>6. QED BY <2>5
<1>6. CASE r.ask = "sync" /\ told' = Append(told, [on |-> "done", id |-> r.id]) /\ UNCHANGED <<server, bound>>
  <2> DEFINE e == [on |-> "done", id |-> r.id]
             es == <<e>>
  <2>1. told' = told \o es
    BY <1>6, Joining DEF CompleteInv
  <2>2. Numbered(es) /\ Len(es) = 1 /\ es[1] = e
    BY ShortQueues
  <2>3. e.on = "done" /\ e.id = r.id
    OBVIOUS
  <2> HIDE DEF es, e, r
  <2>4. \A i \in 1..Len(es) : es[i] = e
    BY <2>2
  <2>5. EventsTyped(es, numbers) /\ \A i \in 1..Len(es) : IsSync(r, es[i].id) /\ es[i].on = "done"
    BY <1>2, <1>6, <2>3, <2>4 DEF EventsTyped, IsSync
  <2>6. \A n : ~Binds(r, n)
    BY <1>6 DEF Binds
  <2>7. ServerTyped' /\ DOMAIN server.nodes' = DOMAIN server.nodes
    BY <1>1, <1>6 DEF ServerTyped
  <2>8. Answers(es)
    BY <1>1, <1>6, <2>1, <2>2, <2>5, <2>6, <2>7 DEF Answers, Serving, r
  <2>9. QED BY <2>8
<1>7. CASE /\ r.ask = "write" /\ bound' = bound
           /\ LET there == {r.id} \cap DOMAIN server.nodes
                  node == [f \in {"volume", "mute"} |-> IF f \in DOMAIN r.set THEN r.set[f] ELSE server.nodes[r.id][f]]
              IN /\ server' = [server EXCEPT !.nodes = [n \in DOMAIN @ |-> IF n = r.id THEN node ELSE @[n]]]
                 /\ B!Tell(r.id, IF there = {} THEN <<>> ELSE <<B!Props(r.id, node)>>)
  <2> DEFINE there == {r.id} \cap DOMAIN server.nodes
             node == [f \in {"volume", "mute"} |-> IF f \in DOMAIN r.set THEN r.set[f] ELSE server.nodes[r.id][f]]
             es == IF there = {} THEN <<>> ELSE <<B!Props(r.id, node)>>
  <2>1. there # {} => "volume" \in DOMAIN node /\ node.volume \in Int
    BY <1>1, <1>2, <1>7 DEF ServerTyped
  <2>2. /\ server' = [server EXCEPT !.nodes = [n \in DOMAIN @ |-> IF n = r.id THEN node ELSE @[n]]]
        /\ Told(r.id, es)
    BY <1>7 DEF B!Tell, Told
  <2>3. (r.id \in DOMAIN server.nodes) = (there # {})
    OBVIOUS
  <2> HIDE DEF node, r, there
  <2>4. /\ DOMAIN server' = DOMAIN server /\ server'.cards = server.cards /\ server'.links = server.links
        /\ server'.nodes = [n \in DOMAIN server.nodes |-> IF n = r.id THEN node ELSE server.nodes[n]]
    BY <1>1, <2>2 DEF ServerTyped
  <2>5. ServerTyped' /\ DOMAIN server.nodes' = DOMAIN server.nodes
    BY <1>1, <2>1, <2>3, <2>4 DEF ServerTyped
  <2>6. Harmless(es)
    <3>1. CASE there = {}
      BY <3>1, NothingHarmless
    <3>2. CASE there # {}
      <4> DEFINE e == B!Props(r.id, node)
      <4>1. e.on = "props" /\ e.node = node
        BY DEF B!Props
      <4> HIDE DEF e
      <4>2. Harmless(<<e>>)
        BY <2>1, <3>2, <4>1, OneHarmless
      <4>3. QED BY <3>2, <4>2 DEF e
    <3>3. QED BY <3>1, <3>2
  <2> HIDE DEF es
  <2>7. r.ask # "bind" /\ bound' = bound
    BY <1>7
  <2>8. QED BY <1>1, <2>2, <2>5, <2>6, <2>7, HarmlessAnswers DEF r
<1>8. CASE /\ r.ask = "target" /\ bound' = bound
           /\ LET pair == IF Kind[r.id] = "Playback" THEN <<r.id, r.to>> ELSE <<r.to, r.id>>
                  links == (server.links \ B!Touching(server.links, r.id)) \cup {pair}
              IN server' = [server EXCEPT !.links = links] /\ B!Tell(Registry, B!LinkEvents(server.links, links))
  <2> DEFINE pair == IF Kind[r.id] = "Playback" THEN <<r.id, r.to>> ELSE <<r.to, r.id>>
             links == (server.links \ B!Touching(server.links, r.id)) \cup {pair}
             es == B!LinkEvents(server.links, links)
  <2>1. server' = [server EXCEPT !.links = links] /\ Told(Registry, es)
    BY <1>8 DEF B!Tell, Told
  <2>2. IsFiniteSet(server.links) /\ IsFiniteSet(links)
    <3>1. IsFiniteSet(server.links \ B!Touching(server.links, r.id))
      BY <1>1, FS_Subset DEF ServerTyped
    <3>2. QED BY <1>1, <3>1, FS_AddElement DEF ServerTyped
  <2> HIDE DEF links, r
  <2>3. Harmless(es)
    BY <2>2, LinkEventsOf DEF Harmless
  <2>4. ServerTyped' /\ DOMAIN server.nodes' = DOMAIN server.nodes
    BY <1>1, <2>1, <2>2 DEF ServerTyped
  <2> HIDE DEF es
  <2>5. r.ask # "bind" /\ bound' = bound
    BY <1>8
  <2>6. QED BY <1>1, <2>1, <2>3, <2>4, <2>5, HarmlessAnswers DEF r
<1>9. CASE /\ r.ask = "default" /\ bound' = bound
           /\ server' = [server EXCEPT !.default[Kind[r.id]] = r.id]
           /\ B!Tell(Metadata, <<[on |-> "default", id |-> server'.default]>>)
  <2> DEFINE e == [on |-> "default", id |-> server'.default]
             es == <<e>>
  <2>1. Told(Metadata, es)
    BY <1>9 DEF B!Tell, Told
  <2>2. e.on = "default"
    OBVIOUS
  <2> HIDE DEF e, r
  <2>3. Harmless(es)
    BY <2>2, OneHarmless
  <2>4. ServerTyped' /\ DOMAIN server.nodes' = DOMAIN server.nodes
    BY <1>1, <1>9 DEF ServerTyped
  <2> HIDE DEF es
  <2>5. r.ask # "bind" /\ bound' = bound
    BY <1>9
  <2>6. QED BY <1>1, <2>1, <2>3, <2>4, <2>5, HarmlessAnswers DEF r
<1>10. CASE /\ r.ask = "profile" /\ r.id \in DOMAIN server.cards /\ bound' = bound
            /\ server' = [server EXCEPT !.cards[r.id] = r.to]
            /\ B!Tell(r.id, <<[on |-> "changed", id |-> r.id]>>)
  <2> DEFINE e == [on |-> "changed", id |-> r.id]
             es == <<e>>
  <2>1. Told(r.id, es)
    BY <1>10 DEF B!Tell, Told
  <2>2. e.on = "changed"
    OBVIOUS
  <2> HIDE DEF e, r
  <2>3. Harmless(es)
    BY <2>2, OneHarmless
  <2>4. ServerTyped' /\ DOMAIN server.nodes' = DOMAIN server.nodes
    BY <1>1, <1>10 DEF ServerTyped
  <2> HIDE DEF es
  <2>5. r.ask # "bind" /\ bound' = bound
    BY <1>10
  <2>6. QED BY <1>1, <2>1, <2>3, <2>4, <2>5, HarmlessAnswers DEF r
<1>11. CASE r.ask \in {"target", "default", "profile"} /\ UNCHANGED <<server, bound, told>>
  <2>1. told' = told \o <<>>
    BY <1>11, Joining DEF CompleteInv
  <2>2. Harmless(<<>>) /\ Told(Registry, <<>>)
    BY <1>11, <2>1, NothingHarmless DEF Told
  <2>3. ServerTyped' /\ DOMAIN server.nodes' = DOMAIN server.nodes
    BY <1>1, <1>11 DEF ServerTyped
  <2> HIDE DEF r
  <2>4. r.ask # "bind" /\ bound' = bound
    BY <1>11
  <2>5. QED BY <1>1, <2>2, <2>3, <2>4, HarmlessAnswers DEF r
<1>12. QED
  BY Zenon, <1>3, <1>4, <1>5, <1>6, <1>7, <1>8, <1>9, <1>10, <1>11 DEF B!Serve, B!pipewire

\* The world moves on its own.
LEMMA WorldAnswers ==
  ASSUME CompleteInv, Distinct, B!World, asked' = asked,
         NEW id, NEW es, Told(id, es), Numbered(es), EventsTyped(es, numbers), ServerTyped',
         (Registry \in bound) = (Registry \in bound'),
         \A i \in 1..Len(es) : es[i].on # "done",
         \A i \in 1..Len(es) : es[i].on = "global" =>
           id = Registry /\ (es[i].id \in B!Nodes => es[i].id \in DOMAIN server.nodes'),
         DOMAIN server.nodes \ DOMAIN server.nodes' # {} => id = Registry,
         \A n \in DOMAIN server.nodes \ DOMAIN server.nodes' :
           \E i \in 1..Len(es) : es[i].on = "remove" /\ es[i].id = n
  PROVE  \E e : Answers(e)
<1>1. UNCHANGED <<graph, awaited, numbers, ordered, window>>
  BY DEF B!World, B!mirror
<1>2. CASE id \in bound
  <2>1. told' = told \o es
    BY <1>2 DEF Told
  <2>2. Answers(es)
    BY <1>1, <1>2, <2>1 DEF Answers
  <2>3. QED BY <2>2
<1>3. CASE id \notin bound
  <2>1. told' = told \o <<>>
    BY <1>3, Joining DEF Told, CompleteInv
  <2>2. Numbered(<<>>) /\ Len(<<>>) = 0
    BY ShortQueues
  <2>3. EventsTyped(<<>>, numbers)
    BY <2>2 DEF EventsTyped
  <2>4. Registry \in bound => DOMAIN server.nodes \ DOMAIN server.nodes' = {}
    BY <1>3
  <2>5. Answers(<<>>)
    BY <1>1, <2>1, <2>2, <2>3, <2>4 DEF Answers
  <2>6. QED BY <2>5
<1>4. QED BY <1>2, <1>3

LEMMA PlugAnswers ==
  ASSUME CompleteInv, Distinct, B!Plug
  PROVE  \E es : Answers(es)
<1>1. PICK id \in B!Nodes \cup B!Cards :
        /\ server' = IF id \in B!Nodes THEN [server EXCEPT !.nodes = B!Put(@, id, [volume |-> MaxVolume, mute |-> FALSE])]
                     ELSE [server EXCEPT !.cards = B!Put(@, id, CHOOSE p \in Profiles : TRUE)]
        /\ B!Tell(Registry, <<[on |-> "global", id |-> id]>>)
  BY DEF B!Plug
<1>2. B!World /\ UNCHANGED <<asked, bound>> /\ ServerTyped
  BY DEF B!Plug, B!World, CompleteInv
<1> DEFINE e == [on |-> "global", id |-> id]
           es == <<e>>
<1>3. Told(Registry, es)
  BY <1>1 DEF B!Tell, Told
<1>4. Numbered(es) /\ Len(es) = 1 /\ es[1] = e
  BY ShortQueues
<1>5. e.on = "global" /\ e.id = id
  OBVIOUS
<1> HIDE DEF e, es
<1>6. \A i \in 1..Len(es) : es[i] = e
  BY <1>4
<1>7. EventsTyped(es, numbers)
  BY <1>5, <1>6 DEF EventsTyped
<1>8. CASE id \in B!Nodes
  <2> DEFINE node == [volume |-> MaxVolume, mute |-> FALSE]
  <2>1. "volume" \in DOMAIN node /\ node.volume \in Int
    BY DEF Distinct
  <2> HIDE DEF node
  <2>2. /\ DOMAIN server' = DOMAIN server /\ server'.cards = server.cards /\ server'.links = server.links
        /\ server'.nodes = B!Put(server.nodes, id, node)
    BY <1>1, <1>2, <1>8 DEF ServerTyped, node
  <2>3. /\ DOMAIN server'.nodes = DOMAIN server.nodes \cup {id}
        /\ \A n \in DOMAIN server'.nodes : server'.nodes[n] = IF n = id THEN node ELSE server.nodes[n]
    BY <2>2 DEF B!Put
  <2>4. IsFiniteSet(DOMAIN server'.nodes)
    BY <1>2, <2>3, FS_AddElement DEF ServerTyped
  <2>5. ServerTyped'
    BY <1>2, <1>8, <2>1, <2>2, <2>3, <2>4 DEF ServerTyped
  <2>6. QED BY <1>2, <1>3, <1>4, <1>5, <1>6, <1>7, <2>3, <2>5, WorldAnswers
<1>9. CASE id \notin B!Nodes
  <2> DEFINE p == CHOOSE p \in Profiles : TRUE
  <2> HIDE DEF p
  <2>1. /\ DOMAIN server' = DOMAIN server /\ server'.nodes = server.nodes /\ server'.links = server.links
        /\ server'.cards = B!Put(server.cards, id, p)
    BY <1>1, <1>2, <1>9 DEF ServerTyped, p
  <2>2. DOMAIN server'.cards = DOMAIN server.cards \cup {id}
    BY <2>1 DEF B!Put
  <2>3. IsFiniteSet(DOMAIN server'.cards)
    BY <1>2, <2>2, FS_AddElement DEF ServerTyped
  <2>4. ServerTyped'
    BY <1>1, <1>2, <1>9, <2>1, <2>2, <2>3 DEF ServerTyped
  <2>5. DOMAIN server'.nodes = DOMAIN server.nodes
    BY <2>1
  <2>6. QED BY <1>2, <1>3, <1>4, <1>5, <1>6, <1>7, <1>9, <2>4, <2>5, WorldAnswers
<1>10. QED BY <1>8, <1>9

LEMMA UnplugAnswers ==
  ASSUME CompleteInv, Distinct, B!Unplug
  PROVE  \E es : Answers(es)
<1>1. PICK id \in DOMAIN server.nodes \cup DOMAIN server.cards :
        LET links == server.links \ B!Touching(server.links, id) IN
        /\ server' = [server EXCEPT !.nodes = B!Without(@, {id}), !.cards = B!Without(@, {id}), !.links = links]
        /\ B!Tell(Registry, B!LinkEvents(server.links, links) \o <<[on |-> "remove", id |-> id]>>)
        /\ bound' = bound \ {id}
  BY Zenon DEF B!Unplug
<1>2. B!World /\ asked' = asked /\ ServerTyped
  BY DEF B!Unplug, B!World, CompleteInv
<1> DEFINE links == server.links \ B!Touching(server.links, id)
           s == B!LinkEvents(server.links, links)
           e == [on |-> "remove", id |-> id]
           t == <<e>>
           es == s \o t
<1>3. Told(Registry, es)
  BY <1>1 DEF B!Tell, Told
<1>4. server' = [server EXCEPT !.nodes = B!Without(@, {id}), !.cards = B!Without(@, {id}), !.links = links]
  BY <1>1
<1>5. IsFiniteSet(server.links) /\ IsFiniteSet(links)
  BY <1>2, FS_Subset DEF ServerTyped
<1>6. (Registry \in bound) = (Registry \in bound')
  <2>1. id # Registry
    BY <1>2 DEF ServerTyped, Distinct
  <2>2. QED BY <1>1, <2>1
<1> HIDE DEF links
<1>7. ServerTyped' /\ DOMAIN server'.nodes = DOMAIN server.nodes \ {id}
  <2>1. /\ DOMAIN server' = DOMAIN server /\ server'.links = links
        /\ server'.nodes = B!Without(server.nodes, {id}) /\ server'.cards = B!Without(server.cards, {id})
    BY <1>2, <1>4 DEF ServerTyped
  <2>2. /\ DOMAIN server'.nodes = DOMAIN server.nodes \ {id} /\ DOMAIN server'.cards = DOMAIN server.cards \ {id}
        /\ \A n \in DOMAIN server'.nodes : server'.nodes[n] = server.nodes[n]
    BY <2>1 DEF B!Without
  <2>3. IsFiniteSet(DOMAIN server'.nodes) /\ IsFiniteSet(DOMAIN server'.cards)
    BY <1>2, <2>2, FS_Subset DEF ServerTyped
  <2>4. QED BY <1>2, <1>5, <2>1, <2>2, <2>3 DEF ServerTyped
<1>8. Numbered(s) /\ EventsTyped(s, numbers) /\ \A i \in 1..Len(s) : s[i].on \in {"unlink", "link"}
  BY <1>5, LinkEventsOf
<1>9. Numbered(t) /\ Len(t) = 1 /\ t[1] = e
  BY ShortQueues
<1>10. e.on = "remove" /\ e.id = id
  OBVIOUS
<1> HIDE DEF e, t, s
<1>11. \A i \in 1..Len(t) : t[i] = e
  BY <1>9
<1>12. EventsTyped(t, numbers)
  BY <1>10, <1>11 DEF EventsTyped
<1>13. /\ Numbered(es) /\ EventsTyped(es, numbers)
       /\ \A i \in 1..Len(es) : \/ \E j \in 1..Len(s) : es[i] = s[j]
                                \/ \E j \in 1..Len(t) : es[i] = t[j]
  <2>1. Numbered(s) /\ Numbered(t)
    BY <1>8, <1>9
  <2> HIDE DEF links
  <2>2. /\ Numbered(s \o t)
        /\ EventsTyped(s, numbers) /\ EventsTyped(t, numbers) => EventsTyped(s \o t, numbers)
        /\ \A i \in 1..Len(s \o t) : \/ \E j \in 1..Len(s) : (s \o t)[i] = s[j]
                                     \/ \E j \in 1..Len(t) : (s \o t)[i] = t[j]
    BY <2>1, TypedMore
  <2>3. QED BY <1>8, <1>12, <2>2
<1>14. \A i \in 1..Len(es) : es[i].on \notin {"done", "global"}
  BY <1>8, <1>10, <1>11, <1>13
<1>15. \E i \in 1..Len(es) : es[i] = e
  <2>1. PICK n \in Nat : s = [i \in 1..n |-> s[i]]
    BY <1>8 DEF Numbered
  <2>2. t = [i \in 1..1 |-> t[i]]
    BY DEF t
  <2>3. Joins(es, s, n, t, 1)
    BY <2>1, <2>2, Joined
  <2>4. Len(es) = n + 1 /\ 1 \in 1..1 /\ n + 1 \in 1..n + 1 /\ es[n + 1] = t[1]
    BY <2>3 DEF Joins
  <2>5. QED BY <1>9, <2>4
<1> HIDE DEF es
<1>16. \A n \in DOMAIN server.nodes \ DOMAIN server'.nodes :
         \E i \in 1..Len(es) : es[i].on = "remove" /\ es[i].id = n
  BY <1>7, <1>10, <1>15
<1>17. QED BY <1>2, <1>3, <1>6, <1>7, <1>13, <1>14, <1>16, WorldAnswers

\* Somebody turns a knob.
LEMMA TurnAnswers ==
  ASSUME CompleteInv, Distinct, B!Turn \/ B!Switch
  PROVE  \E es : Answers(es)
<1>1. B!World /\ UNCHANGED <<asked, bound>> /\ ServerTyped
  BY DEF B!Turn, B!Switch, B!World, CompleteInv
<1>2. CASE B!Turn
  <2>1. PICK n \in DOMAIN server.nodes, v \in 0..MaxVolume :
          /\ server' = [server EXCEPT !.nodes[n].volume = v]
          /\ B!Tell(n, <<B!Props(n, server'.nodes[n])>>)
    BY <1>2 DEF B!Turn
  <2> DEFINE e == B!Props(n, server'.nodes[n])
             es == <<e>>
  <2>2. Told(n, es)
    BY <2>1 DEF B!Tell, Told
  <2>3. v \in Int
    BY DEF Distinct
  <2>4. /\ DOMAIN server' = DOMAIN server /\ server'.cards = server.cards /\ server'.links = server.links
        /\ DOMAIN server'.nodes = DOMAIN server.nodes
        /\ server'.nodes = [server.nodes EXCEPT ![n].volume = v]
    BY <1>1, <2>1 DEF ServerTyped
  <2>5. \A m \in DOMAIN server.nodes : "volume" \in DOMAIN server'.nodes[m] /\ server'.nodes[m].volume \in Int
    BY <1>1, <2>3, <2>4 DEF ServerTyped
  <2>6. ServerTyped'
    BY <1>1, <2>4, <2>5 DEF ServerTyped
  <2>7. e.on = "props" /\ e.node.volume \in Int
    BY <2>5 DEF B!Props
  <2> HIDE DEF e
  <2>8. Harmless(es)
    BY <2>7, OneHarmless
  <2> HIDE DEF es
  <2>9. QED BY <1>1, <2>2, <2>4, <2>6, <2>8, WorldAnswers DEF Harmless
<1>3. CASE B!Switch
  <2>1. PICK c \in DOMAIN server.cards, p \in Profiles :
          /\ server' = [server EXCEPT !.cards[c] = p]
          /\ B!Tell(c, <<[on |-> "changed", id |-> c]>>)
    BY <1>3 DEF B!Switch
  <2> DEFINE e == [on |-> "changed", id |-> c]
             es == <<e>>
  <2>2. Told(c, es)
    BY <2>1 DEF B!Tell, Told
  <2>3. ServerTyped' /\ DOMAIN server'.nodes = DOMAIN server.nodes
    BY <1>1, <2>1 DEF ServerTyped
  <2>4. e.on = "changed"
    OBVIOUS
  <2> HIDE DEF e
  <2>5. Harmless(es)
    BY <2>4, OneHarmless
  <2> HIDE DEF es
  <2>6. QED BY <1>1, <2>2, <2>3, <2>5, WorldAnswers DEF Harmless
<1>4. QED BY <1>2, <1>3

(***************************************************************************)
(* What the engine does on hearing an event: it may ask for more, and may  *)
(* learn the volume of the node, or that it is gone, which the event tells.*)
(***************************************************************************)
Hears(rs) ==
  /\ told # <<>> /\ told' = Tail(told) /\ asked' = asked \o rs /\ Numbered(rs)
  /\ \A i \in 1..Len(rs) : rs[i].ask \notin {"sync", "write"}
  /\ UNCHANGED <<server, bound, awaited, numbers, ordered, window>> /\ GraphTyped'
  /\ \A n \in DOMAIN graph.nodes' : n \in DOMAIN graph.nodes /\
       (graph.nodes'[n].volume = Nothing => graph.nodes[n].volume = Nothing /\ ~Tells(Head(told), n))
  /\ ~graph.complete' => ~graph.complete /\ ~IsDone(Head(told), awaited)

LEMMA HearingKeeps ==
  ASSUME CompleteInv, NEW rs, Hears(rs)
  PROVE  CompleteInv'
<1>1. /\ Numbered(told) /\ told # <<>> /\ told' = Tail(told) /\ Numbered(asked) /\ asked' = asked \o rs /\ Numbered(rs)
      /\ numbers \in Nat /\ UNCHANGED <<server, bound, awaited, numbers, ordered, window>>
      /\ EventsTyped(told, numbers) /\ RequestsTyped(asked, numbers) /\ Gone(told, DOMAIN server.nodes)
  BY DEF Hears, CompleteInv
<1>2. /\ Numbered(told') /\ EventsTyped(told', numbers')
      /\ \A i \in 1..Len(told') : \E j \in 1..Len(told) : told'[i] = told[j]
  BY <1>1, TypedLess
<1>3. Numbered(asked') /\ RequestsTyped(asked', numbers')
  <2>1. RequestsTyped(rs, numbers)
    BY DEF Hears, RequestsTyped
  <2>2. QED BY <1>1, <2>1, TypedMore
<1>4. Gone(told', DOMAIN server.nodes')
  BY <1>1, GoneLess
<1>5. ServerTyped' /\ GraphTyped' /\ ChooserTyped' /\ OrdersTyped(ordered') /\ Numbered(ordered') /\ numbers' \in Nat
  BY <1>1 DEF CompleteInv, Hears, ServerTyped, ChooserTyped
<1>6. Registry \notin bound' => DOMAIN graph'.nodes = {} /\ \A i \in 1..Len(told') : told'[i].on # "global"
  <2>1. Registry \notin bound => DOMAIN graph.nodes = {} /\ \A i \in 1..Len(told) : told[i].on # "global"
    BY DEF CompleteInv
  <2>2. \A n \in DOMAIN graph'.nodes : n \in DOMAIN graph.nodes
    BY DEF Hears
  <2>3. QED BY <1>1, <1>2, <2>1, <2>2
<1>7. WaitedFor'
  <2>1. ~graph'.complete => ~graph.complete /\ awaited = numbers /\ ~IsDone(Head(told), numbers)
    BY DEF CompleteInv, WaitedFor, Hears
  <2>2. SUFFICES ASSUME ~graph'.complete, NEW n \in DOMAIN graph'.nodes, graph'.nodes[n].volume = Nothing
                 PROVE  Coming(DOMAIN server.nodes', told', asked', n, numbers')
    BY <1>1, <2>1 DEF WaitedFor
  <2>3. n \in DOMAIN graph.nodes /\ graph.nodes[n].volume = Nothing /\ ~Tells(Head(told), n)
    BY <2>2 DEF Hears
  <2>4. Coming(DOMAIN server.nodes, told, asked, n, numbers)
    BY <2>1, <2>2, <2>3 DEF CompleteInv, WaitedFor
  <2>5. CASE ToldFirst(told, n, numbers)
    <3>1. ToldFirst(Tail(told), n, numbers)
      BY <1>1, <2>3, <2>5, ToldLess
    <3>2. QED BY <1>1, <3>1 DEF Coming
  <2>6. CASE n \in DOMAIN server.nodes /\ NotDone(told, numbers) /\ AskedFirst(asked, n, numbers)
    <3>1. NotDone(Tail(told), numbers)
      BY <1>1, <2>6, ToldLess
    <3>2. AskedFirst(asked \o rs, n, numbers)
      BY <1>1, <2>6, AskedMore
    <3>3. QED BY <1>1, <2>6, <3>1, <3>2 DEF Coming
  <2>7. QED BY <2>4, <2>5, <2>6 DEF Coming
<1>8. QED BY <1>1, <1>2, <1>3, <1>4, <1>5, <1>6, <1>7 DEF CompleteInv

\* A new number of a round trip is on its way nowhere.
LEMMA NewNumber ==
  ASSUME NEW E, Numbered(E), NEW R, Numbered(R), NEW k \in Nat, EventsTyped(E, k), RequestsTyped(R, k)
  PROVE  /\ EventsTyped(E, k + 1) /\ RequestsTyped(R, k + 1)
         /\ NotDone(E, k + 1) /\ \A i \in 1..Len(R) : ~IsSync(R[i], k + 1)
         /\ \A n : ToldFirst(E, n, k) => ToldFirst(E, n, k + 1)
         /\ \A n : AskedFirst(R, n, k) => AskedFirst(R, n, k + 1)
<1>1. \A i \in 0..k : i \in 0..k + 1 /\ i # k + 1
  OBVIOUS
<1>2. EventsTyped(E, k + 1) /\ NotDone(E, k + 1)
  BY <1>1 DEF EventsTyped, NotDone, IsDone
<1>3. RequestsTyped(R, k + 1) /\ \A i \in 1..Len(R) : ~IsSync(R[i], k + 1)
  BY <1>1 DEF RequestsTyped, IsSync
<1>4. Len(E) \in Nat /\ Len(R) \in Nat
  BY DEF Numbered
<1>5. ASSUME NEW n, ToldFirst(E, n, k) PROVE ToldFirst(E, n, k + 1)
  <2>1. PICK i \in 1..Len(E) : Tells(E[i], n)
    BY <1>5 DEF ToldFirst
  <2>2. \A j \in 1..i - 1 : j \in 1..Len(E)
    BY <1>4
  <2>3. QED BY <1>2, <2>1, <2>2 DEF ToldFirst, NotDone
<1>6. ASSUME NEW n, AskedFirst(R, n, k) PROVE AskedFirst(R, n, k + 1)
  <2>1. PICK i \in 1..Len(R) : Binds(R[i], n)
    BY <1>6 DEF AskedFirst
  <2>2. \A j \in 1..i - 1 : j \in 1..Len(R)
    BY <1>4
  <2>3. QED BY <1>3, <2>1, <2>2 DEF AskedFirst
<1>7. QED BY <1>2, <1>3, <1>5, <1>6

\* A node that appears is bound, and a new round trip begun after that.
LEMMA NodeKeeps ==
  ASSUME CompleteInv, B!OnNode
  PROVE  CompleteInv'
<1> DEFINE e == Head(told)
           b == [ask |-> "bind", id |-> e.id]
           r == [ask |-> "sync", id |-> numbers + 1]
           node == [volume |-> Nothing, mute |-> FALSE, card |-> Nothing]
<1>1. /\ told # <<>> /\ e.on = "global" /\ told' = Tail(told) /\ e.id \in B!Nodes
      /\ UNCHANGED <<server, bound, ordered, window>>
      /\ graph' = [graph EXCEPT !.nodes = B!Put(@, e.id, node)]
  <2>1. told # <<>> /\ e.on = "global" /\ told' = Tail(told) /\ e.id \in B!Nodes
    BY DEF B!OnNode, B!On, B!Id
  <2>2. UNCHANGED <<server, bound, ordered, window>>
    BY DEF B!OnNode, B!EngineOnly, B!pipewire
  <2>3. graph' = [graph EXCEPT !.nodes = B!Put(@, e.id, node)]
    BY DEF B!OnNode, B!Id
  <2>4. QED BY <2>1, <2>2, <2>3
<1>2. \/ graph.complete /\ asked' = asked \o <<b>> /\ UNCHANGED <<awaited, numbers>>
      \/ ~graph.complete /\ asked' = asked \o <<b, r>> /\ awaited' = numbers + 1 /\ numbers' = numbers + 1
  BY Zenon DEF B!OnNode, B!Ask, B!Id
<1>3. /\ Numbered(told) /\ Numbered(asked) /\ numbers \in Nat
      /\ EventsTyped(told, numbers) /\ RequestsTyped(asked, numbers) /\ Gone(told, DOMAIN server.nodes)
      /\ GraphTyped /\ numbers + 1 \in Nat
  BY DEF CompleteInv
<1>4. /\ DOMAIN graph'.nodes = DOMAIN graph.nodes \cup {e.id}
      /\ \A n \in DOMAIN graph'.nodes : graph'.nodes[n] = IF n = e.id THEN node ELSE graph.nodes[n]
      /\ DOMAIN graph' = DOMAIN graph /\ graph'.complete = graph.complete
  <2>1. /\ DOMAIN graph' = DOMAIN graph /\ graph'.complete = graph.complete
        /\ graph'.nodes = B!Put(graph.nodes, e.id, node)
    BY <1>1, <1>3 DEF GraphTyped
  <2> HIDE DEF node, e
  <2>2. QED BY <2>1 DEF B!Put
<1>5. {"volume", "mute", "card"} \subseteq DOMAIN node /\ node.volume = Nothing
  OBVIOUS
<1>6. b.ask = "bind" /\ b.id = e.id /\ r.ask = "sync" /\ r.id = numbers + 1
  OBVIOUS
<1>7. /\ Numbered(<<b>>) /\ Len(<<b>>) = 1 /\ <<b>>[1] = b
      /\ Numbered(<<b, r>>) /\ Len(<<b, r>>) = 2 /\ <<b, r>>[1] = b /\ <<b, r>>[2] = r
  BY ShortQueues
<1> HIDE DEF node, b, r
<1>8. GraphTyped'
  BY <1>3, <1>4, <1>5 DEF GraphTyped
<1>9. /\ Numbered(told') /\ EventsTyped(told', numbers)
      /\ \A i \in 1..Len(told') : \E j \in 1..Len(told) : told'[i] = told[j]
      /\ Registry \in bound
  BY <1>1, <1>3, TypedLess DEF CompleteInv
<1>10. Gone(told', DOMAIN server.nodes')
  BY <1>1, <1>3, GoneLess
<1>11. ServerTyped' /\ ChooserTyped' /\ OrdersTyped(ordered') /\ Numbered(ordered') /\ Registry \in bound'
  BY <1>1, <1>9 DEF CompleteInv, ServerTyped, ChooserTyped
<1>12. CASE graph.complete /\ asked' = asked \o <<b>> /\ UNCHANGED <<awaited, numbers>>
  <2>1. RequestsTyped(<<b>>, numbers)
    <3> DEFINE q == <<b>>
    <3>1. Len(q) = 1 /\ q[1] = b
      BY <1>7
    <3> HIDE DEF q
    <3>2. RequestsTyped(q, numbers)
      BY <1>6, <3>1 DEF RequestsTyped
    <3>3. QED BY <3>2 DEF q
  <2>2. Numbered(asked') /\ RequestsTyped(asked', numbers')
    BY <1>3, <1>7, <1>12, <2>1, TypedMore
  <2>3. WaitedFor'
    BY <1>4, <1>12 DEF WaitedFor
  <2>4. QED BY <1>3, <1>8, <1>9, <1>10, <1>11, <1>12, <2>2, <2>3 DEF CompleteInv
<1>13. CASE ~graph.complete /\ asked' = asked \o <<b, r>> /\ awaited' = numbers + 1 /\ numbers' = numbers + 1
  <2> DEFINE k == numbers + 1
             q == <<b, r>>
  <2>1. Numbered(q) /\ Len(q) = 2 /\ q[1] = b /\ q[2] = r
    BY <1>7
  <2>2. /\ EventsTyped(told, k) /\ RequestsTyped(asked, k) /\ NotDone(told, k)
        /\ \A i \in 1..Len(asked) : ~IsSync(asked[i], k)
        /\ \A n : ToldFirst(told, n, numbers) => ToldFirst(told, n, k)
        /\ \A n : AskedFirst(asked, n, numbers) => AskedFirst(asked, n, k)
    BY <1>3, NewNumber
  <2>3. numbers' = k /\ k \in Nat /\ k \in 0..k /\ r.id = k /\ asked' = asked \o q
    BY <1>3, <1>6, <1>13
  <2> HIDE DEF k, q
  <2>4. \A i \in 1..2 : i = 1 \/ i = 2
    OBVIOUS
  <2>5. RequestsTyped(q, k) /\ AskedFirst(q, e.id, k)
    <3>1. Binds(q[1], e.id) /\ 1 \in 1..Len(q) /\ \A j \in 1..1 - 1 : ~IsSync(q[j], k)
      BY <1>6, <2>1 DEF Binds
    <3>2. AskedFirst(q, e.id, k)
      BY <3>1 DEF AskedFirst
    <3>3. RequestsTyped(q, k)
      BY <1>6, <2>1, <2>3, <2>4 DEF RequestsTyped
    <3>4. QED BY <3>2, <3>3
  <2>6. Numbered(asked') /\ RequestsTyped(asked', k)
    BY <1>3, <2>1, <2>2, <2>3, <2>5, TypedMore
  <2>7. EventsTyped(told', k) /\ NotDone(told', k)
    BY <1>1, <1>3, <2>2, TypedLess, ToldLess
  <2>8. ASSUME NEW n \in DOMAIN graph'.nodes, graph'.nodes[n].volume = Nothing
        PROVE  Coming(DOMAIN server.nodes', told', asked', n, k)
    <3>1. CASE n = e.id
      <4>1. CASE n \in DOMAIN server.nodes
        <5>1. AskedFirst(asked \o q, n, k)
          BY <1>3, <2>1, <2>2, <2>5, <3>1, AskedMore
        <5>2. QED BY <1>1, <2>3, <2>7, <4>1, <5>1 DEF Coming
      <4>2. CASE n \notin DOMAIN server.nodes
        <5>1. PICK j \in 1..Len(told') : told'[j].on = "remove" /\ told'[j].id = n
          <6>1. e.on = "global" /\ e.id \in B!Nodes \ DOMAIN server.nodes
            BY <1>1, <3>1, <4>2
          <6>2. \E j \in 1..Len(Tail(told)) : Tail(told)[j].on = "remove" /\ Tail(told)[j].id = e.id
            BY <1>1, <1>3, <6>1, GoneLess
          <6>3. QED BY <1>1, <3>1, <6>2
        <5>2. Len(told') \in Nat
          BY <1>9 DEF Numbered
        <5>3. Tells(told'[j], n) /\ \A i \in 1..j - 1 : i \in 1..Len(told')
          BY <5>1, <5>2 DEF Tells
        <5>4. ToldFirst(told', n, k)
          BY <2>7, <5>3 DEF ToldFirst, NotDone
        <5>5. QED BY <5>4 DEF Coming
      <4>3. QED BY <4>1, <4>2
    <3>2. CASE n # e.id
      <4>1. n \in DOMAIN graph.nodes /\ graph.nodes[n].volume = Nothing
        BY <1>4, <2>8, <3>2
      <4>2. Coming(DOMAIN server.nodes, told, asked, n, numbers)
        BY <1>13, <4>1 DEF CompleteInv, WaitedFor
      <4>3. CASE ToldFirst(told, n, numbers)
        <5>1. ToldFirst(told, n, k) /\ ~Tells(e, n)
          BY <1>1, <2>2, <4>3 DEF Tells
        <5>2. ToldFirst(Tail(told), n, k)
          BY <1>1, <1>3, <5>1, ToldLess
        <5>3. QED BY <1>1, <5>2 DEF Coming
      <4>4. CASE n \in DOMAIN server.nodes /\ AskedFirst(asked, n, numbers)
        <5>1. AskedFirst(asked \o q, n, k)
          BY <1>3, <2>1, <2>2, <4>4, AskedMore
        <5>2. QED BY <1>1, <2>3, <2>7, <4>4, <5>1 DEF Coming
      <4>5. QED BY <4>2, <4>3, <4>4 DEF Coming
    <3>3. QED BY <3>1, <3>2
  <2>9. WaitedFor'
    BY <1>13, <2>3, <2>8 DEF WaitedFor, k
  <2>10. QED BY <1>8, <1>9, <1>10, <1>11, <2>3, <2>6, <2>7, <2>9 DEF CompleteInv
<1>14. QED BY <1>2, <1>12, <1>13

\* The other events.
LEMMA EventKeeps ==
  ASSUME CompleteInv, Nothing \notin Int,
         \/ B!OnDevice \/ B!OnMetadata \/ B!Done \/ B!Removed \/ B!Linked \/ B!Unlinked \/ B!Default
         \/ B!Info \/ B!Measured \/ B!Changed \/ B!Params
  PROVE  CompleteInv'
<1> DEFINE e == Head(told)
<1>1. /\ told # <<>> /\ told' = Tail(told)
      /\ UNCHANGED <<server, bound, awaited, numbers, ordered, window>>
  BY DEF B!OnDevice, B!OnMetadata, B!Done, B!Removed, B!Linked, B!Unlinked, B!Default, B!Info, B!Measured,
         B!Changed, B!Params, B!On, B!EngineOnly, B!pipewire, B!mirror
<1>2. GraphTyped /\ Numbered(asked) /\ EventsTyped(told, numbers) /\ Numbered(told)
  BY DEF CompleteInv
<1>3. ASSUME NEW r, r.ask \in {"bind", "enum"}, asked' = asked \o <<r>>, GraphTyped',
             DOMAIN graph'.nodes = DOMAIN graph.nodes,
             \A n \in DOMAIN graph.nodes : graph'.nodes[n].volume = graph.nodes[n].volume,
             graph'.complete = graph.complete, e.on \notin {"done", "props", "remove"}
      PROVE  CompleteInv'
  <2> DEFINE q == <<r>>
  <2>1. Numbered(q) /\ Len(q) = 1 /\ q[1] = r
    BY ShortQueues
  <2> HIDE DEF q
  <2>2. \A i \in 1..Len(q) : q[i].ask \notin {"sync", "write"}
    BY <1>3, <2>1
  <2>3. \A n : ~Tells(e, n) /\ ~IsDone(e, n)
    BY <1>3 DEF Tells, IsDone
  <2>4. asked' = asked \o q
    BY <1>3 DEF q
  <2> HIDE DEF e
  <2>5. Hears(q)
    BY <1>1, <1>3, <2>1, <2>2, <2>3, <2>4 DEF Hears, e
  <2>6. QED BY <2>5, HearingKeeps
<1>4. ASSUME asked' = asked, GraphTyped',
             \A n \in DOMAIN graph'.nodes : n \in DOMAIN graph.nodes /\
               (graph'.nodes[n].volume = Nothing => graph.nodes[n].volume = Nothing /\ ~Tells(e, n)),
             ~graph'.complete => ~graph.complete /\ ~IsDone(e, awaited)
      PROVE  CompleteInv'
  <2>1. asked' = asked \o <<>>
    BY <1>2, <1>4, Joining
  <2>2. Numbered(<<>>) /\ Len(<<>>) = 0
    BY ShortQueues
  <2>3. Hears(<<>>)
    BY <1>1, <1>4, <2>1, <2>2 DEF Hears
  <2>4. QED BY <2>3, HearingKeeps
<1>5. CASE B!OnDevice
  <2> DEFINE card == [profiles |-> {}, active |-> Nothing]
             r == [ask |-> "bind", id |-> e.id]
  <2>1. /\ e.on = "global" /\ asked' = asked \o <<r>>
        /\ graph' = [graph EXCEPT !.cards = B!Put(@, e.id, card)]
    BY <1>5 DEF B!OnDevice, B!On, B!Id, B!Ask
  <2>2. r.ask = "bind"
    OBVIOUS
  <2> HIDE DEF card, r
  <2>3. /\ DOMAIN graph' = DOMAIN graph /\ graph'.nodes = graph.nodes /\ graph'.complete = graph.complete
    BY <1>2, <2>1 DEF GraphTyped
  <2>4. GraphTyped'
    BY <1>2, <2>3 DEF GraphTyped
  <2>5. QED BY <1>3, <2>1, <2>2, <2>3, <2>4
<1>6. CASE B!OnMetadata
  <2> DEFINE r == [ask |-> "bind", id |-> e.id]
  <2>1. e.on = "global" /\ asked' = asked \o <<r>> /\ graph' = graph
    BY <1>6 DEF B!OnMetadata, B!On, B!Id, B!Ask
  <2>2. r.ask = "bind"
    OBVIOUS
  <2> HIDE DEF r
  <2>3. GraphTyped'
    BY <1>2, <2>1 DEF GraphTyped
  <2>4. QED BY <1>3, <2>1, <2>2, <2>3
<1>7. CASE B!Changed
  <2> DEFINE r == [ask |-> "enum", id |-> e.id]
  <2>1. e.on = "changed" /\ graph' = graph /\ (asked' = asked \o <<r>> \/ asked' = asked \o <<>>)
    BY <1>7 DEF B!Changed, B!On, B!Id, B!Ask, B!mirror
  <2>2. r.ask = "enum"
    OBVIOUS
  <2> HIDE DEF r
  <2>3. GraphTyped'
    BY <1>2, <2>1 DEF GraphTyped
  <2>4. asked \o <<>> = asked
    BY <1>2, Joining
  <2>5. \A n : ~Tells(e, n) /\ ~IsDone(e, n)
    BY <2>1 DEF Tells, IsDone
  <2>6. QED BY <1>3, <1>4, <2>1, <2>2, <2>3, <2>4, <2>5
<1>8. CASE B!Done
  <2>1. e.on = "done" /\ asked' = asked /\ graph' = [graph EXCEPT !.complete = @ \/ e.id = awaited]
    BY <1>8 DEF B!Done, B!On, B!Id
  <2>2. /\ DOMAIN graph' = DOMAIN graph /\ graph'.nodes = graph.nodes
        /\ graph'.complete = (graph.complete \/ e.id = awaited)
    BY <1>2, <2>1 DEF GraphTyped
  <2>3. GraphTyped'
    BY <1>2, <2>2 DEF GraphTyped
  <2>4. \A n : ~Tells(e, n)
    BY <2>1 DEF Tells
  <2>5. QED BY <1>4, <2>1, <2>2, <2>3, <2>4 DEF IsDone
<1>9. CASE B!Removed
  <2>1. /\ e.on = "remove" /\ asked' = asked
        /\ graph' = [graph EXCEPT !.nodes = B!Without(@, {e.id}), !.cards = B!Without(@, {e.id})]
    BY Zenon, <1>9 DEF B!Removed, B!On, B!Id
  <2> HIDE DEF e
  <2> DEFINE nodes == B!Without(graph.nodes, {e.id})
             cards == B!Without(graph.cards, {e.id})
  <2>2. nodes = [n \in DOMAIN graph.nodes \ {e.id} |-> graph.nodes[n]]
    BY DEF B!Without
  <2>3. graph' = [graph EXCEPT !.nodes = nodes, !.cards = cards]
    BY Zenon, <2>1
  <2> HIDE DEF nodes, cards
  <2>4. DOMAIN graph' = DOMAIN graph /\ graph'.nodes = nodes /\ graph'.complete = graph.complete
    BY <1>2, <2>3 DEF GraphTyped
  <2>5. /\ DOMAIN graph'.nodes = DOMAIN graph.nodes \ {e.id}
        /\ \A n \in DOMAIN graph'.nodes : graph'.nodes[n] = graph.nodes[n]
    BY <2>2, <2>4
  <2>6. GraphTyped'
    BY <1>2, <2>4, <2>5 DEF GraphTyped
  <2>7. \A n \in DOMAIN graph'.nodes : ~Tells(e, n)
    BY <2>1, <2>5 DEF Tells
  <2>8. ~IsDone(e, awaited)
    BY <2>1 DEF IsDone
  <2>9. QED BY <1>4, <2>1, <2>4, <2>5, <2>6, <2>7, <2>8
<1>10. CASE B!Linked \/ B!Unlinked \/ B!Default \/ B!Params
  <2>1. asked' = asked /\ e.on \in {"link", "unlink", "default", "params"}
    BY <1>10 DEF B!Linked, B!Unlinked, B!Default, B!Params, B!On
  <2>2. /\ DOMAIN graph' = DOMAIN graph /\ graph'.nodes = graph.nodes /\ graph'.complete = graph.complete
    <3>1. CASE B!Linked
      BY <1>2, <3>1 DEF B!Linked, GraphTyped
    <3>2. CASE B!Unlinked
      BY <1>2, <3>2 DEF B!Unlinked, GraphTyped
    <3>3. CASE B!Default
      BY <1>2, <3>3 DEF B!Default, GraphTyped
    <3>4. CASE B!Params
      <4>1. graph' = graph \/ graph' = [graph EXCEPT !.cards[e.id] = [profiles |-> Profiles, active |-> e.active]]
        BY <3>4 DEF B!Params, B!Id
      <4>2. QED BY <1>2, <4>1 DEF GraphTyped
    <3>5. QED BY <1>10, <3>1, <3>2, <3>3, <3>4
  <2>3. GraphTyped'
    BY <1>2, <2>2 DEF GraphTyped
  <2>4. \A n : ~Tells(e, n) /\ ~IsDone(e, n)
    BY <2>1 DEF Tells, IsDone
  <2>5. QED BY <1>4, <2>1, <2>2, <2>3, <2>4
<1>11. CASE B!Info
  <2>1. asked' = asked /\ e.on = "info"
    BY <1>11 DEF B!Info, B!On
  <2>2. graph' = graph \/ (e.id \in DOMAIN graph.nodes /\ graph' = [graph EXCEPT !.nodes[e.id].card = CardOf[e.id]])
    BY <1>11 DEF B!Info, B!Id
  <2>3. /\ DOMAIN graph' = DOMAIN graph /\ graph'.complete = graph.complete
        /\ DOMAIN graph'.nodes = DOMAIN graph.nodes
        /\ \A n \in DOMAIN graph.nodes : /\ DOMAIN graph'.nodes[n] = DOMAIN graph.nodes[n]
                                         /\ graph'.nodes[n].volume = graph.nodes[n].volume
    BY <1>2, <2>2 DEF GraphTyped
  <2>4. GraphTyped'
    BY <1>2, <2>3 DEF GraphTyped
  <2>5. \A n : ~Tells(e, n) /\ ~IsDone(e, n)
    BY <2>1 DEF Tells, IsDone
  <2>6. QED BY <1>4, <2>1, <2>3, <2>4, <2>5
<1>12. CASE B!Measured
  <2> DEFINE v == e.node.volume
             m == e.node.mute
  <2>1. asked' = asked /\ e.on = "props"
    BY <1>12 DEF B!Measured, B!On
  <2>2. v \in Int /\ v # Nothing
    <3>1. 1 \in 1..Len(told) /\ e = told[1]
      BY <1>1, <1>2, TypedLess
    <3>2. QED BY <1>2, <2>1, <3>1 DEF EventsTyped
  <2>3. IF e.id \notin DOMAIN graph.nodes THEN graph' = graph
        ELSE graph' = [graph EXCEPT !.nodes[e.id].volume = v, !.nodes[e.id].mute = m]
    BY Zenon, <1>12 DEF B!Measured, B!Id
  <2> HIDE DEF e, v, m
  <2>4. CASE e.id \in DOMAIN graph.nodes
    <3>1. /\ DOMAIN graph' = DOMAIN graph /\ graph'.complete = graph.complete
          /\ graph'.nodes = [graph.nodes EXCEPT ![e.id].volume = v, ![e.id].mute = m]
      BY <1>2, <2>3, <2>4 DEF GraphTyped
    <3>2. /\ DOMAIN graph'.nodes = DOMAIN graph.nodes
          /\ \A n \in DOMAIN graph.nodes : /\ DOMAIN graph'.nodes[n] = DOMAIN graph.nodes[n]
                                           /\ graph'.nodes[n].volume = IF n = e.id THEN v ELSE graph.nodes[n].volume
      BY <1>2, <2>4, <3>1 DEF GraphTyped
    <3>3. GraphTyped'
      BY <1>2, <2>2, <3>1, <3>2 DEF GraphTyped
    <3>4. \A n : n # e.id => ~Tells(e, n)
      BY DEF Tells
    <3>5. ~IsDone(e, awaited)
      BY <2>1 DEF IsDone
    <3>6. QED BY <1>4, <2>1, <2>2, <3>1, <3>2, <3>3, <3>4, <3>5
  <2>5. CASE e.id \notin DOMAIN graph.nodes
    <3>1. graph' = graph
      BY <2>3, <2>5
    <3>2. GraphTyped'
      BY <1>2, <3>1 DEF GraphTyped
    <3>3. \A n \in DOMAIN graph.nodes : ~Tells(e, n)
      BY <2>5 DEF Tells
    <3>4. ~IsDone(e, awaited)
      BY <2>1 DEF IsDone
    <3>5. QED BY <1>4, <2>1, <3>1, <3>2, <3>3, <3>4
  <2>6. QED BY <2>4, <2>5
<1>13. QED BY <1>5, <1>6, <1>7, <1>8, <1>9, <1>10, <1>11, <1>12

\* Orders are asked for, and given.
LEMMA OrdersKeep ==
  ASSUME CompleteInv, UNCHANGED <<server, bound, told, graph, awaited, numbers>>, ChooserTyped',
         Numbered(ordered'), OrdersTyped(ordered'),
         NEW rs, Numbered(rs), RequestsTyped(rs, numbers), asked' = asked \o rs
  PROVE  CompleteInv'
<1>1. Numbered(asked') /\ RequestsTyped(asked', numbers')
  BY TypedMore DEF CompleteInv
<1>2. ServerTyped' /\ GraphTyped'
  BY DEF CompleteInv, ServerTyped, GraphTyped
<1>3. WaitedFor'
  <2>1. SUFFICES ASSUME ~graph.complete, NEW n \in DOMAIN graph.nodes, graph.nodes[n].volume = Nothing
                 PROVE  Coming(DOMAIN server.nodes, told, asked', n, numbers)
    BY DEF CompleteInv, WaitedFor
  <2>2. Coming(DOMAIN server.nodes, told, asked, n, numbers)
    BY <2>1 DEF CompleteInv, WaitedFor
  <2>3. AskedFirst(asked, n, numbers) => AskedFirst(asked', n, numbers)
    BY AskedMore DEF CompleteInv
  <2>4. QED BY <2>2, <2>3 DEF Coming
<1>4. QED BY <1>1, <1>2, <1>3 DEF CompleteInv

LEMMA NoOrders == Numbered(<<>>) /\ RequestsTyped(<<>>, numbers)
<1>1. Numbered(<<>>) /\ Len(<<>>) = 0
  BY ShortQueues
<1>2. QED BY <1>1 DEF RequestsTyped

LEMMA OneOrder ==
  ASSUME NEW r, r.ask # "sync", r.ask = "write" /\ "volume" \in DOMAIN r.set => r.set.volume \in Int
  PROVE  Numbered(<<r>>) /\ RequestsTyped(<<r>>, numbers)
<1> DEFINE q == <<r>>
<1>1. Numbered(q) /\ Len(q) = 1 /\ q[1] = r
  BY ShortQueues
<1> HIDE DEF q
<1>2. RequestsTyped(q, numbers)
  BY <1>1 DEF RequestsTyped
<1>3. QED BY <1>1, <1>2 DEF q

LEMMA ExecuteKeeps ==
  ASSUME CompleteInv, Distinct, Nothing \notin Int, B!Execute
  PROVE  CompleteInv'
<1> DEFINE c == Head(ordered)
           node == graph.nodes[c.id]
           level == B!Min({MaxVolume, B!Max({1, node.volume + c.to}) - 1})
           loud == [volume |-> level]
           still == [mute |-> ~node.mute]
           profile == [ask |-> "profile", id |-> c.id, to |-> c.to]
           target == [ask |-> "target", id |-> c.id, to |-> c.to]
<1>1. /\ ordered # <<>> /\ ordered' = Tail(ordered)
      /\ UNCHANGED <<server, bound, told, graph, awaited, numbers, window>>
  BY DEF B!Execute, B!pipewire, B!mirror
<1>2. /\ Numbered(ordered') /\ OrdersTyped(ordered') /\ ChooserTyped' /\ GraphTyped
      /\ c.cmd = "volume" => c.to \in {0, 2}
  <2>1. Numbered(ordered) /\ OrdersTyped(ordered)
    BY DEF CompleteInv
  <2>2. 1 \in 1..Len(ordered) /\ c = ordered[1] /\ Numbered(ordered') /\ OrdersTyped(ordered')
    BY <1>1, <2>1, TypedLess
  <2>3. QED BY <1>1, <2>1, <2>2 DEF CompleteInv, OrdersTyped, ChooserTyped
<1>3. ASSUME NEW rs, Numbered(rs), RequestsTyped(rs, numbers), asked' = asked \o rs
      PROVE  CompleteInv'
  BY <1>1, <1>2, <1>3, OrdersKeep
<1>4. \/ asked' = asked \o <<>>
      \/ asked' = asked \o B!Write(c.id, still)
      \/ /\ c.cmd = "volume" /\ c.id \in DOMAIN graph.nodes /\ node.volume # Nothing
         /\ asked' = asked \o B!Write(c.id, loud)
      \/ asked' = asked \o <<profile>> \/ asked' = asked \o <<target>>
      \/ asked' = asked \o <<[ask |-> "default", id |-> c.id, to |-> c.id]>>
  BY Zenon DEF B!Execute, B!Ask
<1>5. CASE asked' = asked \o <<>>
  BY <1>3, <1>5, NoOrders
<1>6. CASE asked' = asked \o B!Write(c.id, still)
  <2> DEFINE r == [ask |-> "write", id |-> c.id, set |-> still,
                   via |-> IF node.card \in v6 THEN node.card ELSE Nothing]
  <2>1. r.ask = "write" /\ "volume" \notin DOMAIN r.set
    OBVIOUS
  <2>2. B!Write(c.id, still) = <<r>>
    BY Zenon DEF B!Write
  <2> HIDE DEF r
  <2>3. QED BY <1>3, <1>6, <2>1, <2>2, OneOrder
<1>7. CASE /\ c.cmd = "volume" /\ c.id \in DOMAIN graph.nodes /\ node.volume # Nothing
           /\ asked' = asked \o B!Write(c.id, loud)
  <2> DEFINE r == [ask |-> "write", id |-> c.id, set |-> loud,
                   via |-> IF node.card \in v6 THEN node.card ELSE Nothing]
  <2>1. B!Write(c.id, loud) = <<r>>
    BY Zenon DEF B!Write
  <2>2. node.volume + c.to \in Int
    <3>1. node.volume \in Int /\ c.to \in {0, 2}
      BY <1>2, <1>7 DEF GraphTyped
    <3> HIDE DEF node, c
    <3>2. QED BY <3>1
  <2>3. level \in Int
    <3> DEFINE i == node.volume + c.to
               j == B!Max({1, i})
    <3>1. i \in Int
      BY <2>2
    <3>2. level = B!Min({MaxVolume, j - 1}) /\ MaxVolume \in Int
      BY DEF Distinct
    <3> HIDE DEF level, i, j
    <3>3. j = Max({1, i})
      BY DEF j, B!Max, Max
    <3>4. j \in Int
      <4>1. Max({1, i}) = IF 1 <= i THEN i ELSE 1
        BY <3>1, MinMaxOfTwo
      <4>2. QED BY <3>1, <3>3, <4>1
    <3>5. level = Min({MaxVolume, j - 1})
      BY <3>2 DEF B!Min, Min
    <3>6. QED BY <3>2, <3>4, <3>5, MinMaxOfTwo
  <2> HIDE DEF level
  <2>4. r.ask = "write" /\ r.set.volume \in Int
    BY <2>3
  <2> HIDE DEF r
  <2>5. QED BY <1>3, <1>7, <2>1, <2>4, OneOrder
<1>8. CASE \/ asked' = asked \o <<profile>> \/ asked' = asked \o <<target>>
           \/ asked' = asked \o <<[ask |-> "default", id |-> c.id, to |-> c.id]>>
  <2> DEFINE default == [ask |-> "default", id |-> c.id, to |-> c.id]
  <2>1. profile.ask = "profile" /\ target.ask = "target" /\ default.ask = "default"
    OBVIOUS
  <2> HIDE DEF profile, target, default
  <2>2. asked' = asked \o <<profile>> \/ asked' = asked \o <<target>> \/ asked' = asked \o <<default>>
    BY <1>8 DEF default
  <2>3. QED BY <1>3, <2>1, <2>2, OneOrder
<1> HIDE DEF c, node, loud, still, profile, target
<1>9. QED BY <1>4, <1>5, <1>6, <1>7, <1>8

\* What is shown keeps the chooser.
LEMMA ChooserShown ==
  ASSUME NEW u, "chooser" \in DOMAIN u, B!Show(u)
  PROVE  "chooser" \in DOMAIN window' /\ window'.chooser = u.chooser
BY DEF B!Show

\* The picker gives orders of volumes by steps only.
LEMMA PickerKeeps ==
  ASSUME CompleteInv,
         B!Frame \/ B!EditQuery \/ B!Move \/ B!Enter \/ B!AskProfile \/ B!Adjust \/ B!Choose
  PROVE  CompleteInv'
<1>1. UNCHANGED <<server, bound, asked, told, graph, awaited, numbers>>
  BY DEF B!Frame, B!EditQuery, B!Move, B!Enter, B!AskProfile, B!Adjust, B!Choose, B!Key, B!pipewire, B!wire, B!mirror
<1>2. ChooserTyped /\ Numbered(ordered) /\ OrdersTyped(ordered) /\ Numbered(asked)
  BY DEF CompleteInv
<1>3. ASSUME ChooserTyped', ordered' = ordered \/ \E c : ordered' = Append(ordered, c) /\ (c.cmd = "volume" => c.to \in {0, 2})
      PROVE  CompleteInv'
  <2>1. Numbered(ordered') /\ OrdersTyped(ordered')
    <3>1. CASE ordered' = ordered
      BY <1>2, <3>1
    <3>2. CASE \E c : ordered' = Append(ordered, c) /\ (c.cmd = "volume" => c.to \in {0, 2})
      <4>1. PICK c : ordered' = Append(ordered, c) /\ (c.cmd = "volume" => c.to \in {0, 2})
        BY <3>2
      <4> DEFINE q == <<c>>
      <4>2. ordered' = ordered \o q
        BY <1>2, <4>1, Joining
      <4>3. Numbered(q) /\ Len(q) = 1 /\ q[1] = c
        BY ShortQueues
      <4> HIDE DEF q
      <4>4. OrdersTyped(q)
        BY <4>1, <4>3 DEF OrdersTyped
      <4>5. QED BY <1>2, <4>2, <4>3, <4>4, TypedMore
    <3>3. QED BY <1>3, <3>1, <3>2
  <2>2. asked' = asked \o <<>>
    BY <1>1, <1>2, Joining
  <2>3. Numbered(<<>>) /\ RequestsTyped(<<>>, numbers)
    BY NoOrders
  <2>4. QED BY <1>1, <1>3, <2>1, <2>2, <2>3, OrdersKeep
<1>4. ASSUME NEW kind \in {"move", "profile"}, NEW id, NEW options, NEW now,
             B!Show([window EXCEPT !.chooser = B!Chooser(kind, id, options, now)])
      PROVE  ChooserTyped'
  <2> DEFINE ch == B!Chooser(kind, id, options, now)
  <2>1. ch = Nothing \/ ({"kind", "sel"} \subseteq DOMAIN ch /\ ch.kind = kind)
    BY DEF B!Chooser
  <2> HIDE DEF ch
  <2> DEFINE u == [window EXCEPT !.chooser = ch]
  <2>2. "chooser" \in DOMAIN u /\ u.chooser = ch
    BY <1>2 DEF ChooserTyped
  <2>3. B!Show(u)
    BY <1>4 DEF ch
  <2> HIDE DEF u
  <2>4. "chooser" \in DOMAIN window' /\ window'.chooser = ch
    BY <2>2, <2>3, ChooserShown
  <2>5. QED BY <2>1, <2>4 DEF ChooserTyped
<1>5. CASE B!Frame
  <2>1. /\ ordered' = ordered /\ "chooser" \in DOMAIN window' /\ window'.chooser = window.chooser
    BY <1>2, <1>5 DEF B!Frame, ChooserTyped
  <2>2. QED BY <1>2, <1>3, <2>1 DEF ChooserTyped
<1>6. CASE B!EditQuery
  <2>1. PICK text : ordered' = ordered /\ B!Show([window EXCEPT !.query = text])
    BY <1>6 DEF B!EditQuery
  <2> DEFINE u == [window EXCEPT !.query = text]
  <2>2. "chooser" \in DOMAIN u /\ u.chooser = window.chooser
    BY <1>2 DEF ChooserTyped
  <2> HIDE DEF u
  <2>3. "chooser" \in DOMAIN window' /\ window'.chooser = window.chooser
    BY <2>1, <2>2, ChooserShown DEF u
  <2>4. QED BY <1>2, <1>3, <2>1, <2>3 DEF ChooserTyped
<1>7. CASE B!Move
  <2>1. /\ ordered' = ordered /\ "chooser" \in DOMAIN window' /\ window'.chooser = window.chooser
    BY <1>2, <1>7 DEF B!Move, B!Show, ChooserTyped
  <2>2. QED BY <1>2, <1>3, <2>1 DEF ChooserTyped
<1>8. CASE B!Enter
  <2>1. CASE B!Show(window) /\ B!Send([cmd |-> "default", id |-> B!Selected])
    <3> DEFINE c == [cmd |-> "default", id |-> B!Selected]
    <3>1. ordered' = Append(ordered, c) /\ c.cmd = "default"
      BY <2>1 DEF B!Send
    <3>2. "chooser" \in DOMAIN window' /\ window'.chooser = window.chooser
      BY <1>2, <2>1 DEF B!Show, ChooserTyped
    <3>3. ChooserTyped'
      BY <1>2, <3>2 DEF ChooserTyped
    <3> HIDE DEF c
    <3>4. QED BY <1>3, <3>1, <3>3
  <2>2. CASE /\ B!Show([window EXCEPT !.chooser = B!Chooser("move", B!Selected,
                   B!SetToSeq({n \in DOMAIN window.audio.nodes : Kind[n] = B!DeviceFor(B!Selected)}),
                   B!Target(window.audio, B!Selected))])
             /\ ordered' = ordered
    BY <1>3, <1>4, <2>2
  <2>3. QED BY Zenon, <1>8, <2>1, <2>2 DEF B!Enter
<1>9. CASE B!AskProfile
  <2>1. /\ ordered' = ordered
        /\ LET card == window.audio.nodes[B!Selected].card IN
           B!Show([window EXCEPT !.chooser =
             B!Chooser("profile", card, B!SetToSeq(window.audio.cards[card].profiles), window.audio.cards[card].active)])
    BY Zenon, <1>9 DEF B!AskProfile
  <2>2. QED BY <1>3, <1>4, <2>1
<1>10. CASE B!Adjust
  <2>1. PICK c \in [cmd : {"volume"}, id : {B!Selected}, to : {0, 2}] \cup [cmd : {"mute"}, id : {B!Selected}] :
          ordered' = Append(ordered, c)
    BY <1>10 DEF B!Adjust, B!Send
  <2>2. c.cmd = "volume" => c.to \in {0, 2}
    OBVIOUS
  <2>3. "chooser" \in DOMAIN window' /\ window'.chooser = window.chooser
    BY <1>2, <1>10 DEF B!Adjust, B!Show, ChooserTyped
  <2>4. ChooserTyped'
    BY <1>2, <2>3 DEF ChooserTyped
  <2>5. QED BY <1>3, <2>1, <2>2, <2>4
<1>11. CASE B!Choose
  <2> DEFINE ch == window.chooser
  <2>1. {"kind", "sel"} \subseteq DOMAIN ch /\ ch.kind \in {"move", "profile"} /\ "chooser" \in DOMAIN window
    BY <1>2, <1>11 DEF B!Choose, ChooserTyped
  <2>2. CASE ordered' = ordered /\ \E i : B!Show([window EXCEPT !.chooser.sel = i])
    <3>1. PICK i : B!Show([window EXCEPT !.chooser.sel = i])
      BY <2>2
    <3> DEFINE u == [window EXCEPT !.chooser.sel = i]
    <3>2. "chooser" \in DOMAIN u /\ u.chooser = [ch EXCEPT !.sel = i]
      BY <2>1
    <3> HIDE DEF u
    <3>3. "chooser" \in DOMAIN window' /\ window'.chooser = [ch EXCEPT !.sel = i]
      BY <3>1, <3>2, ChooserShown DEF u
    <3>4. ChooserTyped'
      BY <2>1, <3>3 DEF ChooserTyped
    <3>5. QED BY <1>3, <2>2, <3>4
  <2>3. CASE B!Show([window EXCEPT !.chooser = Nothing])
    <3>1. "chooser" \in DOMAIN window' /\ window'.chooser = Nothing
      BY <2>1, <2>3 DEF B!Show
    <3>2. ChooserTyped'
      BY <3>1 DEF ChooserTyped
    <3>3. ordered' = ordered \/ \E c : ordered' = Append(ordered, c) /\ c.cmd = ch.kind
      <4> DEFINE c == [cmd |-> ch.kind, id |-> ch.id, to |-> ch.options[ch.sel]]
      <4>1. ordered' = ordered \/ ordered' = Append(ordered, c)
        BY <1>11 DEF B!Choose, B!Send
      <4>2. c.cmd = ch.kind
        OBVIOUS
      <4> HIDE DEF c
      <4>3. QED BY <4>1, <4>2
    <3>4. QED BY <1>3, <2>1, <3>2, <3>3
  <2>4. QED BY Zenon, <1>11, <2>2, <2>3 DEF B!Choose
<1>12. QED BY <1>5, <1>6, <1>7, <1>8, <1>9, <1>10, <1>11

LEMMA CompleteInit ==
  ASSUME B!Init, Distinct, \A there \in Starts : IsFiniteSet(there)
  PROVE  CompleteInv
<1> DEFINE first == [ask |-> "registry"]
           second == [ask |-> "sync", id |-> 1]
           node == [volume |-> MaxVolume, mute |-> FALSE]
           card == CHOOSE p \in Profiles : TRUE
<1>1. /\ told = <<>> /\ asked = <<first, second>> /\ ordered = <<>> /\ numbers = 1 /\ awaited = 1
      /\ DOMAIN graph.nodes = {} /\ graph.complete = FALSE
      /\ {"nodes", "cards", "links", "default", "complete"} \subseteq DOMAIN graph
      /\ "chooser" \in DOMAIN window /\ window.chooser = Nothing
  BY DEF B!Init
<1>2. /\ Numbered(told) /\ Len(told) = 0 /\ Numbered(ordered) /\ Len(ordered) = 0
      /\ Numbered(asked) /\ Len(asked) = 2 /\ asked[1] = first /\ asked[2] = second
  BY <1>1, ShortQueues
<1>3. first.ask = "registry" /\ second.ask = "sync" /\ second.id = 1
  OBVIOUS
<1>4. ServerTyped
  <2>1. PICK there \in Starts :
          /\ {"nodes", "cards", "links", "default"} \subseteq DOMAIN server
          /\ server.nodes = [n \in B!Nodes \cap there |-> node]
          /\ server.cards = [c \in B!Cards \cap there |-> card]
          /\ server.links = {}
    BY DEF B!Init
  <2>2. IsFiniteSet(B!Nodes \cap there) /\ IsFiniteSet(B!Cards \cap there) /\ IsFiniteSet({})
    BY FS_Subset, FS_EmptySet
  <2>3. "volume" \in DOMAIN node /\ node.volume \in Int
    BY DEF Distinct
  <2> HIDE DEF node, card
  <2>4. QED BY <2>1, <2>2, <2>3 DEF ServerTyped
<1> HIDE DEF first, second
<1>5. \A i \in 1..2 : i = 1 \/ i = 2
  OBVIOUS
<1>6. RequestsTyped(asked, numbers)
  BY <1>1, <1>2, <1>3, <1>5 DEF RequestsTyped
<1>7. GraphTyped /\ ChooserTyped
  BY <1>1 DEF GraphTyped, ChooserTyped
<1>8. EventsTyped(told, numbers) /\ OrdersTyped(ordered) /\ Gone(told, DOMAIN server.nodes)
  BY <1>2 DEF EventsTyped, OrdersTyped, Gone
<1>9. WaitedFor
  BY <1>1 DEF WaitedFor
<1>10. QED BY <1>1, <1>2, <1>4, <1>6, <1>7, <1>8, <1>9 DEF CompleteInv

LEMMA CompleteStep ==
  ASSUME CompleteInv, Distinct, Nothing \notin Int, [B!Next]_(B!vars)
  PROVE  CompleteInv'
<1>1. CASE B!Serve \/ B!Plug \/ B!Unplug \/ B!Turn \/ B!Switch
  BY <1>1, ServeAnswers, PlugAnswers, UnplugAnswers, TurnAnswers, AnswersKeep
<1>2. CASE B!Engine
  <2>1. CASE B!OnNode
    BY <2>1, NodeKeeps
  <2>2. CASE B!Execute
    BY <2>2, ExecuteKeeps
  <2>3. CASE \/ B!OnDevice \/ B!OnMetadata \/ B!Done \/ B!Removed \/ B!Linked \/ B!Unlinked \/ B!Default
             \/ B!Info \/ B!Measured \/ B!Changed \/ B!Params
    BY <2>3, EventKeeps
  <2>4. QED BY <1>2, <2>1, <2>2, <2>3 DEF B!Engine
<1>3. CASE B!Frame \/ B!EditQuery \/ B!Move \/ B!Enter \/ B!AskProfile \/ B!Adjust \/ B!Choose
  BY <1>3, PickerKeeps
<1>4. CASE UNCHANGED B!vars
  <2>1. UNCHANGED <<server, bound, asked, told, graph, awaited, numbers, ordered, window>>
    BY <1>4 DEF B!vars, B!pipewire, B!wire, B!mirror
  <2>2. asked' = asked \o <<>>
    BY <2>1, Joining DEF CompleteInv
  <2>3. ChooserTyped' /\ Numbered(ordered') /\ OrdersTyped(ordered')
    BY <2>1 DEF CompleteInv, ChooserTyped
  <2>4. QED BY <2>1, <2>2, <2>3, NoOrders, OrdersKeep
<1>5. QED BY <1>1, <1>2, <1>3, <1>4 DEF B!Next

\* Each step keeps it so.
THEOREM CompleteInvariance ==
  ASSUME Distinct, Nothing \notin Int, \A there \in Starts : IsFiniteSet(there)
  PROVE  ToolsSpec => [](tool = "bragi" => CompleteInv)
<1>1. ToolsInit => (tool = "bragi" => CompleteInv)
  BY CompleteInit DEF ToolsInit
<1>2. (tool = "bragi" => CompleteInv) /\ [ToolsNext]_run => (tool = "bragi" => CompleteInv)'
  BY ChosenSteps, CompleteStep
<1>3. QED BY <1>1, <1>2, PTL DEF ToolsSpec

(***************************************************************************)
(* What bragi takes for complete has the volume of every node in it,       *)
(* whatever appeared while it waited and whatever went.                    *)
(***************************************************************************)
THEOREM CompleteIsWholeCorrect ==
  ASSUME Distinct, Nothing \notin Int, \A there \in Starts : IsFiniteSet(there)
  PROVE  ToolsSpec => CompleteIsWhole
<1>1. (tool = "bragi" => CompleteInv) /\ [ToolsNext]_run => [tool = "bragi" => B!CompleteIsWhole]_run
  <2>1. SUFFICES ASSUME CompleteInv, [B!Next]_(B!vars), ~graph.complete, graph'.complete,
                        NEW n \in DOMAIN graph.nodes
                 PROVE  graph.nodes[n].volume # Nothing
    BY ChosenSteps DEF B!CompleteIsWhole
  <2>2. GraphTyped /\ Numbered(told) /\ awaited = numbers
    BY <2>1 DEF CompleteInv, WaitedFor
  <2>3. told # <<>> /\ IsDone(Head(told), awaited)
    <3>1. graph' # graph
      BY <2>1
    <3>2. CASE B!Done
      BY <2>1, <2>2, <3>2 DEF B!Done, B!On, B!Id, GraphTyped, IsDone
    <3>3. CASE B!Serve \/ B!Plug \/ B!Unplug \/ B!Turn \/ B!Switch
      <4>1. UNCHANGED B!mirror
        BY Zenon, <3>3 DEF B!Serve, B!Plug, B!Unplug, B!Turn, B!Switch, B!World
      <4>2. QED BY <3>1, <4>1 DEF B!mirror
    <3>4. CASE B!OnMetadata \/ B!Changed \/ B!Execute
      BY <3>1, <3>4 DEF B!OnMetadata, B!Changed, B!Execute, B!mirror
    <3>5. CASE B!OnNode
      <4>1. graph'.complete = graph.complete
        BY <2>2, <3>5 DEF B!OnNode, GraphTyped
      <4>2. QED BY <2>1, <4>1
    <3>6. CASE B!OnDevice
      <4>1. graph'.complete = graph.complete
        BY <2>2, <3>6 DEF B!OnDevice, GraphTyped
      <4>2. QED BY <2>1, <4>1
    <3>7. CASE B!Removed
      <4> DEFINE nodes == B!Without(graph.nodes, {B!Id})
                 cards == B!Without(graph.cards, {B!Id})
      <4>1. graph' = [graph EXCEPT !.nodes = nodes, !.cards = cards]
        BY Zenon, <3>7 DEF B!Removed
      <4> HIDE DEF nodes, cards
      <4>2. graph'.complete = graph.complete
        BY <2>2, <4>1 DEF GraphTyped
      <4>3. QED BY <2>1, <4>2
    <3>8. CASE B!Linked \/ B!Unlinked \/ B!Default
      <4>1. graph'.complete = graph.complete
        BY <2>2, <3>8 DEF B!Linked, B!Unlinked, B!Default, GraphTyped
      <4>2. QED BY <2>1, <4>1
    <3>9. CASE B!Info
      <4>1. graph'.complete = graph.complete
        BY <2>2, <3>9 DEF B!Info, GraphTyped
      <4>2. QED BY <2>1, <4>1
    <3>10. CASE B!Measured
      <4> DEFINE i == B!Id
                 v == Head(told).node.volume
                 m == Head(told).node.mute
      <4>1. graph' = graph \/ graph' = [graph EXCEPT !.nodes[i].volume = v, !.nodes[i].mute = m]
        BY Zenon, <3>10 DEF B!Measured
      <4> HIDE DEF i, v, m
      <4>2. graph'.complete = graph.complete
        BY <2>2, <4>1 DEF GraphTyped
      <4>3. QED BY <2>1, <4>2
    <3>11. CASE B!Params
      <4>1. graph'.complete = graph.complete
        BY <2>2, <3>11 DEF B!Params, GraphTyped
      <4>2. QED BY <2>1, <4>1
    <3>12. CASE B!Frame \/ B!EditQuery \/ B!Move \/ B!Enter \/ B!AskProfile \/ B!Adjust \/ B!Choose
      BY <3>1, <3>12 DEF B!Frame, B!EditQuery, B!Move, B!Enter, B!AskProfile, B!Adjust, B!Choose, B!Key, B!mirror
    <3>13. CASE UNCHANGED B!vars
      BY <3>1, <3>13 DEF B!vars, B!mirror
    <3>14. QED BY <2>1, <3>2, <3>3, <3>4, <3>5, <3>6, <3>7, <3>8, <3>9, <3>10, <3>11, <3>12, <3>13 DEF B!Next, B!Engine
  <2>4. SUFFICES ASSUME graph.nodes[n].volume = Nothing PROVE FALSE
    OBVIOUS
  <2>5. Coming(DOMAIN server.nodes, told, asked, n, numbers)
    BY <2>1, <2>4 DEF CompleteInv, WaitedFor
  <2>6. ~Tells(Head(told), n)
    BY <2>3 DEF IsDone, Tells
  <2>7. QED BY <2>2, <2>3, <2>5, <2>6, ToldLess DEF Coming
<1>2. QED BY <1>1, CompleteInvariance, PTL DEF ToolsSpec, CompleteIsWhole

-----------------------------------------------------------------------------
(***************************************************************************)
(* What the last event about a thing says is what PipeWire has. Whether a  *)
(* node or card is there, a link, the default, and the values of a node or *)
(* card are each told by events of their own.                              *)
(***************************************************************************)
Concerns(e, what, id) ==
  \/ what = "there" /\ e.on \in {"global", "remove"} /\ e.id = id
  \/ what = "link" /\ e.on \in {"link", "unlink"} /\ e.id = id
  \/ what = "default" /\ e.on = "default"
  \/ what = "value" /\ e.on \in {"global", "remove", "props", "params", "changed"} /\ e.id = id

Silent(E, what, id) == \A i \in 1..Len(E) : ~Concerns(E[i], what, id)
LastAt(E, what, id, i) == Concerns(E[i], what, id) /\ \A j \in i + 1..Len(E) : ~Concerns(E[j], what, id)

\* Of more events, the last is the last of those that are new, or they do not say.
LEMMA LastMore ==
  ASSUME NEW s, Numbered(s), NEW t, Numbered(t), NEW what, NEW id
  PROVE  /\ Silent(s \o t, what, id) => Silent(s, what, id) /\ Silent(t, what, id)
         /\ \A i \in 1..Len(s \o t) : LastAt(s \o t, what, id, i) =>
              \/ \E j \in 1..Len(t) : LastAt(t, what, id, j) /\ (s \o t)[i] = t[j]
              \/ Silent(t, what, id) /\ i \in 1..Len(s) /\ LastAt(s, what, id, i) /\ (s \o t)[i] = s[i]
<1>1. PICK a \in Nat : s = [i \in 1..a |-> s[i]]
  BY DEF Numbered
<1>2. PICK b \in Nat : t = [i \in 1..b |-> t[i]]
  BY DEF Numbered
<1> DEFINE u == s \o t
<1> HIDE DEF u
<1>3. /\ Len(s) = a /\ Len(t) = b /\ Len(u) = a + b
      /\ \A i \in 1..a : u[i] = s[i]
      /\ \A i \in 1..b : a + i \in 1..a + b /\ u[a + i] = t[i]
      /\ \A i \in 1..a + b : \/ i \in 1..a /\ u[i] = s[i]
                             \/ \E j \in 1..b : i = a + j /\ u[i] = t[j]
  <2>1. Joins(u, s, a, t, b)
    BY <1>1, <1>2, Joined DEF u
  <2>2. QED BY <2>1 DEF Joins
<1>4. ASSUME Silent(u, what, id) PROVE Silent(s, what, id) /\ Silent(t, what, id)
  <2>1. \A i \in 1..a : i \in 1..a + b
    OBVIOUS
  <2>2. QED BY <1>3, <1>4, <2>1 DEF Silent
<1>5. ASSUME NEW i \in 1..a + b, LastAt(u, what, id, i)
      PROVE  \/ \E j \in 1..b : LastAt(t, what, id, j) /\ u[i] = t[j]
             \/ Silent(t, what, id) /\ i \in 1..a /\ LastAt(s, what, id, i) /\ u[i] = s[i]
  <2>1. Concerns(u[i], what, id) /\ \A j \in i + 1..a + b : ~Concerns(u[j], what, id)
    BY <1>3, <1>5 DEF LastAt
  <2>2. CASE i \in 1..a /\ u[i] = s[i]
    <3>1. \A j \in 1..b : a + j \in i + 1..a + b
      BY <2>2
    <3>2. \A j \in i + 1..a : j \in 1..a /\ j \in i + 1..a + b
      BY <2>2
    <3>3. Silent(t, what, id)
      BY <1>3, <2>1, <3>1 DEF Silent
    <3>4. LastAt(s, what, id, i)
      BY <1>3, <2>1, <2>2, <3>2 DEF LastAt
    <3>5. QED BY <2>2, <3>3, <3>4
  <2>3. CASE \E j \in 1..b : i = a + j /\ u[i] = t[j]
    <3>1. PICK j \in 1..b : i = a + j /\ u[i] = t[j]
      BY <2>3
    <3>2. \A l \in j + 1..b : l \in 1..b /\ a + l \in i + 1..a + b
      BY <3>1
    <3>3. LastAt(t, what, id, j)
      BY <1>3, <2>1, <3>1, <3>2 DEF LastAt
    <3>4. QED BY <3>1, <3>3
  <2>4. QED BY <1>3, <2>2, <2>3
<1>6. QED BY <1>3, <1>4, <1>5 DEF u

\* Of fewer, it is the same, unless the first was the last.
LEMMA LastLess ==
  ASSUME NEW s, Numbered(s), s # <<>>, NEW what, NEW id
  PROVE  /\ 1 \in 1..Len(s) /\ Head(s) = s[1]
         /\ Silent(Tail(s), what, id) => Silent(s, what, id) \/ LastAt(s, what, id, 1)
         /\ \A i \in 1..Len(Tail(s)) : LastAt(Tail(s), what, id, i) =>
              i + 1 \in 1..Len(s) /\ LastAt(s, what, id, i + 1) /\ Tail(s)[i] = s[i + 1]
<1>1. PICK a \in Nat : s = [i \in 1..a |-> s[i]]
  BY DEF Numbered
<1> DEFINE t == Tail(s)
<1>2. /\ a - 1 \in Nat /\ Len(s) = a /\ Head(s) = s[1] /\ Len(t) = a - 1
      /\ \A i \in 1..a - 1 : t[i] = s[i + 1]
  BY <1>1, Shorter
<1> HIDE DEF t
<1>3. ASSUME NEW j \in 2..a PROVE j - 1 \in 1..a - 1 /\ (j - 1) + 1 = j /\ t[j - 1] = s[j]
  <2>1. j - 1 \in 1..a - 1 /\ (j - 1) + 1 = j
    OBVIOUS
  <2>2. QED BY <1>2, <2>1
<1>4. ASSUME Silent(t, what, id) PROVE Silent(s, what, id) \/ LastAt(s, what, id, 1)
  <2>1. \A j \in 2..a : ~Concerns(s[j], what, id)
    BY <1>2, <1>3, <1>4 DEF Silent
  <2>2. \A j \in 1..a : j = 1 \/ j \in 2..a
    OBVIOUS
  <2>3. 1 + 1..a = 2..a
    OBVIOUS
  <2>4. CASE Concerns(s[1], what, id)
    BY <1>2, <2>1, <2>3, <2>4 DEF LastAt
  <2>5. CASE ~Concerns(s[1], what, id)
    BY <1>2, <2>1, <2>2, <2>5 DEF Silent
  <2>6. QED BY <2>4, <2>5
<1>5. ASSUME NEW i \in 1..a - 1, LastAt(t, what, id, i)
      PROVE  i + 1 \in 1..a /\ LastAt(s, what, id, i + 1) /\ t[i] = s[i + 1]
  <2>1. i + 1 \in 1..a /\ t[i] = s[i + 1]
    BY <1>2
  <2>2. ASSUME NEW j \in (i + 1) + 1..a PROVE ~Concerns(s[j], what, id)
    <3>1. j \in 2..a /\ j - 1 \in i + 1..a - 1
      OBVIOUS
    <3>2. QED BY <1>2, <1>3, <1>5, <3>1 DEF LastAt
  <2>3. QED BY <1>2, <1>5, <2>1, <2>2 DEF LastAt
<1>6. 1 \in 1..a
  BY <1>2
<1>7. QED BY <1>2, <1>4, <1>5, <1>6 DEF t

-----------------------------------------------------------------------------
(***************************************************************************)
(* What has been told of PipeWire s, to the mirror g, by events E and by   *)
(* what the requests R will be answered, to an engine that hears of b.     *)
(***************************************************************************)
Present(x) == DOMAIN x.nodes \cup DOMAIN x.cards

ThereTold(s, g, E) == \A id \in B!Nodes \cup B!Cards :
  /\ Silent(E, "there", id) => (id \in Present(g) <=> id \in Present(s))
  /\ \A i \in 1..Len(E) : LastAt(E, "there", id, i) => (E[i].on = "global" <=> id \in Present(s))

LinksTold(s, g, E) == \A l :
  /\ Silent(E, "link", l) => (l \in g.links <=> l \in s.links)
  /\ \A i \in 1..Len(E) : LastAt(E, "link", l, i) => (E[i].on = "link" <=> l \in s.links)

DefaultTold(s, g, E) ==
  /\ Silent(E, "default", Metadata) => g.default = s.default
  /\ \A i \in 1..Len(E) : LastAt(E, "default", Metadata, i) => E[i].id = s.default

Agrees(s, g, id) ==
  /\ id \in DOMAIN s.nodes =>
       g.nodes[id].volume = s.nodes[id].volume /\ g.nodes[id].mute = s.nodes[id].mute
  /\ id \in DOMAIN s.cards => g.cards[id].active = s.cards[id]

\* The values themselves, or that there are new ones to ask for.
Says(s, e, id) ==
  \/ /\ e.on = "props" /\ id \in DOMAIN s.nodes
     /\ e.node.volume = s.nodes[id].volume /\ e.node.mute = s.nodes[id].mute
  \/ e.on = "params" /\ id \in DOMAIN s.cards /\ e.active = s.cards[id]
  \/ e.on = "changed" /\ id \in DOMAIN s.cards

Enums(r, id) == r.ask = "enum" /\ r.id = id
ValuesTold(s, g, E, R, b) == \A id \in b \ {Registry, Metadata} :
  /\ Silent(E, "value", id) => Agrees(s, g, id) \/ \E i \in 1..Len(R) : Enums(R[i], id)
  /\ \A i \in 1..Len(E) : LastAt(E, "value", id, i) => Says(s, E[i], id)

\* Of what is not heard of yet, the engine is told, or it asks already.
Appears(e, id) == e.on = "global" /\ e.id = id
WillBind(s, E, R, b) == \A id \in ({Metadata} \cup Present(s)) \ b :
  \/ \E i \in 1..Len(E) : Appears(E[i], id)
  \/ \E i \in 1..Len(R) : Binds(R[i], id)

\* The registry is asked for first, and once.
Opening == Registry \notin bound =>
  /\ bound = {} /\ told = <<>> /\ Present(graph) = {} /\ graph.links = {}
  /\ asked # <<>> /\ Head(asked).ask = "registry"
RegistryOnce == \A i \in 1..Len(asked) : asked[i].ask = "registry" => i = 1 /\ Registry \notin bound

\* What PipeWire and the mirror have is of this shape.
Levels == {"volume", "mute"}
Levelled(node) == node = [f \in Levels |-> node[f]]
Shaped ==
  /\ \A n \in DOMAIN server.nodes : Levelled(server.nodes[n])
  /\ server.nodes = [n \in DOMAIN server.nodes |-> server.nodes[n]]
  /\ server.cards = [c \in DOMAIN server.cards |-> server.cards[c]]
Mirrored == DOMAIN graph.nodes \subseteq B!Nodes /\ DOMAIN graph.cards \subseteq B!Cards /\ v11 = graph

\* The engine hears only of what is there.
BoundThere(s, b) == b \subseteq {Registry, Metadata} \cup Present(s)

ShownInv ==
  /\ Opening /\ RegistryOnce /\ Shaped /\ Mirrored /\ BoundThere(server, bound)
  /\ Registry \in bound =>
       /\ ThereTold(server, graph, told) /\ LinksTold(server, graph, told)
       /\ Metadata \in bound => DefaultTold(server, graph, told)
       /\ ValuesTold(server, graph, told, asked, bound) /\ WillBind(server, told, asked, bound)

\* What is in a queue with one request more, or one less.
LEMMA StillAsked ==
  ASSUME NEW s, Numbered(s), NEW t, Numbered(t), NEW i \in 1..Len(s)
  PROVE  /\ \E j \in 1..Len(s \o t) : (s \o t)[j] = s[i]
         /\ s # <<>> => s[i] = Head(s) \/ \E j \in 1..Len(Tail(s)) : Tail(s)[j] = s[i]
<1>1. PICK a \in Nat : s = [j \in 1..a |-> s[j]]
  BY DEF Numbered
<1>2. PICK b \in Nat : t = [j \in 1..b |-> t[j]]
  BY DEF Numbered
<1>3. \E j \in 1..Len(s \o t) : (s \o t)[j] = s[i]
  <2> DEFINE u == s \o t
  <2> HIDE DEF u
  <2>1. Joins(u, s, a, t, b)
    BY <1>1, <1>2, Joined DEF u
  <2>2. i \in 1..Len(u) /\ u[i] = s[i]
    BY <2>1 DEF Joins
  <2>3. QED BY <2>2 DEF u
<1>4. ASSUME s # <<>>, i # 1 PROVE \E j \in 1..Len(Tail(s)) : Tail(s)[j] = s[i]
  <2> DEFINE u == Tail(s)
  <2>1. /\ a - 1 \in Nat /\ Len(s) = a /\ Len(u) = a - 1
        /\ \A j \in 1..a - 1 : u[j] = s[j + 1]
    BY <1>1, <1>4, Shorter
  <2> HIDE DEF u
  <2>2. i - 1 \in 1..a - 1 /\ (i - 1) + 1 = i
    BY <1>4, <2>1
  <2>3. u[i - 1] = s[i]
    BY <2>1, <2>2
  <2>4. QED BY <2>1, <2>2, <2>3 DEF u
<1>5. s # <<>> => Head(s) = s[1]
  BY <1>1, Shorter
<1>6. QED BY <1>3, <1>4, <1>5

\* The same at the end of it.
LEMMA NowAsked ==
  ASSUME NEW s, Numbered(s), NEW t, Numbered(t), NEW i \in 1..Len(t)
  PROVE  \E j \in 1..Len(s \o t) : (s \o t)[j] = t[i]
<1>1. PICK a \in Nat : s = [j \in 1..a |-> s[j]]
  BY DEF Numbered
<1>2. PICK b \in Nat : t = [j \in 1..b |-> t[j]]
  BY DEF Numbered
<1> DEFINE u == s \o t
<1> HIDE DEF u
<1>3. Joins(u, s, a, t, b)
  BY <1>1, <1>2, Joined DEF u
<1>4. a + i \in 1..Len(u) /\ u[a + i] = t[i]
  BY <1>3 DEF Joins
<1>5. QED BY <1>4 DEF u

\* What follows the first request does not ask for the registry.
LEMMA RegistryLess ==
  ASSUME Numbered(asked), asked # <<>>, RegistryOnce
  PROVE  \A i \in 1..Len(Tail(asked)) : Tail(asked)[i].ask # "registry"
<1>1. PICK a \in Nat : asked = [j \in 1..a |-> asked[j]]
  BY DEF Numbered
<1> DEFINE u == Tail(asked)
<1>2. /\ a - 1 \in Nat /\ Len(asked) = a /\ Len(u) = a - 1 /\ \A j \in 1..a - 1 : u[j] = asked[j + 1]
  BY <1>1, Shorter
<1> HIDE DEF u
<1>3. ASSUME NEW i \in 1..a - 1 PROVE u[i].ask # "registry"
  <2>1. i + 1 \in 1..a /\ i + 1 # 1 /\ u[i] = asked[i + 1]
    BY <1>2
  <2>2. QED BY <1>2, <2>1 DEF RegistryOnce
<1>4. QED BY <1>2, <1>3 DEF u

\* More requests that do not ask for it leave it the first one, if it is.
LEMMA RegistryMore ==
  ASSUME Numbered(asked), RegistryOnce, NEW rs, Numbered(rs), asked' = asked \o rs, bound' = bound,
         \A i \in 1..Len(rs) : rs[i].ask # "registry"
  PROVE  /\ RegistryOnce'
         /\ asked # <<>> => asked' # <<>> /\ Head(asked') = Head(asked)
<1>1. PICK a \in Nat : asked = [j \in 1..a |-> asked[j]]
  BY DEF Numbered
<1>2. PICK b \in Nat : rs = [j \in 1..b |-> rs[j]]
  BY DEF Numbered
<1>3. Joins(asked', asked, a, rs, b)
  BY <1>1, <1>2, Joined
<1>4. RegistryOnce'
  BY <1>3 DEF Joins, RegistryOnce
<1>5. ASSUME asked # <<>> PROVE asked' # <<>> /\ Head(asked') = Head(asked)
  <2>1. Head(asked) = asked[1] /\ a - 1 \in Nat
    BY <1>1, <1>5, Shorter
  <2>2. PICK c \in Nat : asked' = [j \in 1..c |-> asked'[j]]
    BY <1>3 DEF Joins, Numbered
  <2>3. c = a + b
    BY <1>3, <2>2 DEF Joins
  <2>4. asked' # <<>>
    BY <2>1, <2>2, <2>3
  <2>5. Head(asked') = asked'[1]
    BY <2>2, <2>4, Shorter
  <2>6. 1 \in 1..a
    BY <2>1
  <2>7. QED BY <1>3, <2>1, <2>4, <2>5, <2>6 DEF Joins
<1>6. QED BY <1>4, <1>5

-----------------------------------------------------------------------------
(***************************************************************************)
(* What an event is to the mirror: it says of its thing alone, and what it *)
(* does not say itself is asked for.                                       *)
(***************************************************************************)
Noted(e, g, h) ==
  /\ \A id \in B!Nodes \cup B!Cards :
       id \in Present(h) <=> IF Concerns(e, "there", id) THEN e.on = "global" ELSE id \in Present(g)
  /\ \A l : l \in h.links <=> IF Concerns(e, "link", l) THEN e.on = "link" ELSE l \in g.links
  /\ h.default = IF e.on = "default" THEN e.id ELSE g.default
  /\ \A n \in DOMAIN g.nodes : ~Concerns(e, "value", n) =>
       h.nodes[n].volume = g.nodes[n].volume /\ h.nodes[n].mute = g.nodes[n].mute
  /\ \A c \in DOMAIN g.cards : ~Concerns(e, "value", c) => h.cards[c].active = g.cards[c].active
  /\ e.on = "props" /\ e.id \in DOMAIN g.nodes =>
       h.nodes[e.id].volume = e.node.volume /\ h.nodes[e.id].mute = e.node.mute
  /\ e.on = "params" /\ e.id \in DOMAIN g.cards => h.cards[e.id].active = e.active

Inquires(e, g, rs) ==
  /\ \A i \in 1..Len(rs) : rs[i].ask # "registry"
  /\ e.on = "changed" /\ e.id \in DOMAIN g.cards => \E i \in 1..Len(rs) : Enums(rs[i], e.id)
  /\ e.on = "global" /\ e.id \in {Metadata} \cup B!Nodes \cup B!Cards => \E i \in 1..Len(rs) : Binds(rs[i], e.id)

Heeds(rs) ==
  /\ told # <<>> /\ told' = Tail(told) /\ asked' = asked \o rs /\ Numbered(rs)
  /\ UNCHANGED <<server, bound>> /\ Mirrored'
  /\ Noted(Head(told), graph, graph') /\ Inquires(Head(told), graph, rs)

LEMMA HeedsKeeps ==
  ASSUME CompleteInv, ShownInv, Distinct, NEW rs, Heeds(rs)
  PROVE  ShownInv'
<1> DEFINE e == Head(told)
           t == Tail(told)
<1>1. /\ Numbered(told) /\ Numbered(asked) /\ Numbered(rs) /\ told # <<>> /\ told' = t /\ asked' = asked \o rs
      /\ server' = server /\ bound' = bound /\ Mirrored' /\ Noted(e, graph, graph') /\ Inquires(e, graph, rs)
  BY DEF CompleteInv, Heeds
<1>2. Registry \in bound
  BY <1>1 DEF ShownInv, Opening
<1>3. /\ ThereTold(server, graph, told) /\ LinksTold(server, graph, told)
      /\ Metadata \in bound => DefaultTold(server, graph, told)
      /\ ValuesTold(server, graph, told, asked, bound) /\ WillBind(server, told, asked, bound)
      /\ RegistryOnce /\ Shaped /\ Mirrored /\ BoundThere(server, bound)
  BY <1>2 DEF ShownInv
<1>4. /\ DOMAIN server.nodes \subseteq B!Nodes /\ DOMAIN server.cards \subseteq B!Cards /\ B!Nodes \cap B!Cards = {}
      /\ DOMAIN graph.nodes \subseteq B!Nodes /\ DOMAIN graph.cards \subseteq B!Cards
  BY <1>3 DEF CompleteInv, ServerTyped, Distinct, Mirrored
<1>5. \A what, id :
        /\ 1 \in 1..Len(told) /\ e = told[1]
        /\ Silent(t, what, id) => Silent(told, what, id) \/ LastAt(told, what, id, 1)
        /\ \A i \in 1..Len(t) : LastAt(t, what, id, i) =>
             i + 1 \in 1..Len(told) /\ LastAt(told, what, id, i + 1) /\ t[i] = told[i + 1]
  BY <1>1, LastLess
<1>6. \A what, id : Silent(told, what, id) => ~Concerns(e, what, id)
  BY <1>5 DEF Silent
<1>7. \A what, id : LastAt(told, what, id, 1) => Concerns(e, what, id)
  BY <1>5 DEF LastAt
<1> HIDE DEF e, t
<1>8. ThereTold(server, graph', t)
  <2>1. ASSUME NEW id \in B!Nodes \cup B!Cards, Silent(t, "there", id)
        PROVE  id \in Present(graph') <=> id \in Present(server)
    <3>1. CASE Silent(told, "there", id)
      BY <1>1, <1>3, <1>6, <3>1 DEF ThereTold, Noted
    <3>2. CASE LastAt(told, "there", id, 1)
      BY <1>1, <1>3, <1>5, <1>7, <3>2 DEF ThereTold, Noted
    <3>3. QED BY <1>5, <2>1, <3>1, <3>2
  <2>2. QED BY <1>3, <1>5, <2>1 DEF ThereTold
<1>9. LinksTold(server, graph', t)
  <2>1. ASSUME NEW l, Silent(t, "link", l)
        PROVE  l \in graph'.links <=> l \in server.links
    <3>1. CASE Silent(told, "link", l)
      BY <1>1, <1>3, <1>6, <3>1 DEF LinksTold, Noted
    <3>2. CASE LastAt(told, "link", l, 1)
      BY <1>1, <1>3, <1>5, <1>7, <3>2 DEF LinksTold, Noted
    <3>3. QED BY <1>5, <2>1, <3>1, <3>2
  <2>2. QED BY <1>3, <1>5, <2>1 DEF LinksTold
<1>10. ASSUME Metadata \in bound PROVE DefaultTold(server, graph', t)
  <2>1. ASSUME Silent(t, "default", Metadata) PROVE graph'.default = server.default
    <3>1. CASE Silent(told, "default", Metadata)
      <4>1. e.on # "default"
        BY <1>6, <3>1 DEF Concerns
      <4>2. QED BY <1>1, <1>3, <1>10, <3>1, <4>1 DEF DefaultTold, Noted
    <3>2. CASE LastAt(told, "default", Metadata, 1)
      <4>1. e.on = "default" /\ e.id = server.default
        BY <1>3, <1>5, <1>7, <1>10, <3>2 DEF DefaultTold, Concerns
      <4>2. QED BY <1>1, <4>1 DEF Noted
    <3>3. QED BY <1>5, <2>1, <3>1, <3>2
  <2>2. QED BY <1>3, <1>5, <1>10, <2>1 DEF DefaultTold
<1>11. \A i \in 1..Len(asked) : \E j \in 1..Len(asked') : asked'[j] = asked[i]
  BY <1>1, StillAsked
<1>12. \A i \in 1..Len(rs) : \E j \in 1..Len(asked') : asked'[j] = rs[i]
  BY <1>1, NowAsked
<1>13. ValuesTold(server, graph', t, asked', bound)
  <2>1. ASSUME NEW id \in bound \ {Registry, Metadata}, Silent(t, "value", id)
        PROVE  Agrees(server, graph', id) \/ \E i \in 1..Len(asked') : Enums(asked'[i], id)
    <3>1. id \in Present(server) /\ id \in B!Nodes \cup B!Cards
      BY <1>3, <1>4 DEF BoundThere, Present
    <3>2. CASE Silent(told, "value", id)
      <4>1. Silent(told, "there", id)
        BY <3>2 DEF Silent, Concerns
      <4>2. id \in Present(graph) /\ ~Concerns(e, "value", id)
        BY <1>3, <1>6, <3>1, <3>2, <4>1 DEF ThereTold
      <4>3. CASE Agrees(server, graph, id)
        <5>1. id \in DOMAIN server.nodes => id \in DOMAIN graph.nodes
          BY <1>4, <4>2 DEF Present
        <5>2. id \in DOMAIN server.cards => id \in DOMAIN graph.cards
          BY <1>4, <4>2 DEF Present
        <5>3. QED BY <1>1, <4>2, <4>3, <5>1, <5>2 DEF Agrees, Noted
      <4>4. CASE \E i \in 1..Len(asked) : Enums(asked[i], id)
        BY <1>11, <4>4
      <4>5. QED BY <1>3, <2>1, <3>2, <4>3, <4>4 DEF ValuesTold
    <3>3. CASE LastAt(told, "value", id, 1)
      <4>1. Says(server, e, id) /\ e.id = id
        <5>1. Says(server, told[1], id)
          BY <1>3, <1>5, <2>1, <3>3 DEF ValuesTold
        <5>2. QED BY <1>5, <1>7, <3>3, <5>1 DEF Concerns
      <4>2. e.on \in {"props", "params", "changed"}
        BY <4>1 DEF Says
      <4>3. Silent(t, "there", id)
        BY <2>1 DEF Silent, Concerns
      <4>4. ~Concerns(e, "there", id)
        BY <4>2 DEF Concerns
      <4>5. ~LastAt(told, "there", id, 1)
        BY <1>7, <4>4
      <4>6. Silent(told, "there", id)
        BY <1>5, <4>3, <4>5
      <4>7. id \in Present(graph)
        BY <1>3, <3>1, <4>6 DEF ThereTold
      <4>8. CASE e.on = "props"
        <5>1. id \in DOMAIN server.nodes /\ id \notin DOMAIN server.cards /\ id \in DOMAIN graph.nodes
          BY <1>4, <4>1, <4>7, <4>8 DEF Says, Present
        <5>2. QED BY <1>1, <4>1, <4>8, <5>1 DEF Agrees, Noted, Says
      <4>9. CASE e.on = "params"
        <5>1. id \in DOMAIN server.cards /\ id \notin DOMAIN server.nodes /\ id \in DOMAIN graph.cards
          BY <1>4, <4>1, <4>7, <4>9 DEF Says, Present
        <5>2. QED BY <1>1, <4>1, <4>9, <5>1 DEF Agrees, Noted, Says
      <4>10. CASE e.on = "changed"
        <5>1. id \in DOMAIN graph.cards
          BY <1>4, <4>1, <4>7, <4>10 DEF Says, Present
        <5>2. PICK i \in 1..Len(rs) : Enums(rs[i], id)
          BY <1>1, <4>1, <4>10, <5>1 DEF Inquires
        <5>3. QED BY <1>12, <5>2
      <4>11. QED BY <4>2, <4>8, <4>9, <4>10
    <3>4. QED BY <1>5, <2>1, <3>2, <3>3
  <2>2. ASSUME NEW id \in bound \ {Registry, Metadata}, NEW i \in 1..Len(t), LastAt(t, "value", id, i)
        PROVE  Says(server, t[i], id)
    BY <1>3, <1>5, <2>2 DEF ValuesTold
  <2>3. QED BY <2>1, <2>2 DEF ValuesTold
<1>14. WillBind(server, t, asked', bound)
  <2>1. SUFFICES ASSUME NEW id \in ({Metadata} \cup Present(server)) \ bound
                 PROVE  \/ \E i \in 1..Len(t) : Appears(t[i], id)
                        \/ \E i \in 1..Len(asked') : Binds(asked'[i], id)
    BY DEF WillBind
  <2>2. CASE \E i \in 1..Len(asked) : Binds(asked[i], id)
    BY <1>11, <2>2
  <2>3. CASE \E i \in 1..Len(told) : Appears(told[i], id)
    <3>1. PICK i \in 1..Len(told) : Appears(told[i], id)
      BY <2>3
    <3>2. told[i] = e \/ \E j \in 1..Len(t) : t[j] = told[i]
      BY <1>1, StillAsked DEF e, t
    <3>3. CASE told[i] = e
      <4>1. id \in {Metadata} \cup B!Nodes \cup B!Cards
        BY <1>4 DEF Present
      <4>2. PICK j \in 1..Len(rs) : Binds(rs[j], id)
        BY <1>1, <3>1, <3>3, <4>1 DEF Inquires, Appears
      <4>3. QED BY <1>12, <4>2
    <3>4. QED BY <3>1, <3>2, <3>3
  <2>4. QED BY <1>3, <2>2, <2>3 DEF WillBind
<1>15. RegistryOnce'
  BY <1>1, <1>3, RegistryMore DEF Inquires
<1>16. Opening' /\ Shaped' /\ BoundThere(server', bound')
  BY <1>1, <1>2, <1>3 DEF Opening, Shaped
<1>17. QED BY <1>1, <1>2, <1>8, <1>9, <1>10, <1>13, <1>14, <1>15, <1>16 DEF ShownInv

\* Asking for one thing more, or for nothing.
LEMMA HeedsOne ==
  ASSUME CompleteInv, told # <<>>, told' = Tail(told), UNCHANGED <<server, bound>>, Mirrored',
         Noted(Head(told), graph, graph'),
         \/ /\ asked' = asked /\ Head(told).on # "global"
            /\ Head(told).on = "changed" => Head(told).id \notin DOMAIN graph.cards
         \/ \E r : /\ asked' = asked \o <<r>>
                   /\ \/ Head(told).on = "global" /\ Binds(r, Head(told).id)
                      \/ Head(told).on = "changed" /\ Enums(r, Head(told).id)
  PROVE  \E rs : Heeds(rs)
<1> DEFINE e == Head(told)
<1>1. CASE /\ asked' = asked /\ e.on # "global"
           /\ e.on = "changed" => e.id \notin DOMAIN graph.cards
  <2>1. asked' = asked \o <<>>
    BY <1>1, Joining DEF CompleteInv
  <2>2. Numbered(<<>>) /\ Len(<<>>) = 0
    BY ShortQueues
  <2>3. Inquires(e, graph, <<>>)
    BY <1>1, <2>2 DEF Inquires
  <2>4. Heeds(<<>>)
    BY <2>1, <2>2, <2>3 DEF Heeds
  <2>5. QED BY <2>4
<1>2. ASSUME NEW r, asked' = asked \o <<r>>,
             \/ e.on = "global" /\ Binds(r, e.id)
             \/ e.on = "changed" /\ Enums(r, e.id)
      PROVE  \E rs : Heeds(rs)
  <2> DEFINE rs == <<r>>
  <2>1. Numbered(rs) /\ Len(rs) = 1 /\ rs[1] = r
    BY ShortQueues
  <2>2. asked' = asked \o rs
    BY <1>2
  <2> HIDE DEF rs, e
  <2>3. r.ask # "registry"
    BY <1>2 DEF Binds, Enums
  <2>4. Inquires(e, graph, rs)
    BY <1>2, <2>1, <2>3 DEF Inquires
  <2>5. Heeds(rs)
    BY <2>1, <2>2, <2>4 DEF Heeds, e
  <2>6. QED BY <2>5
<1>3. QED BY <1>1, <1>2

\* A node that appears has no values yet; PipeWire is asked for them.
LEMMA NodeHeeds ==
  ASSUME CompleteInv, Mirrored, Distinct, B!OnNode
  PROVE  \E rs : Heeds(rs)
<1> DEFINE e == Head(told)
           b == [ask |-> "bind", id |-> e.id]
           r == [ask |-> "sync", id |-> numbers + 1]
           node == [volume |-> Nothing, mute |-> FALSE, card |-> Nothing]
<1>1. /\ told # <<>> /\ e.on = "global" /\ told' = Tail(told) /\ e.id \in B!Nodes
      /\ UNCHANGED <<server, bound>> /\ v11' = graph'
      /\ graph' = [graph EXCEPT !.nodes = B!Put(@, e.id, node)]
  <2>1. told # <<>> /\ e.on = "global" /\ told' = Tail(told) /\ e.id \in B!Nodes
    BY DEF B!OnNode, B!On, B!Id
  <2>2. UNCHANGED <<server, bound>> /\ v11' = graph'
    BY DEF B!OnNode, B!EngineOnly, B!pipewire, B!Publish
  <2>3. graph' = [graph EXCEPT !.nodes = B!Put(@, e.id, node)]
    BY DEF B!OnNode, B!Id
  <2>4. QED BY <2>1, <2>2, <2>3
<1>2. asked' = asked \o <<b>> \/ asked' = asked \o <<b, r>>
  BY Zenon DEF B!OnNode, B!Ask, B!Id
<1> HIDE DEF node, e
<1>3. /\ DOMAIN graph'.nodes = DOMAIN graph.nodes \cup {e.id}
      /\ \A n \in DOMAIN graph.nodes : n # e.id => graph'.nodes[n] = graph.nodes[n]
      /\ graph'.cards = graph.cards /\ graph'.links = graph.links /\ graph'.default = graph.default
  <2>1. /\ graph'.nodes = B!Put(graph.nodes, e.id, node)
        /\ graph'.cards = graph.cards /\ graph'.links = graph.links /\ graph'.default = graph.default
    BY <1>1 DEF CompleteInv, GraphTyped
  <2>2. QED BY <2>1 DEF B!Put
<1>4. Mirrored'
  BY <1>1, <1>3 DEF Mirrored
<1>5. Noted(e, graph, graph')
  <2>1. \A id \in B!Nodes \cup B!Cards :
          id \in Present(graph') <=> IF Concerns(e, "there", id) THEN e.on = "global" ELSE id \in Present(graph)
    BY <1>1, <1>3 DEF Concerns, Present
  <2>2. \A l : ~Concerns(e, "link", l)
    BY <1>1 DEF Concerns
  <2>3. \A n \in DOMAIN graph.nodes : ~Concerns(e, "value", n) => n # e.id
    BY <1>1 DEF Concerns
  <2>4. QED BY <1>1, <1>3, <2>1, <2>2, <2>3 DEF Noted
<1>6. b.ask = "bind" /\ b.id = e.id /\ r.ask = "sync"
  OBVIOUS
<1> HIDE DEF b, r
<1>7. CASE asked' = asked \o <<b>>
  <2>1. Binds(b, e.id)
    BY <1>6 DEF Binds
  <2>2. told # <<>> /\ told' = Tail(told) /\ UNCHANGED <<server, bound>> /\ e.on = "global"
    BY <1>1
  <2>3. QED BY <1>4, <1>5, <1>7, <2>1, <2>2, HeedsOne DEF e
<1>8. CASE asked' = asked \o <<b, r>>
  <2> DEFINE rs == <<b, r>>
  <2>1. Numbered(rs) /\ Len(rs) = 2 /\ rs[1] = b /\ rs[2] = r
    BY ShortQueues
  <2>2. asked' = asked \o rs
    BY <1>8
  <2> HIDE DEF rs
  <2>3. \A i \in 1..2 : i = 1 \/ i = 2
    OBVIOUS
  <2>4. Inquires(e, graph, rs)
    BY <1>1, <1>6, <2>1, <2>3 DEF Inquires, Binds
  <2>5. Heeds(rs)
    BY <1>1, <1>4, <1>5, <2>1, <2>2, <2>4 DEF Heeds, e
  <2>6. QED BY <2>5
<1>9. QED BY <1>2, <1>7, <1>8

\* What neither comes, goes nor measures changes nothing that is told here.
LEMMA NotedNothing ==
  ASSUME NEW e, NEW g, NEW h,
         DOMAIN h.nodes = DOMAIN g.nodes, h.cards = g.cards, h.links = g.links, h.default = g.default,
         \A n \in DOMAIN g.nodes : h.nodes[n].volume = g.nodes[n].volume /\ h.nodes[n].mute = g.nodes[n].mute,
         \A id \in B!Nodes \cup B!Cards : ~Concerns(e, "there", id),
         e.on \notin {"link", "unlink", "default"},
         e.on = "props" => e.id \notin DOMAIN g.nodes, e.on = "params" => e.id \notin DOMAIN g.cards
  PROVE  Noted(e, g, h)
<1>1. \A l : ~Concerns(e, "link", l)
  BY DEF Concerns
<1>2. Present(h) = Present(g)
  BY DEF Present
<1>3. QED BY <1>1, <1>2 DEF Noted

\* The other events.
LEMMA EventHeeds ==
  ASSUME CompleteInv, Mirrored, Distinct,
         \/ B!OnDevice \/ B!OnMetadata \/ B!Done \/ B!Removed \/ B!Linked \/ B!Unlinked \/ B!Default
         \/ B!Info \/ B!Measured \/ B!Changed \/ B!Params
  PROVE  \E rs : Heeds(rs)
<1> DEFINE e == Head(told)
<1>1. told # <<>> /\ told' = Tail(told) /\ UNCHANGED <<server, bound>>
  BY DEF B!OnDevice, B!OnMetadata, B!Done, B!Removed, B!Linked, B!Unlinked, B!Default, B!Info, B!Measured,
         B!Changed, B!Params, B!On, B!EngineOnly, B!pipewire, B!mirror
<1>2. {"nodes", "cards", "links", "default", "complete"} \subseteq DOMAIN graph
  BY DEF CompleteInv, GraphTyped
<1>3. ASSUME v11' = graph', Noted(e, graph, graph'),
             DOMAIN graph'.nodes \subseteq B!Nodes, DOMAIN graph'.cards \subseteq B!Cards,
             \/ /\ asked' = asked /\ e.on # "global"
                /\ e.on = "changed" => e.id \notin DOMAIN graph.cards
             \/ \E r : /\ asked' = asked \o <<r>>
                       /\ \/ e.on = "global" /\ Binds(r, e.id)
                          \/ e.on = "changed" /\ Enums(r, e.id)
      PROVE  \E rs : Heeds(rs)
  BY <1>1, <1>3, HeedsOne DEF Mirrored
<1>4. CASE B!OnDevice
  <2> DEFINE card == [profiles |-> {}, active |-> Nothing]
             r == [ask |-> "bind", id |-> e.id]
  <2>1. /\ e.on = "global" /\ asked' = asked \o <<r>> /\ e.id \in B!Cards /\ v11' = graph'
        /\ graph' = [graph EXCEPT !.cards = B!Put(@, e.id, card)]
    BY <1>4 DEF B!OnDevice, B!On, B!Id, B!Ask, B!Publish
  <2>2. Binds(r, e.id)
    BY DEF Binds
  <2> HIDE DEF card, r, e
  <2>3. /\ DOMAIN graph'.cards = DOMAIN graph.cards \cup {e.id}
        /\ \A c \in DOMAIN graph.cards : c # e.id => graph'.cards[c] = graph.cards[c]
        /\ graph'.nodes = graph.nodes /\ graph'.links = graph.links /\ graph'.default = graph.default
    <3>1. /\ graph'.cards = B!Put(graph.cards, e.id, card)
          /\ graph'.nodes = graph.nodes /\ graph'.links = graph.links /\ graph'.default = graph.default
      BY <1>2, <2>1
    <3>2. QED BY <3>1 DEF B!Put
  <2>4. Noted(e, graph, graph')
    <3>1. \A id \in B!Nodes \cup B!Cards :
            id \in Present(graph') <=> IF Concerns(e, "there", id) THEN e.on = "global" ELSE id \in Present(graph)
      BY <2>1, <2>3 DEF Concerns, Present
    <3>2. \A l : ~Concerns(e, "link", l)
      BY <2>1 DEF Concerns
    <3>3. \A c \in DOMAIN graph.cards : ~Concerns(e, "value", c) => c # e.id
      BY <2>1 DEF Concerns
    <3>4. QED BY <2>1, <2>3, <3>1, <3>2, <3>3 DEF Noted
  <2>5. DOMAIN graph'.nodes \subseteq B!Nodes /\ DOMAIN graph'.cards \subseteq B!Cards
    BY <2>1, <2>3 DEF Mirrored
  <2>6. QED BY <1>3, <2>1, <2>2, <2>4, <2>5
<1>5. CASE B!OnMetadata
  <2> DEFINE r == [ask |-> "bind", id |-> e.id]
  <2>1. e.on = "global" /\ e.id = Metadata /\ asked' = asked \o <<r>> /\ graph' = graph /\ v11' = v11
    BY <1>5 DEF B!OnMetadata, B!On, B!Id, B!Ask
  <2>2. Binds(r, e.id)
    BY DEF Binds
  <2> HIDE DEF r, e
  <2>3. \A id \in B!Nodes \cup B!Cards : ~Concerns(e, "there", id)
    BY <2>1 DEF Concerns, Distinct
  <2>4. Noted(e, graph, graph')
    BY <2>1, <2>3, NotedNothing
  <2>5. QED BY <1>3, <2>1, <2>2, <2>4 DEF Mirrored
<1>6. CASE B!Changed
  <2> DEFINE r == [ask |-> "enum", id |-> e.id]
  <2>1. /\ e.on = "changed" /\ graph' = graph /\ v11' = v11
        /\ asked' = asked \o (IF e.id \in DOMAIN graph.cards THEN <<r>> ELSE <<>>)
    BY <1>6 DEF B!Changed, B!On, B!Id, B!Ask, B!mirror
  <2>2. Enums(r, e.id)
    BY DEF Enums
  <2> HIDE DEF r, e
  <2>3. asked \o <<>> = asked
    BY Joining DEF CompleteInv
  <2>4. \A id \in B!Nodes \cup B!Cards : ~Concerns(e, "there", id)
    BY <2>1 DEF Concerns
  <2>5. Noted(e, graph, graph')
    BY <2>1, <2>4, NotedNothing
  <2>6. CASE e.id \in DOMAIN graph.cards
    BY <1>3, <2>1, <2>2, <2>5, <2>6 DEF Mirrored
  <2>7. CASE e.id \notin DOMAIN graph.cards
    BY <1>3, <2>1, <2>3, <2>5, <2>7 DEF Mirrored
  <2>8. QED BY <2>6, <2>7
<1>7. CASE B!Done
  <2>1. /\ e.on = "done" /\ asked' = asked /\ graph' = [graph EXCEPT !.complete = @ \/ e.id = awaited]
        /\ v11' = IF graph' = graph THEN v11 ELSE graph'
    BY <1>7 DEF B!Done, B!On, B!Id
  <2> HIDE DEF e
  <2>2. graph'.nodes = graph.nodes /\ graph'.cards = graph.cards /\ graph'.links = graph.links /\ graph'.default = graph.default
    BY <1>2, <2>1
  <2>3. \A id \in B!Nodes \cup B!Cards : ~Concerns(e, "there", id)
    BY <2>1 DEF Concerns
  <2>4. Noted(e, graph, graph')
    BY <2>1, <2>2, <2>3, NotedNothing
  <2>5. v11' = graph'
    BY <2>1 DEF Mirrored
  <2>6. QED BY <1>3, <2>1, <2>2, <2>4, <2>5 DEF Mirrored
<1>8. CASE B!Removed
  <2> DEFINE nodes == B!Without(graph.nodes, {e.id})
             cards == B!Without(graph.cards, {e.id})
  <2>1. /\ e.on = "remove" /\ asked' = asked /\ v11' = graph'
        /\ graph' = [graph EXCEPT !.nodes = B!Without(@, {e.id}), !.cards = B!Without(@, {e.id})]
    BY Zenon, <1>8 DEF B!Removed, B!On, B!Id, B!Publish
  <2>2. graph' = [graph EXCEPT !.nodes = nodes, !.cards = cards]
    BY Zenon, <2>1
  <2> HIDE DEF e
  <2>3. /\ nodes = [n \in DOMAIN graph.nodes \ {e.id} |-> graph.nodes[n]]
        /\ cards = [c \in DOMAIN graph.cards \ {e.id} |-> graph.cards[c]]
    BY DEF B!Without
  <2> HIDE DEF nodes, cards
  <2>4. graph'.nodes = nodes /\ graph'.cards = cards /\ graph'.links = graph.links /\ graph'.default = graph.default
    BY <1>2, <2>2
  <2>5. /\ DOMAIN graph'.nodes = DOMAIN graph.nodes \ {e.id} /\ DOMAIN graph'.cards = DOMAIN graph.cards \ {e.id}
        /\ \A n \in DOMAIN graph.nodes : n # e.id => graph'.nodes[n] = graph.nodes[n]
        /\ \A c \in DOMAIN graph.cards : c # e.id => graph'.cards[c] = graph.cards[c]
    BY <2>3, <2>4
  <2>6. Noted(e, graph, graph')
    <3>1. \A id \in B!Nodes \cup B!Cards :
            id \in Present(graph') <=> IF Concerns(e, "there", id) THEN e.on = "global" ELSE id \in Present(graph)
      BY <2>1, <2>5 DEF Concerns, Present
    <3>2. \A l : ~Concerns(e, "link", l)
      BY <2>1 DEF Concerns
    <3>3. \A id : ~Concerns(e, "value", id) => id # e.id
      BY <2>1 DEF Concerns
    <3>4. QED BY <2>1, <2>4, <2>5, <3>1, <3>2, <3>3 DEF Noted
  <2>7. DOMAIN graph'.nodes \subseteq B!Nodes /\ DOMAIN graph'.cards \subseteq B!Cards
    BY <2>5 DEF Mirrored
  <2>8. QED BY <1>3, <2>1, <2>6, <2>7
<1>9. CASE B!Linked \/ B!Unlinked \/ B!Default
  <2>1. /\ e.on \in {"link", "unlink", "default"} /\ asked' = asked /\ v11' = graph'
        /\ graph'.nodes = graph.nodes /\ graph'.cards = graph.cards
        /\ graph'.links = IF e.on = "link" THEN graph.links \cup {e.id} ELSE
                          IF e.on = "unlink" THEN graph.links \ {e.id} ELSE graph.links
        /\ graph'.default = IF e.on = "default" THEN e.id ELSE graph.default
    <3>1. CASE B!Linked
      BY <1>2, <3>1 DEF B!Linked, B!On, B!Id, B!Publish
    <3>2. CASE B!Unlinked
      BY <1>2, <3>2 DEF B!Unlinked, B!On, B!Id, B!Publish
    <3>3. CASE B!Default
      BY <1>2, <3>3 DEF B!Default, B!On, B!Id, B!Publish
    <3>4. QED BY <1>9, <3>1, <3>2, <3>3
  <2> HIDE DEF e
  <2>2. \A l : Concerns(e, "link", l) <=> e.on \in {"link", "unlink"} /\ l = e.id
    BY DEF Concerns
  <2>3. \A l : l \in graph'.links <=> IF Concerns(e, "link", l) THEN e.on = "link" ELSE l \in graph.links
    BY <2>1, <2>2
  <2>4. \A id : ~Concerns(e, "there", id)
    BY <2>1 DEF Concerns
  <2>5. Noted(e, graph, graph')
    BY <2>1, <2>3, <2>4 DEF Noted, Present
  <2>6. QED BY <1>3, <2>1, <2>5 DEF Mirrored
<1>10. CASE B!Info
  <2>1. /\ e.on = "info" /\ asked' = asked /\ v11' = IF graph' = graph THEN v11 ELSE graph'
        /\ graph' = graph \/ (e.id \in DOMAIN graph.nodes /\ graph' = [graph EXCEPT !.nodes[e.id].card = CardOf[e.id]])
    BY <1>10 DEF B!Info, B!On, B!Id
  <2> HIDE DEF e
  <2>2. /\ DOMAIN graph'.nodes = DOMAIN graph.nodes
        /\ graph'.cards = graph.cards /\ graph'.links = graph.links /\ graph'.default = graph.default
        /\ \A n \in DOMAIN graph.nodes : graph'.nodes[n].volume = graph.nodes[n].volume /\ graph'.nodes[n].mute = graph.nodes[n].mute
    BY <2>1 DEF CompleteInv, GraphTyped
  <2>3. \A id \in B!Nodes \cup B!Cards : ~Concerns(e, "there", id)
    BY <2>1 DEF Concerns
  <2>4. Noted(e, graph, graph')
    BY <2>1, <2>2, <2>3, NotedNothing
  <2>5. v11' = graph'
    BY <2>1 DEF Mirrored
  <2>6. QED BY <1>3, <2>1, <2>2, <2>4, <2>5 DEF Mirrored
<1>11. CASE B!Measured
  <2> DEFINE v == e.node.volume
             m == e.node.mute
  <2>1. e.on = "props" /\ asked' = asked
    BY <1>11 DEF B!Measured, B!On
  <2>2. IF e.id \notin DOMAIN graph.nodes THEN graph' = graph /\ v11' = v11
        ELSE graph' = [graph EXCEPT !.nodes[e.id].volume = v, !.nodes[e.id].mute = m] /\ v11' = graph'
    BY Zenon, <1>11 DEF B!Measured, B!Id
  <2> HIDE DEF e
  <2>3. \A id : ~Concerns(e, "there", id) /\ ~Concerns(e, "link", id)
    BY <2>1 DEF Concerns
  <2>4. CASE e.id \in DOMAIN graph.nodes
    <3> HIDE DEF v, m
    <3>1. /\ graph'.nodes = [graph.nodes EXCEPT ![e.id].volume = v, ![e.id].mute = m]
          /\ graph'.cards = graph.cards /\ graph'.links = graph.links /\ graph'.default = graph.default
      BY <1>2, <2>2, <2>4
    <3>2. /\ DOMAIN graph'.nodes = DOMAIN graph.nodes
          /\ graph'.nodes[e.id].volume = v /\ graph'.nodes[e.id].mute = m
          /\ \A n \in DOMAIN graph.nodes : n # e.id => graph'.nodes[n] = graph.nodes[n]
      BY <2>4, <3>1 DEF CompleteInv, GraphTyped
    <3>3. \A n : ~Concerns(e, "value", n) => n # e.id
      BY <2>1 DEF Concerns
    <3>4. Noted(e, graph, graph')
      BY <2>1, <2>3, <3>1, <3>2, <3>3 DEF Noted, Present, v, m
    <3>5. QED BY <1>3, <2>1, <2>2, <2>4, <3>1, <3>2, <3>4 DEF Mirrored
  <2>5. CASE e.id \notin DOMAIN graph.nodes
    <3>1. Noted(e, graph, graph')
      BY <2>1, <2>2, <2>3, <2>5, NotedNothing
    <3>2. QED BY <1>3, <2>1, <2>2, <2>5, <3>1 DEF Mirrored
  <2>6. QED BY <2>4, <2>5
<1>12. CASE B!Params
  <2> DEFINE card == [profiles |-> Profiles, active |-> e.active]
  <2>1. e.on = "params" /\ asked' = asked
    BY <1>12 DEF B!Params, B!On
  <2>2. IF e.id \in DOMAIN graph.cards THEN graph' = [graph EXCEPT !.cards[e.id] = card] /\ v11' = graph'
        ELSE graph' = graph /\ v11' = v11
    BY Zenon, <1>12 DEF B!Params, B!Id, B!Publish
  <2>3. card.active = e.active
    OBVIOUS
  <2> HIDE DEF e, card
  <2>4. \A id : ~Concerns(e, "there", id) /\ ~Concerns(e, "link", id)
    BY <2>1 DEF Concerns
  <2>5. CASE e.id \in DOMAIN graph.cards
    <3>1. /\ graph'.cards = [graph.cards EXCEPT ![e.id] = card]
          /\ graph'.nodes = graph.nodes /\ graph'.links = graph.links /\ graph'.default = graph.default
      BY <1>2, <2>2, <2>5
    <3>2. /\ DOMAIN graph'.cards = DOMAIN graph.cards /\ graph'.cards[e.id] = card
          /\ \A c \in DOMAIN graph.cards : c # e.id => graph'.cards[c] = graph.cards[c]
      BY <2>5, <3>1
    <3>3. \A c : ~Concerns(e, "value", c) => c # e.id
      BY <2>1 DEF Concerns
    <3>4. Noted(e, graph, graph')
      BY <2>1, <2>3, <2>4, <3>1, <3>2, <3>3 DEF Noted, Present
    <3>5. QED BY <1>3, <2>1, <2>2, <2>5, <3>1, <3>2, <3>4 DEF Mirrored
  <2>6. CASE e.id \notin DOMAIN graph.cards
    <3>1. Noted(e, graph, graph')
      BY <2>1, <2>2, <2>4, <2>6, NotedNothing
    <3>2. QED BY <1>3, <2>1, <2>2, <2>6, <3>1 DEF Mirrored
  <2>7. QED BY <2>5, <2>6
<1>13. QED BY <1>4, <1>5, <1>6, <1>7, <1>8, <1>9, <1>10, <1>11, <1>12

\* Asking for more hides nothing.
LEMMA IdleKeeps ==
  ASSUME CompleteInv, ShownInv, UNCHANGED <<server, bound, told, graph, v11>>,
         NEW rs, Numbered(rs), asked' = asked \o rs, \A i \in 1..Len(rs) : rs[i].ask # "registry"
  PROVE  ShownInv'
<1>1. Numbered(asked)
  BY DEF CompleteInv
<1>2. RegistryOnce' /\ (asked # <<>> => asked' # <<>> /\ Head(asked') = Head(asked))
  BY <1>1, RegistryMore DEF ShownInv
<1>3. \A i \in 1..Len(asked) : \E j \in 1..Len(asked') : asked'[j] = asked[i]
  BY <1>1, StillAsked
<1>4. ASSUME ValuesTold(server, graph, told, asked, bound)
      PROVE  ValuesTold(server, graph, told, asked', bound)
  <2>1. ASSUME NEW id, \E i \in 1..Len(asked) : Enums(asked[i], id)
        PROVE  \E i \in 1..Len(asked') : Enums(asked'[i], id)
    BY <1>3, <2>1
  <2>2. QED BY <1>4, <2>1 DEF ValuesTold
<1>5. ASSUME WillBind(server, told, asked, bound)
      PROVE  WillBind(server, told, asked', bound)
  <2>1. ASSUME NEW id, \E i \in 1..Len(asked) : Binds(asked[i], id)
        PROVE  \E i \in 1..Len(asked') : Binds(asked'[i], id)
    BY <1>3, <2>1
  <2>2. QED BY <1>5, <2>1 DEF WillBind
<1>6. Opening' /\ Shaped' /\ Mirrored'
  BY <1>2 DEF ShownInv, Opening, Shaped, Mirrored
<1>7. QED BY <1>2, <1>4, <1>5, <1>6 DEF ShownInv

\* An order asks for none of it again.
LEMMA ExecuteAsks ==
  ASSUME B!Execute
  PROVE  \E rs : Numbered(rs) /\ asked' = asked \o rs /\ \A i \in 1..Len(rs) : rs[i].ask # "registry"
<1> DEFINE c == Head(ordered)
           node == graph.nodes[c.id]
           level == B!Min({MaxVolume, B!Max({1, node.volume + c.to}) - 1})
           loud == [volume |-> level]
           still == [mute |-> ~node.mute]
           via == IF node.card \in v6 THEN node.card ELSE Nothing
           first == [ask |-> "write", id |-> c.id, set |-> loud, via |-> via]
           second == [ask |-> "write", id |-> c.id, set |-> still, via |-> via]
           profile == [ask |-> "profile", id |-> c.id, to |-> c.to]
           target == [ask |-> "target", id |-> c.id, to |-> c.to]
           default == [ask |-> "default", id |-> c.id, to |-> c.id]
<1>1. \/ asked' = asked \o <<>> \/ asked' = asked \o <<first>> \/ asked' = asked \o <<second>>
      \/ asked' = asked \o <<profile>> \/ asked' = asked \o <<target>> \/ asked' = asked \o <<default>>
  <2>1. B!Write(c.id, loud) = <<first>> /\ B!Write(c.id, still) = <<second>>
    BY Zenon DEF B!Write
  <2>2. \/ asked' = asked \o <<>> \/ asked' = asked \o B!Write(c.id, still) \/ asked' = asked \o B!Write(c.id, loud)
        \/ asked' = asked \o <<profile>> \/ asked' = asked \o <<target>> \/ asked' = asked \o <<default>>
    BY Zenon DEF B!Execute, B!Ask
  <2>3. QED BY Zenon, <2>1, <2>2
<1>2. /\ first.ask = "write" /\ second.ask = "write"
      /\ profile.ask = "profile" /\ target.ask = "target" /\ default.ask = "default"
  OBVIOUS
<1> HIDE DEF first, second, profile, target, default
<1>3. ASSUME NEW r, r.ask # "registry", asked' = asked \o <<r>>
      PROVE  \E rs : Numbered(rs) /\ asked' = asked \o rs /\ \A i \in 1..Len(rs) : rs[i].ask # "registry"
  <2> DEFINE rs == <<r>>
  <2>1. Numbered(rs) /\ Len(rs) = 1 /\ rs[1] = r
    BY ShortQueues
  <2>2. asked' = asked \o rs
    BY <1>3
  <2> HIDE DEF rs
  <2>3. QED BY <1>3, <2>1, <2>2
<1>4. CASE asked' = asked \o <<>>
  <2> DEFINE rs == <<>>
  <2>1. Numbered(rs) /\ Len(rs) = 0 /\ asked' = asked \o rs
    BY <1>4, ShortQueues
  <2> HIDE DEF rs
  <2>2. \A i \in 1..Len(rs) : rs[i].ask # "registry"
    BY <2>1
  <2>3. QED BY <2>1, <2>2
<1>5. QED BY <1>1, <1>2, <1>3, <1>4

\* Whatever the engine does on an event, and a user does.
LEMMA EngineShows ==
  ASSUME CompleteInv, ShownInv, Distinct, B!Engine
  PROVE  ShownInv'
<1>1. CASE B!OnNode
  <2>1. \E rs : Heeds(rs)
    BY <1>1, NodeHeeds DEF ShownInv
  <2>2. QED BY <2>1, HeedsKeeps
<1>2. CASE \/ B!OnDevice \/ B!OnMetadata \/ B!Done \/ B!Removed \/ B!Linked \/ B!Unlinked \/ B!Default
           \/ B!Info \/ B!Measured \/ B!Changed \/ B!Params
  <2>1. \E rs : Heeds(rs)
    BY <1>2, EventHeeds DEF ShownInv
  <2>2. QED BY <2>1, HeedsKeeps
<1>3. CASE B!Execute
  <2>1. UNCHANGED <<server, bound, told, graph, v11>>
    BY <1>3 DEF B!Execute, B!pipewire, B!mirror
  <2>2. QED BY <1>3, <2>1, ExecuteAsks, IdleKeeps
<1>4. QED BY <1>1, <1>2, <1>3 DEF B!Engine

LEMMA PickerShows ==
  ASSUME CompleteInv, ShownInv,
         \/ B!Frame \/ B!EditQuery \/ B!Move \/ B!Enter \/ B!AskProfile \/ B!Adjust \/ B!Choose
         \/ UNCHANGED B!vars
  PROVE  ShownInv'
<1>1. UNCHANGED <<server, bound, asked, told, graph, v11>>
  BY DEF B!Frame, B!EditQuery, B!Move, B!Enter, B!AskProfile, B!Adjust, B!Choose, B!Key, B!vars, B!pipewire, B!wire, B!mirror
<1> DEFINE rs == <<>>
<1>2. Numbered(rs) /\ Len(rs) = 0 /\ asked' = asked \o rs
  BY <1>1, Joining, ShortQueues DEF CompleteInv
<1> HIDE DEF rs
<1>3. \A i \in 1..Len(rs) : rs[i].ask # "registry"
  BY <1>2
<1>4. QED BY <1>1, <1>2, <1>3, IdleKeeps

-----------------------------------------------------------------------------
(***************************************************************************)
(* What PipeWire does is told: what changed by its last event, and what    *)
(* the engine newly hears of at once. What no event is about is the same.  *)
(***************************************************************************)
SameAt(s, t, id) ==
  /\ id \in DOMAIN s.nodes <=> id \in DOMAIN t.nodes
  /\ id \in DOMAIN s.nodes => s.nodes[id] = t.nodes[id]
  /\ id \in DOMAIN s.cards <=> id \in DOMAIN t.cards
  /\ id \in DOMAIN s.cards => s.cards[id] = t.cards[id]

TellsDefault(es) == Metadata \in bound' =>
  DefaultTold(server', server, es) /\ (Metadata \in bound \/ ~Silent(es, "default", Metadata))

TellsValues(es) == \A id \in bound' \ {Registry, Metadata} :
  /\ Silent(es, "value", id) =>
       id \in bound /\ SameAt(server', server, id) /\ (asked' = asked \/ ~Enums(Head(asked), id))
  /\ \A i \in 1..Len(es) : LastAt(es, "value", id, i) => Says(server', es[i], id)

TellsNew(es) == \A id \in ({Metadata} \cup Present(server')) \ bound' :
  \/ \E i \in 1..Len(es) : Appears(es[i], id)
  \/ id \in ({Metadata} \cup Present(server)) \ bound /\ (asked' = asked \/ ~Binds(Head(asked), id))

TellsAll(es) == /\ ThereTold(server', server, es) /\ LinksTold(server', server, es)
                /\ TellsDefault(es) /\ TellsValues(es) /\ TellsNew(es)

Moves == /\ UNCHANGED <<graph, v11>> /\ Shaped' /\ BoundThere(server', bound')
         /\ asked' = asked \/ (asked # <<>> /\ asked' = Tail(asked))

LEMMA AnsweringKeeps ==
  ASSUME CompleteInv, ShownInv, Moves, Registry \in bound, Registry \in bound',
         NEW es, Numbered(es), told' = told \o es, TellsAll(es)
  PROVE  ShownInv'
<1>1. /\ Numbered(told) /\ Numbered(asked) /\ RegistryOnce /\ Mirrored
      /\ ThereTold(server, graph, told) /\ LinksTold(server, graph, told)
      /\ Metadata \in bound => DefaultTold(server, graph, told)
      /\ ValuesTold(server, graph, told, asked, bound) /\ WillBind(server, told, asked, bound)
  BY DEF CompleteInv, ShownInv
<1>2. \A what, id :
        /\ Silent(told', what, id) => Silent(told, what, id) /\ Silent(es, what, id)
        /\ \A i \in 1..Len(told') : LastAt(told', what, id, i) =>
             \/ \E j \in 1..Len(es) : LastAt(es, what, id, j) /\ told'[i] = es[j]
             \/ Silent(es, what, id) /\ i \in 1..Len(told) /\ LastAt(told, what, id, i) /\ told'[i] = told[i]
  <2> DEFINE s == told
             u == told'
  <2>1. Numbered(s) /\ u = s \o es
    BY <1>1
  <2> HIDE DEF s, u
  <2>2. ASSUME NEW what, NEW id
        PROVE  /\ Silent(u, what, id) => Silent(s, what, id) /\ Silent(es, what, id)
               /\ \A i \in 1..Len(u) : LastAt(u, what, id, i) =>
                    \/ \E j \in 1..Len(es) : LastAt(es, what, id, j) /\ u[i] = es[j]
                    \/ Silent(es, what, id) /\ i \in 1..Len(s) /\ LastAt(s, what, id, i) /\ u[i] = s[i]
    BY <2>1, LastMore
  <2>3. QED BY <2>2 DEF s, u
<1>3. ThereTold(server', graph, told')
  <2>1. ThereTold(server', server, es)
    BY DEF TellsAll
  <2>2. ASSUME NEW id \in B!Nodes \cup B!Cards, Silent(told', "there", id)
        PROVE  id \in Present(graph) <=> id \in Present(server')
    BY <1>1, <1>2, <2>1, <2>2 DEF ThereTold
  <2>3. ASSUME NEW id \in B!Nodes \cup B!Cards, NEW i \in 1..Len(told'), LastAt(told', "there", id, i)
        PROVE  told'[i].on = "global" <=> id \in Present(server')
    <3>1. CASE \E j \in 1..Len(es) : LastAt(es, "there", id, j) /\ told'[i] = es[j]
      BY <2>1, <2>3, <3>1 DEF ThereTold
    <3>2. CASE Silent(es, "there", id) /\ i \in 1..Len(told) /\ LastAt(told, "there", id, i) /\ told'[i] = told[i]
      BY <1>1, <2>1, <2>3, <3>2 DEF ThereTold
    <3>3. QED BY <1>2, <2>3, <3>1, <3>2
  <2>4. QED BY <2>2, <2>3 DEF ThereTold
<1>4. LinksTold(server', graph, told')
  <2>1. LinksTold(server', server, es)
    BY DEF TellsAll
  <2>2. ASSUME NEW l, Silent(told', "link", l)
        PROVE  l \in graph.links <=> l \in server'.links
    BY <1>1, <1>2, <2>1, <2>2 DEF LinksTold
  <2>3. ASSUME NEW l, NEW i \in 1..Len(told'), LastAt(told', "link", l, i)
        PROVE  told'[i].on = "link" <=> l \in server'.links
    <3>1. CASE \E j \in 1..Len(es) : LastAt(es, "link", l, j) /\ told'[i] = es[j]
      BY <2>1, <2>3, <3>1 DEF LinksTold
    <3>2. CASE Silent(es, "link", l) /\ i \in 1..Len(told) /\ LastAt(told, "link", l, i) /\ told'[i] = told[i]
      BY <1>1, <2>1, <2>3, <3>2 DEF LinksTold
    <3>3. QED BY <1>2, <2>3, <3>1, <3>2
  <2>4. QED BY <2>2, <2>3 DEF LinksTold
<1>5. ASSUME Metadata \in bound' PROVE DefaultTold(server', graph, told')
  <2>1. DefaultTold(server', server, es) /\ (Metadata \in bound \/ ~Silent(es, "default", Metadata))
    BY <1>5 DEF TellsAll, TellsDefault
  <2>2. ASSUME Silent(told', "default", Metadata) PROVE graph.default = server'.default
    BY <1>1, <1>2, <2>1, <2>2 DEF DefaultTold
  <2>3. ASSUME NEW i \in 1..Len(told'), LastAt(told', "default", Metadata, i)
        PROVE  told'[i].id = server'.default
    <3>1. CASE \E j \in 1..Len(es) : LastAt(es, "default", Metadata, j) /\ told'[i] = es[j]
      BY <2>1, <2>3, <3>1 DEF DefaultTold
    <3>2. CASE Silent(es, "default", Metadata) /\ i \in 1..Len(told) /\ LastAt(told, "default", Metadata, i) /\ told'[i] = told[i]
      BY <1>1, <2>1, <2>3, <3>2 DEF DefaultTold
    <3>3. QED BY <1>2, <2>3, <3>1, <3>2
  <2>4. QED BY <2>2, <2>3 DEF DefaultTold
<1>6. ASSUME NEW i \in 1..Len(asked)
      PROVE  \/ asked' # asked /\ asked[i] = Head(asked)
             \/ \E j \in 1..Len(asked') : asked'[j] = asked[i]
  <2>1. CASE asked' = asked
    BY <2>1
  <2>2. CASE asked # <<>> /\ asked' = Tail(asked)
    <3>1. asked[i] = Head(asked) \/ \E j \in 1..Len(Tail(asked)) : Tail(asked)[j] = asked[i]
      BY <1>1, <2>2, StillAsked
    <3>2. QED BY <2>1, <2>2, <3>1
  <2>3. QED BY <2>1, <2>2 DEF Moves
<1>7. ValuesTold(server', graph, told', asked', bound')
  <2>1. ASSUME NEW id \in bound' \ {Registry, Metadata}, Silent(told', "value", id)
        PROVE  Agrees(server', graph, id) \/ \E i \in 1..Len(asked') : Enums(asked'[i], id)
    <3>1. id \in bound /\ SameAt(server', server, id) /\ (asked' = asked \/ ~Enums(Head(asked), id))
      BY <1>2, <2>1 DEF TellsAll, TellsValues
    <3>2. Agrees(server, graph, id) \/ \E i \in 1..Len(asked) : Enums(asked[i], id)
      BY <1>1, <1>2, <2>1, <3>1 DEF ValuesTold
    <3>3. CASE Agrees(server, graph, id)
      BY <3>1, <3>3 DEF Agrees, SameAt
    <3>4. CASE \E i \in 1..Len(asked) : Enums(asked[i], id)
      BY <1>6, <3>1, <3>4
    <3>5. QED BY <3>2, <3>3, <3>4
  <2>2. ASSUME NEW id \in bound' \ {Registry, Metadata}, NEW i \in 1..Len(told'), LastAt(told', "value", id, i)
        PROVE  Says(server', told'[i], id)
    <3>1. CASE \E j \in 1..Len(es) : LastAt(es, "value", id, j) /\ told'[i] = es[j]
      BY <2>2, <3>1 DEF TellsAll, TellsValues
    <3>2. CASE Silent(es, "value", id) /\ i \in 1..Len(told) /\ LastAt(told, "value", id, i) /\ told'[i] = told[i]
      <4>1. id \in bound /\ SameAt(server', server, id)
        BY <2>2, <3>2 DEF TellsAll, TellsValues
      <4>2. Says(server, told[i], id)
        BY <1>1, <2>2, <3>2, <4>1 DEF ValuesTold
      <4>3. QED BY <3>2, <4>1, <4>2 DEF Says, SameAt
    <3>3. QED BY <1>2, <2>2, <3>1, <3>2
  <2>3. QED BY <2>1, <2>2 DEF ValuesTold
<1>8. WillBind(server', told', asked', bound')
  <2>1. SUFFICES ASSUME NEW id \in ({Metadata} \cup Present(server')) \ bound'
                 PROVE  \/ \E i \in 1..Len(told') : Appears(told'[i], id)
                        \/ \E i \in 1..Len(asked') : Binds(asked'[i], id)
    BY DEF WillBind
  <2>2. CASE \E i \in 1..Len(es) : Appears(es[i], id)
    <3>1. PICK i \in 1..Len(es) : Appears(es[i], id)
      BY <2>2
    <3>2. \E j \in 1..Len(told') : told'[j] = es[i]
      BY <1>1, NowAsked
    <3>3. QED BY <3>1, <3>2
  <2>3. CASE id \in ({Metadata} \cup Present(server)) \ bound /\ (asked' = asked \/ ~Binds(Head(asked), id))
    <3>1. CASE \E i \in 1..Len(told) : Appears(told[i], id)
      <4>1. PICK i \in 1..Len(told) : Appears(told[i], id)
        BY <3>1
      <4>2. \E j \in 1..Len(told') : told'[j] = told[i]
        BY <1>1, StillAsked
      <4>3. QED BY <4>1, <4>2
    <3>2. CASE \E i \in 1..Len(asked) : Binds(asked[i], id)
      BY <1>6, <2>3, <3>2
    <3>3. QED BY <1>1, <2>3, <3>1, <3>2 DEF WillBind
  <2>4. QED BY <2>2, <2>3 DEF TellsAll, TellsNew
<1>9. RegistryOnce'
  <2>1. CASE asked' = asked
    BY <1>1, <2>1 DEF RegistryOnce
  <2>2. CASE asked # <<>> /\ asked' = Tail(asked)
    <3>1. \A i \in 1..Len(asked') : asked'[i].ask # "registry"
      BY <1>1, <2>2, RegistryLess
    <3>2. QED BY <3>1 DEF RegistryOnce
  <2>3. QED BY <2>1, <2>2 DEF Moves
<1>10. Opening' /\ Shaped' /\ Mirrored' /\ BoundThere(server', bound')
  BY <1>1 DEF Opening, Mirrored, Moves
<1>11. QED BY <1>3, <1>4, <1>5, <1>7, <1>8, <1>9, <1>10, Zenon DEF ShownInv, Moves

\* One event, or none.
LEMMA OneSays ==
  ASSUME NEW e
  PROVE  /\ Numbered(<<e>>)
         /\ \A i \in 1..Len(<<e>>) : <<e>>[i] = e
         /\ \E i \in 1..Len(<<e>>) : <<e>>[i] = e
         /\ \A what, id : /\ Silent(<<e>>, what, id) <=> ~Concerns(e, what, id)
                          /\ \A i \in 1..Len(<<e>>) : LastAt(<<e>>, what, id, i) => Concerns(e, what, id)
<1> DEFINE s == <<e>>
<1>1. Numbered(s) /\ Len(s) = 1 /\ s[1] = e
  BY ShortQueues
<1> HIDE DEF s
<1>2. \A i \in 1..1 : i = 1
  OBVIOUS
<1>3. \A what, id : /\ Silent(s, what, id) <=> ~Concerns(e, what, id)
                    /\ \A i \in 1..Len(s) : LastAt(s, what, id, i) => Concerns(e, what, id)
  BY <1>1, <1>2 DEF Silent, LastAt
<1>4. (\A i \in 1..Len(s) : s[i] = e) /\ \E i \in 1..Len(s) : s[i] = e
  BY <1>1, <1>2
<1>5. QED BY <1>1, <1>3, <1>4 DEF s

\* Where nothing comes, goes or is linked, and all that is asked for is told.
LEMMA StaysTold ==
  ASSUME NEW es, Present(server') = Present(server), server'.links = server.links, bound \subseteq bound',
         \A i \in 1..Len(es) : es[i].on \notin {"global", "remove", "link", "unlink"},
         asked' = asked \/ \A id : Binds(Head(asked), id) => id \in bound' \/ id \notin {Metadata} \cup Present(server')
  PROVE  ThereTold(server', server, es) /\ LinksTold(server', server, es) /\ TellsNew(es)
<1>1. \A id : \A i \in 1..Len(es) : ~Concerns(es[i], "there", id) /\ ~Concerns(es[i], "link", id)
  BY DEF Concerns
<1>2. \A id : \A i \in 1..Len(es) : ~LastAt(es, "there", id, i) /\ ~LastAt(es, "link", id, i)
  BY <1>1 DEF LastAt
<1>3. QED BY <1>2 DEF ThereTold, LinksTold, TellsNew

\* At most one thing changes, and whoever hears of it is told the new value.
LEMMA OneChanges ==
  ASSUME CompleteInv, ShownInv, Registry \in bound, Moves, bound' = bound,
         asked' = asked \/ Head(asked).ask \notin {"bind", "enum"},
         Present(server') = Present(server), server'.links = server.links,
         NEW x, NEW e, Told(x, <<e>>), e.on \notin {"global", "remove", "link", "unlink"},
         \A id \in bound \ {Registry, Metadata} :
           /\ id # x => SameAt(server', server, id)
           /\ id = x => Concerns(e, "value", id)
           /\ Concerns(e, "value", id) => Says(server', e, id),
         \/ x = Metadata /\ e.on = "default" /\ e.id = server'.default
         \/ e.on # "default" /\ server'.default = server.default
  PROVE  ShownInv'
<1>1. asked' = asked \/ \A id : ~Binds(Head(asked), id) /\ ~Enums(Head(asked), id)
  BY DEF Binds, Enums
<1>2. CASE x \in bound
  <2> DEFINE es == <<e>>
  <2>1. /\ Numbered(es) /\ told' = told \o es
        /\ \A i \in 1..Len(es) : es[i] = e
        /\ \A what, id : /\ Silent(es, what, id) <=> ~Concerns(e, what, id)
                         /\ \A i \in 1..Len(es) : LastAt(es, what, id, i) => Concerns(e, what, id)
    BY <1>2, OneSays DEF Told
  <2> HIDE DEF es
  <2>2. ThereTold(server', server, es) /\ LinksTold(server', server, es) /\ TellsNew(es)
    BY <1>1, <2>1, StaysTold
  <2>3. TellsValues(es)
    BY <1>1, <2>1 DEF TellsValues
  <2>4. TellsDefault(es)
    BY <2>1 DEF TellsDefault, DefaultTold, Concerns
  <2>5. QED BY <2>1, <2>2, <2>3, <2>4, AnsweringKeeps DEF TellsAll
<1>3. CASE x \notin bound
  <2> DEFINE es == <<>>
  <2>1. Numbered(es) /\ told' = told \o es /\ Len(es) = 0
    BY <1>3, Joining, ShortQueues DEF Told, CompleteInv
  <2> HIDE DEF es
  <2>2. ThereTold(server', server, es) /\ LinksTold(server', server, es) /\ TellsNew(es)
    BY <1>1, <2>1, StaysTold
  <2>3. TellsValues(es)
    BY <1>1, <1>3, <2>1 DEF TellsValues
  <2>4. TellsDefault(es)
    BY <1>3, <2>1 DEF TellsDefault, DefaultTold
  <2>5. QED BY <2>1, <2>2, <2>3, <2>4, AnsweringKeeps DEF TellsAll
<1>4. QED BY <1>2, <1>3

\* Nothing does.
LEMMA NothingChanges ==
  ASSUME CompleteInv, ShownInv, Registry \in bound, UNCHANGED <<server, bound, told, graph, v11>>,
         asked # <<>>, asked' = Tail(asked), Head(asked).ask \notin {"bind", "enum"}
  PROVE  ShownInv'
<1> DEFINE es == <<>>
<1>1. Numbered(es) /\ told' = told \o es /\ Len(es) = 0
  BY Joining, ShortQueues DEF CompleteInv
<1> HIDE DEF es
<1>2. \A id : ~Binds(Head(asked), id) /\ ~Enums(Head(asked), id)
  BY DEF Binds, Enums
<1>3. Moves
  BY DEF Moves, ShownInv, Shaped
<1>4. ThereTold(server', server, es) /\ LinksTold(server', server, es) /\ TellsNew(es)
  BY <1>1, <1>2, StaysTold
<1>5. TellsValues(es)
  BY <1>1, <1>2 DEF TellsValues, SameAt
<1>6. TellsDefault(es)
  BY <1>1 DEF TellsDefault, DefaultTold
<1>7. QED BY <1>1, <1>3, <1>4, <1>5, <1>6, AnsweringKeeps DEF TellsAll

\* What PipeWire tells of the registry is told only once it is asked for.
LEMMA OpeningKeeps ==
  ASSUME ShownInv, Registry \notin bound, UNCHANGED <<asked, told, graph, v11>>, bound' = {}, Shaped'
  PROVE  ShownInv'
<1>1. Opening' /\ RegistryOnce' /\ Mirrored' /\ BoundThere(server', bound')
  BY DEF ShownInv, Opening, RegistryOnce, Mirrored, BoundThere
<1>2. QED BY <1>1 DEF ShownInv

\* When links change, each that changed is told of as it is now.
LEMMA LinksTell ==
  ASSUME NEW old, NEW new, IsFiniteSet(old), IsFiniteSet(new), NEW l
  PROVE  /\ Silent(B!LinkEvents(old, new), "link", l) => (l \in new <=> l \in old)
         /\ \A i \in 1..Len(B!LinkEvents(old, new)) :
              Concerns(B!LinkEvents(old, new)[i], "link", l) => (B!LinkEvents(old, new)[i].on = "link" <=> l \in new)
<1> DEFINE less == [x \in old \ new |-> [on |-> "unlink", id |-> x]]
           more == [x \in new \ old |-> [on |-> "link", id |-> x]]
           T == {[on |-> "unlink", id |-> x] : x \in old \ new}
           U == {[on |-> "link", id |-> x] : x \in new \ old}
<1>1. IsFiniteSet(T) /\ IsFiniteSet(U)
  <2>1. IsFiniteSet(old \ new) /\ IsFiniteSet(new \ old)
    BY FS_Subset
  <2>2. T = {less[x] : x \in DOMAIN less} /\ U = {more[x] : x \in DOMAIN more}
    OBVIOUS
  <2>3. IsFiniteSet({less[x] : x \in DOMAIN less})
    BY <2>1, FiniteImage
  <2>4. IsFiniteSet({more[x] : x \in DOMAIN more})
    BY <2>1, FiniteImage
  <2>5. QED BY <2>2, <2>3, <2>4
<1>2. /\ \A e \in T : e.on = "unlink" /\ e.id \notin new
      /\ \A e \in U : e.on = "link" /\ e.id \in new
      /\ l \in old \ new => \E e \in T : e.on = "unlink" /\ e.id = l
      /\ l \in new \ old => \E e \in U : e.on = "link" /\ e.id = l
  <2>1. (\A e \in T : e.on = "unlink" /\ e.id \notin new) /\ \A e \in U : e.on = "link" /\ e.id \in new
    OBVIOUS
  <2>2. ASSUME l \in old \ new PROVE \E e \in T : e.on = "unlink" /\ e.id = l
    <3> DEFINE e == [on |-> "unlink", id |-> l]
    <3>1. e \in T /\ e.on = "unlink" /\ e.id = l
      BY <2>2
    <3>2. QED BY Zenon, <3>1
  <2>3. ASSUME l \in new \ old PROVE \E e \in U : e.on = "link" /\ e.id = l
    <3> DEFINE e == [on |-> "link", id |-> l]
    <3>1. e \in U /\ e.on = "link" /\ e.id = l
      BY <2>3
    <3>2. QED BY Zenon, <3>1
  <2>4. QED BY <2>1, <2>2, <2>3
<1>3. B!LinkEvents(old, new) = B!SetToSeq(T) \o B!SetToSeq(U)
  BY DEF B!LinkEvents
<1> HIDE DEF T, U
<1> DEFINE s == B!SetToSeq(T)
           t == B!SetToSeq(U)
           es == s \o t
<1>4. /\ Numbered(s) /\ Numbered(t) /\ (\A i \in 1..Len(s) : s[i] \in T) /\ (\A i \in 1..Len(t) : t[i] \in U)
      /\ (\A x \in T : \E i \in 1..Len(s) : s[i] = x) /\ (\A x \in U : \E i \in 1..Len(t) : t[i] = x)
  BY <1>1, Enumerated
<1> HIDE DEF s, t
<1>5. /\ \A i \in 1..Len(es) : \/ \E j \in 1..Len(s) : es[i] = s[j]
                               \/ \E j \in 1..Len(t) : es[i] = t[j]
      /\ \A i \in 1..Len(s) : \E j \in 1..Len(es) : es[j] = s[i]
      /\ \A i \in 1..Len(t) : \E j \in 1..Len(es) : es[j] = t[i]
  <2>1. Numbered(s) /\ Numbered(t)
    BY <1>4
  <2>2. \A i \in 1..Len(s \o t) : \/ \E j \in 1..Len(s) : (s \o t)[i] = s[j]
                                  \/ \E j \in 1..Len(t) : (s \o t)[i] = t[j]
    BY <2>1, TypedMore
  <2>3. ASSUME NEW i \in 1..Len(s) PROVE \E j \in 1..Len(s \o t) : (s \o t)[j] = s[i]
    BY <2>1, StillAsked
  <2>4. ASSUME NEW i \in 1..Len(t) PROVE \E j \in 1..Len(s \o t) : (s \o t)[j] = t[i]
    BY <2>1, NowAsked
  <2>5. QED BY <2>2, <2>3, <2>4
<1> HIDE DEF es
<1>6. (\A i \in 1..Len(es) : es[i] \in T \cup U) /\ \A e \in T \cup U : \E i \in 1..Len(es) : es[i] = e
  BY <1>4, <1>5
<1>7. ASSUME Silent(es, "link", l) PROVE l \in new <=> l \in old
  BY <1>2, <1>6, <1>7 DEF Silent, Concerns
<1>8. ASSUME NEW i \in 1..Len(es), Concerns(es[i], "link", l) PROVE es[i].on = "link" <=> l \in new
  BY <1>2, <1>6, <1>8 DEF Concerns
<1>9. QED BY <1>3, <1>7, <1>8 DEF es, s, t

\* What is asked about is told as it is.
LEMMA DetailsTell ==
  ASSUME Distinct, DOMAIN server.nodes \subseteq B!Nodes, DOMAIN server.cards \subseteq B!Cards, NEW id
  PROVE  /\ Numbered(B!Details(id))
         /\ \A i \in 1..Len(B!Details(id)) :
              /\ B!Details(id)[i].on \in {"info", "props", "params", "default"}
              /\ B!Details(id)[i].on = "default" => B!Details(id)[i].id = server.default
              /\ \A x : Concerns(B!Details(id)[i], "value", x) => Says(server, B!Details(id)[i], x)
         /\ id \in Present(server) => ~Silent(B!Details(id), "value", id)
         /\ id = Metadata => ~Silent(B!Details(id), "default", Metadata)
<1> DEFINE es == B!Details(id)
<1>1. CASE id \in DOMAIN server.nodes
  <2> DEFINE e == [on |-> "info", id |-> id]
             f == B!Props(id, server.nodes[id])
  <2>1. es = <<e, f>>
    BY <1>1 DEF B!Details
  <2>2. e.on = "info" /\ f.on = "props" /\ f.id = id /\ f.node = server.nodes[id]
    BY DEF B!Props
  <2> HIDE DEF es, e, f
  <2>3. Numbered(es) /\ Len(es) = 2 /\ es[1] = e /\ es[2] = f
    BY <2>1, ShortQueues
  <2>4. (\A i \in 1..2 : i = 1 \/ i = 2) /\ 2 \in 1..2
    OBVIOUS
  <2>5. (\A x : ~Concerns(e, "value", x)) /\ (\A x : Concerns(f, "value", x) <=> x = id)
    BY <2>2 DEF Concerns
  <2>6. Says(server, f, id)
    BY <1>1, <2>2 DEF Says
  <2>7. \A i \in 1..2 : /\ es[i].on \in {"info", "props"}
                        /\ \A x : Concerns(es[i], "value", x) => Says(server, es[i], x)
    BY <2>2, <2>3, <2>4, <2>5, <2>6
  <2>8. ~Silent(es, "value", id)
    BY <2>3, <2>4, <2>5 DEF Silent
  <2>9. id # Metadata
    BY <1>1 DEF Distinct
  <2>10. QED BY <2>3, <2>7, <2>8, <2>9 DEF es
<1>2. CASE id \notin DOMAIN server.nodes /\ id \in DOMAIN server.cards
  <2> DEFINE e == [on |-> "params", id |-> id, active |-> server.cards[id]]
  <2>1. es = <<e>>
    BY <1>2 DEF B!Details
  <2>2. e.on = "params" /\ e.id = id /\ e.active = server.cards[id]
    OBVIOUS
  <2> HIDE DEF es, e
  <2>3. /\ Numbered(es) /\ \A i \in 1..Len(es) : es[i] = e
        /\ \A what, x : Silent(es, what, x) <=> ~Concerns(e, what, x)
    BY <2>1, OneSays
  <2>4. \A x : Concerns(e, "value", x) <=> x = id
    BY <2>2 DEF Concerns
  <2>5. Says(server, e, id)
    BY <1>2, <2>2 DEF Says
  <2>6. id # Metadata
    BY <1>2 DEF Distinct
  <2>7. QED BY <2>2, <2>3, <2>4, <2>5, <2>6 DEF es
<1>3. CASE id \notin Present(server) /\ id = Metadata
  <2> DEFINE e == [on |-> "default", id |-> server.default]
  <2>1. es = <<e>>
    BY <1>3 DEF B!Details, Present
  <2>2. e.on = "default" /\ e.id = server.default
    OBVIOUS
  <2> HIDE DEF es, e
  <2>3. /\ Numbered(es) /\ \A i \in 1..Len(es) : es[i] = e
        /\ \A what, x : Silent(es, what, x) <=> ~Concerns(e, what, x)
    BY <2>1, OneSays
  <2>4. Concerns(e, "default", Metadata) /\ \A x : ~Concerns(e, "value", x)
    BY <2>2 DEF Concerns
  <2>5. QED BY <1>3, <2>2, <2>3, <2>4 DEF es
<1>4. CASE id \notin Present(server) /\ id # Metadata
  <2>1. es = <<>>
    BY <1>4 DEF B!Details, Present
  <2> HIDE DEF es
  <2>2. Numbered(es) /\ Len(es) = 0
    BY <2>1, ShortQueues
  <2>3. QED BY <1>4, <2>2 DEF es
<1>5. QED BY <1>1, <1>2, <1>3, <1>4 DEF Present

\* What there is is told, all of it.
LEMMA GlobalsTell ==
  ASSUME ServerTyped
  PROVE  /\ Numbered(B!Globals)
         /\ \A i \in 1..Len(B!Globals) :
              \/ B!Globals[i].on = "global" /\ B!Globals[i].id \in {Metadata} \cup Present(server)
              \/ B!Globals[i].on = "link" /\ B!Globals[i].id \in server.links
         /\ \A id \in {Metadata} \cup Present(server) : \E i \in 1..Len(B!Globals) : Appears(B!Globals[i], id)
         /\ \A l \in server.links : \E i \in 1..Len(B!Globals) : B!Globals[i].on = "link" /\ B!Globals[i].id = l
<1> DEFINE ids == {Metadata} \cup DOMAIN server.nodes \cup DOMAIN server.cards
           new == [id \in ids |-> [on |-> "global", id |-> id]]
           link == [l \in server.links |-> [on |-> "link", id |-> l]]
           T == {[on |-> "global", id |-> id] : id \in ids}
           U == {[on |-> "link", id |-> l] : l \in server.links}
<1>1. IsFiniteSet(T) /\ IsFiniteSet(U)
  <2>1. IsFiniteSet({Metadata} \cup DOMAIN server.nodes)
    BY FS_Singleton, FS_Union DEF ServerTyped
  <2>2. IsFiniteSet(ids) /\ IsFiniteSet(server.links)
    BY <2>1, FS_Union DEF ServerTyped
  <2>3. T = {new[id] : id \in DOMAIN new} /\ U = {link[l] : l \in DOMAIN link}
    OBVIOUS
  <2>4. IsFiniteSet({new[id] : id \in DOMAIN new})
    BY <2>2, FiniteImage
  <2>5. IsFiniteSet({link[l] : l \in DOMAIN link})
    BY <2>2, FiniteImage
  <2>6. QED BY <2>3, <2>4, <2>5
<1>2. (\A e \in T : e.on = "global" /\ e.id \in ids) /\ \A e \in U : e.on = "link" /\ e.id \in server.links
  OBVIOUS
<1>3. ASSUME NEW id \in ids PROVE \E e \in T : e.on = "global" /\ e.id = id
  <2> DEFINE e == [on |-> "global", id |-> id]
  <2>1. e \in T /\ e.on = "global" /\ e.id = id
    OBVIOUS
  <2>2. QED BY Zenon, <2>1
<1>4. ASSUME NEW l \in server.links PROVE \E e \in U : e.on = "link" /\ e.id = l
  <2> DEFINE e == [on |-> "link", id |-> l]
  <2>1. e \in U /\ e.on = "link" /\ e.id = l
    OBVIOUS
  <2>2. QED BY Zenon, <2>1
<1>5. B!Globals = B!SetToSeq(T) \o B!SetToSeq(U)
  BY DEF B!Globals
<1>6. ids = {Metadata} \cup Present(server)
  BY DEF Present
<1> HIDE DEF T, U, ids
<1> DEFINE s == B!SetToSeq(T)
           t == B!SetToSeq(U)
           es == s \o t
<1>7. /\ Numbered(s) /\ Numbered(t) /\ (\A i \in 1..Len(s) : s[i] \in T) /\ (\A i \in 1..Len(t) : t[i] \in U)
      /\ (\A x \in T : \E i \in 1..Len(s) : s[i] = x) /\ (\A x \in U : \E i \in 1..Len(t) : t[i] = x)
  BY <1>1, Enumerated
<1> HIDE DEF s, t
<1>8. /\ Numbered(es)
      /\ \A i \in 1..Len(es) : \/ \E j \in 1..Len(s) : es[i] = s[j]
                               \/ \E j \in 1..Len(t) : es[i] = t[j]
      /\ \A i \in 1..Len(s) : \E j \in 1..Len(es) : es[j] = s[i]
      /\ \A i \in 1..Len(t) : \E j \in 1..Len(es) : es[j] = t[i]
  <2>1. Numbered(s) /\ Numbered(t)
    BY <1>7
  <2>2. Numbered(s \o t) /\ \A i \in 1..Len(s \o t) : \/ \E j \in 1..Len(s) : (s \o t)[i] = s[j]
                                                      \/ \E j \in 1..Len(t) : (s \o t)[i] = t[j]
    BY <2>1, TypedMore
  <2>3. ASSUME NEW i \in 1..Len(s) PROVE \E j \in 1..Len(s \o t) : (s \o t)[j] = s[i]
    BY <2>1, StillAsked
  <2>4. ASSUME NEW i \in 1..Len(t) PROVE \E j \in 1..Len(s \o t) : (s \o t)[j] = t[i]
    BY <2>1, NowAsked
  <2>5. QED BY <2>2, <2>3, <2>4
<1>9. B!Globals = es
  BY <1>5 DEF es, s, t
<1> HIDE DEF es
<1>10. (\A i \in 1..Len(es) : es[i] \in T \cup U) /\ \A e \in T \cup U : \E i \in 1..Len(es) : es[i] = e
  BY <1>7, <1>8
<1>11. \A i \in 1..Len(es) : \/ es[i].on = "global" /\ es[i].id \in ids
                             \/ es[i].on = "link" /\ es[i].id \in server.links
  BY <1>2, <1>10
<1>12. (\A id \in ids : \E i \in 1..Len(es) : Appears(es[i], id))
       /\ \A l \in server.links : \E i \in 1..Len(es) : es[i].on = "link" /\ es[i].id = l
  BY <1>3, <1>4, <1>10 DEF Appears
<1>13. QED BY <1>6, <1>8, <1>9, <1>11, <1>12

\* The engine hears of the registry, and of all that is there.
LEMMA RegistryShows ==
  ASSUME CompleteInv, ShownInv, Distinct, Registry # Metadata, Registry \notin bound,
         asked # <<>>, asked' = Tail(asked), bound' = bound \cup {Registry}, told' = told \o B!Globals,
         UNCHANGED <<server, graph, v11>>
  PROVE  ShownInv'
<1> DEFINE es == B!Globals
<1>1. ServerTyped /\ Numbered(told) /\ Numbered(asked)
  BY DEF CompleteInv
<1>2. /\ Numbered(es)
      /\ \A i \in 1..Len(es) : \/ es[i].on = "global" /\ es[i].id \in {Metadata} \cup Present(server)
                               \/ es[i].on = "link" /\ es[i].id \in server.links
      /\ \A id \in {Metadata} \cup Present(server) : \E i \in 1..Len(es) : Appears(es[i], id)
      /\ \A l \in server.links : \E i \in 1..Len(es) : es[i].on = "link" /\ es[i].id = l
  BY <1>1, GlobalsTell
<1>3. told = <<>> /\ bound' = {Registry} /\ Present(graph) = {} /\ graph.links = {} /\ RegistryOnce /\ Mirrored /\ Shaped
  BY DEF ShownInv, Opening
<1> HIDE DEF es
<1>4. told' = es
  <2>1. PICK n \in Nat : es = [i \in 1..n |-> es[i]]
    BY <1>2 DEF Numbered
  <2> DEFINE T == {es[i] : i \in 1..n}
  <2>2. es \in [1..n -> T]
    BY <2>1
  <2> HIDE DEF T
  <2>3. es \in Seq(T)
    BY <2>2
  <2>4. <<>> \o es = es
    BY <2>3
  <2>5. QED BY <1>3, <2>4 DEF es
<1>5. Metadata \notin B!Nodes \cup B!Cards
  BY DEF Distinct
<1>6. ThereTold(server, graph, es)
  BY <1>2, <1>3, <1>5 DEF ThereTold, Silent, LastAt, Concerns, Appears
<1>7. LinksTold(server, graph, es)
  BY <1>2, <1>3 DEF LinksTold, Silent, LastAt, Concerns
<1>8. ValuesTold(server, graph, es, asked', bound') /\ Metadata \notin bound'
  BY <1>3 DEF ValuesTold
<1>9. WillBind(server, es, asked', bound')
  BY <1>2 DEF WillBind
<1>10. RegistryOnce'
  <2>1. \A i \in 1..Len(asked') : asked'[i].ask # "registry"
    BY <1>1, <1>3, RegistryLess
  <2>2. QED BY <2>1 DEF RegistryOnce
<1>11. Opening' /\ Shaped' /\ Mirrored' /\ BoundThere(server', bound')
  BY <1>3 DEF Opening, Shaped, Mirrored, BoundThere
<1>12. QED BY <1>4, <1>6, <1>7, <1>8, <1>9, <1>10, <1>11 DEF ShownInv

\* What is asked for is answered.
LEMMA ServeShows ==
  ASSUME CompleteInv, ShownInv, Distinct, Registry # Metadata, B!Serve
  PROVE  ShownInv'
<1> DEFINE r == Head(asked)
<1>1. /\ asked # <<>> /\ asked' = Tail(asked) /\ UNCHANGED <<graph, v11>>
      /\ ServerTyped /\ Numbered(asked) /\ Numbered(told)
  BY DEF B!Serve, B!mirror, CompleteInv
<1>2. (r.ask = "registry") = (Registry \notin bound)
  <2>1. 1 \in 1..Len(asked) /\ r = asked[1]
    BY <1>1, TypedLess
  <2>2. QED BY <2>1 DEF ShownInv, Opening, RegistryOnce
<1>3. CASE /\ r.ask = "registry" /\ bound' = bound \cup {Registry} /\ told' = told \o B!Globals
           /\ UNCHANGED server
  BY <1>1, <1>2, <1>3, RegistryShows
<1>4. CASE /\ r.ask = "bind" /\ told' = told \o B!Details(r.id)
           /\ bound' = bound \cup ({r.id} \cap ({Metadata} \cup DOMAIN server.nodes \cup DOMAIN server.cards))
           /\ UNCHANGED server
  <2> DEFINE es == B!Details(r.id)
  <2>1. /\ Numbered(es)
        /\ \A i \in 1..Len(es) :
              /\ es[i].on \in {"info", "props", "params", "default"}
              /\ es[i].on = "default" => es[i].id = server.default
              /\ \A x : Concerns(es[i], "value", x) => Says(server, es[i], x)
        /\ r.id \in Present(server) => ~Silent(es, "value", r.id)
        /\ r.id = Metadata => ~Silent(es, "default", Metadata)
    BY <1>1, DetailsTell DEF ServerTyped
  <2> HIDE DEF es
  <2>2. told' = told \o es
    BY <1>4 DEF es
  <2> HIDE DEF r
  <2>3. bound' = bound \cup ({r.id} \cap ({Metadata} \cup Present(server)))
    BY <1>4 DEF Present
  <2>4. Moves /\ Registry \in bound /\ Registry \in bound'
    BY <1>1, <1>2, <1>4, <2>3 DEF Moves, ShownInv, Shaped, BoundThere
  <2>5. \A id : (Binds(r, id) => id = r.id) /\ ~Enums(r, id)
    BY <1>4 DEF Binds, Enums
  <2>6. ThereTold(server', server, es) /\ LinksTold(server', server, es) /\ TellsNew(es)
    <3>1. \A id : Binds(r, id) => id \in bound' \/ id \notin {Metadata} \cup Present(server')
      BY <1>4, <2>3, <2>5
    <3>2. bound \subseteq bound' /\ Present(server') = Present(server) /\ server'.links = server.links
      BY <1>4, <2>3
    <3>3. \A i \in 1..Len(es) : es[i].on \notin {"global", "remove", "link", "unlink"}
      BY <2>1
    <3>4. QED BY <3>1, <3>2, <3>3, StaysTold DEF r
  <2>7. TellsValues(es)
    <3>1. ASSUME NEW id \in bound' \ {Registry, Metadata}, Silent(es, "value", id) PROVE id \in bound
      BY <2>1, <2>3, <3>1
    <3>2. \A id : SameAt(server', server, id)
      BY <1>4 DEF SameAt
    <3>3. \A id : \A i \in 1..Len(es) : LastAt(es, "value", id, i) => Says(server', es[i], id)
      BY <1>4, <2>1 DEF LastAt
    <3>4. QED BY <2>5, <3>1, <3>2, <3>3 DEF TellsValues, r
  <2>8. TellsDefault(es)
    <3>1. \A i \in 1..Len(es) : LastAt(es, "default", Metadata, i) => es[i].on = "default"
      BY DEF LastAt, Concerns
    <3>2. DefaultTold(server', server, es)
      BY <1>4, <2>1, <3>1 DEF DefaultTold
    <3>3. Metadata \in bound' => Metadata \in bound \/ r.id = Metadata
      BY <2>3
    <3>4. QED BY <2>1, <3>2, <3>3 DEF TellsDefault
  <2>9. QED BY <2>1, <2>2, <2>4, <2>6, <2>7, <2>8, AnsweringKeeps DEF TellsAll
<1>5. CASE r.ask = "enum" /\ told' = told \o B!Details(r.id) /\ UNCHANGED <<server, bound>>
  <2> DEFINE es == B!Details(r.id)
  <2>1. /\ Numbered(es)
        /\ \A i \in 1..Len(es) :
              /\ es[i].on \in {"info", "props", "params", "default"}
              /\ es[i].on = "default" => es[i].id = server.default
              /\ \A x : Concerns(es[i], "value", x) => Says(server, es[i], x)
        /\ r.id \in Present(server) => ~Silent(es, "value", r.id)
    BY <1>1, DetailsTell DEF ServerTyped
  <2> HIDE DEF es
  <2>2. told' = told \o es
    BY <1>5 DEF es
  <2> HIDE DEF r
  <2>3. Moves /\ Registry \in bound /\ Registry \in bound'
    BY <1>1, <1>2, <1>5 DEF Moves, ShownInv, Shaped, BoundThere
  <2>4. \A id : ~Binds(r, id) /\ (Enums(r, id) => id = r.id)
    BY <1>5 DEF Binds, Enums
  <2>5. ThereTold(server', server, es) /\ LinksTold(server', server, es) /\ TellsNew(es)
    <3>1. bound \subseteq bound' /\ Present(server') = Present(server) /\ server'.links = server.links
      BY <1>5
    <3>2. \A i \in 1..Len(es) : es[i].on \notin {"global", "remove", "link", "unlink"}
      BY <2>1
    <3>3. QED BY <2>4, <3>1, <3>2, StaysTold DEF r
  <2>6. TellsValues(es)
    <3>1. ASSUME NEW id \in bound' \ {Registry, Metadata}, Silent(es, "value", id) PROVE ~Enums(r, id)
      <4>1. id \in Present(server)
        BY <1>5 DEF ShownInv, BoundThere
      <4>2. QED BY <2>1, <2>4, <3>1, <4>1
    <3>2. \A id : SameAt(server', server, id)
      BY <1>5 DEF SameAt
    <3>3. \A id : \A i \in 1..Len(es) : LastAt(es, "value", id, i) => Says(server', es[i], id)
      BY <1>5, <2>1 DEF LastAt
    <3>4. QED BY <1>5, <3>1, <3>2, <3>3 DEF TellsValues, r
  <2>7. TellsDefault(es)
    <3>1. \A i \in 1..Len(es) : LastAt(es, "default", Metadata, i) => es[i].on = "default"
      BY DEF LastAt, Concerns
    <3>2. DefaultTold(server', server, es)
      BY <1>5, <2>1, <3>1 DEF DefaultTold
    <3>3. QED BY <1>5, <3>2 DEF TellsDefault
  <2>8. QED BY <2>1, <2>2, <2>3, <2>5, <2>6, <2>7, AnsweringKeeps DEF TellsAll
<1>6. CASE r.ask = "sync" /\ told' = Append(told, [on |-> "done", id |-> r.id]) /\ UNCHANGED <<server, bound>>
  <2> DEFINE e == [on |-> "done", id |-> r.id]
  <2>1. e.on = "done"
    OBVIOUS
  <2>2. Registry \in bound /\ Told(Registry, <<e>>)
    BY <1>2, <1>6, Joining DEF CompleteInv, Told
  <2> HIDE DEF e, r
  <2>3. Moves
    BY <1>1, <1>6 DEF Moves, ShownInv, Shaped, BoundThere
  <2>4. \A id : ~Concerns(e, "value", id) /\ SameAt(server', server, id)
    BY <1>6, <2>1 DEF Concerns, SameAt
  <2>5. Present(server') = Present(server) /\ server'.links = server.links /\ server'.default = server.default
    BY <1>6
  <2>6. QED BY <1>6, <2>1, <2>2, <2>3, <2>4, <2>5, OneChanges DEF r
<1>7. CASE /\ r.ask = "write" /\ bound' = bound
           /\ LET there == {r.id} \cap DOMAIN server.nodes
                  node == [f \in {"volume", "mute"} |-> IF f \in DOMAIN r.set THEN r.set[f] ELSE server.nodes[r.id][f]]
              IN /\ server' = [server EXCEPT !.nodes = [n \in DOMAIN @ |-> IF n = r.id THEN node ELSE @[n]]]
                 /\ B!Tell(r.id, IF there = {} THEN <<>> ELSE <<B!Props(r.id, node)>>)
  <2> DEFINE there == {r.id} \cap DOMAIN server.nodes
             node == [f \in {"volume", "mute"} |-> IF f \in DOMAIN r.set THEN r.set[f] ELSE server.nodes[r.id][f]]
             e == B!Props(r.id, node)
  <2>1. /\ server' = [server EXCEPT !.nodes = [n \in DOMAIN @ |-> IF n = r.id THEN node ELSE @[n]]]
        /\ Told(r.id, IF there = {} THEN <<>> ELSE <<e>>)
    BY <1>7 DEF B!Tell, Told
  <2>2. Levelled(node)
    BY DEF Levelled, Levels
  <2>3. (r.id \in DOMAIN server.nodes) = (there # {})
    OBVIOUS
  <2>4. e.on = "props" /\ e.id = r.id /\ e.node = node
    BY DEF B!Props
  <2> HIDE DEF node, r, there, e
  <2>5. /\ server'.cards = server.cards /\ server'.links = server.links /\ server'.default = server.default
        /\ server'.nodes = [n \in DOMAIN server.nodes |-> IF n = r.id THEN node ELSE server.nodes[n]]
        /\ DOMAIN server' = DOMAIN server
    BY <1>1, <2>1 DEF ServerTyped
  <2>6. DOMAIN server'.nodes = DOMAIN server.nodes /\ Present(server') = Present(server)
    BY <2>5 DEF Present
  <2>7. Shaped'
    BY <2>2, <2>5, <2>6 DEF ShownInv, Shaped
  <2>8. Moves /\ Registry \in bound
    BY <1>1, <1>2, <1>7, <2>6, <2>7 DEF Moves, ShownInv, BoundThere
  <2>9. \A id : id # r.id => SameAt(server', server, id)
    BY <2>5 DEF SameAt
  <2>10. CASE r.id \in DOMAIN server.nodes
    <3>1. Told(r.id, <<e>>)
      BY <2>1, <2>3, <2>10
    <3>2. \A id : Concerns(e, "value", id) <=> id = r.id
      BY <2>4 DEF Concerns
    <3>3. Says(server', e, r.id)
      BY <2>4, <2>5, <2>10 DEF Says
    <3>4. QED BY <1>7, <2>4, <2>5, <2>6, <2>8, <2>9, <3>1, <3>2, <3>3, OneChanges DEF r
  <2>11. CASE r.id \notin DOMAIN server.nodes
    <3>1. told' = told
      BY <2>1, <2>3, <2>11, Joining DEF Told, CompleteInv
    <3>2. server'.nodes = server.nodes
      BY <2>5, <2>11 DEF ShownInv, Shaped
    <3> DEFINE es == <<>>
    <3>3. Numbered(es) /\ told' = told \o es /\ Len(es) = 0
      BY <3>1, Joining, ShortQueues DEF CompleteInv
    <3> HIDE DEF es
    <3>4. \A id : ~Binds(r, id) /\ ~Enums(r, id)
      BY <1>7 DEF Binds, Enums
    <3>5. ThereTold(server', server, es) /\ LinksTold(server', server, es) /\ TellsNew(es)
      BY <1>7, <2>5, <2>6, <3>3, <3>4, StaysTold DEF r
    <3>6. TellsValues(es)
      BY <1>7, <2>5, <3>2, <3>3, <3>4 DEF TellsValues, SameAt, r
    <3>7. TellsDefault(es)
      BY <1>7, <2>5, <3>3 DEF TellsDefault, DefaultTold
    <3>8. QED BY <1>7, <2>8, <3>3, <3>5, <3>6, <3>7, AnsweringKeeps DEF TellsAll
  <2>12. QED BY <2>10, <2>11
<1>8. CASE /\ r.ask = "target" /\ bound' = bound
           /\ LET pair == IF Kind[r.id] = "Playback" THEN <<r.id, r.to>> ELSE <<r.to, r.id>>
                  links == (server.links \ B!Touching(server.links, r.id)) \cup {pair}
              IN server' = [server EXCEPT !.links = links] /\ B!Tell(Registry, B!LinkEvents(server.links, links))
  <2> DEFINE pair == IF Kind[r.id] = "Playback" THEN <<r.id, r.to>> ELSE <<r.to, r.id>>
             links == (server.links \ B!Touching(server.links, r.id)) \cup {pair}
             es == B!LinkEvents(server.links, links)
  <2>1. server' = [server EXCEPT !.links = links] /\ Told(Registry, es)
    BY <1>8 DEF B!Tell, Told
  <2>2. IsFiniteSet(server.links) /\ IsFiniteSet(links)
    <3>1. IsFiniteSet(server.links \ B!Touching(server.links, r.id))
      BY <1>1, FS_Subset DEF ServerTyped
    <3>2. QED BY <1>1, <3>1, FS_AddElement DEF ServerTyped
  <2> HIDE DEF links, r
  <2>3. Numbered(es) /\ \A i \in 1..Len(es) : es[i].on \in {"unlink", "link"}
    BY <2>2, LinkEventsOf
  <2>4. \A l : /\ Silent(es, "link", l) => (l \in links <=> l \in server.links)
               /\ \A i \in 1..Len(es) : Concerns(es[i], "link", l) => (es[i].on = "link" <=> l \in links)
    BY <2>2, LinksTell
  <2> HIDE DEF es
  <2>5. /\ server'.nodes = server.nodes /\ server'.cards = server.cards /\ server'.links = links
        /\ server'.default = server.default
    BY <1>1, <2>1 DEF ServerTyped
  <2>6. Moves /\ Registry \in bound /\ told' = told \o es
    BY <1>1, <1>2, <1>8, <2>1, <2>5 DEF Moves, ShownInv, BoundThere, Shaped, Present, Told
  <2>7. \A what, id : \A i \in 1..Len(es) : what # "link" => ~Concerns(es[i], what, id) /\ ~LastAt(es, what, id, i)
    BY <2>3 DEF Concerns, LastAt
  <2>8. ThereTold(server', server, es)
    BY <2>5, <2>7 DEF ThereTold, Present
  <2>9. LinksTold(server', server, es)
    BY <2>4, <2>5 DEF LinksTold, LastAt
  <2>10. \A id : ~Binds(r, id) /\ ~Enums(r, id)
    BY <1>8 DEF Binds, Enums
  <2>11. TellsValues(es)
    BY <1>8, <2>5, <2>7, <2>10 DEF TellsValues, SameAt, r
  <2>12. TellsDefault(es)
    BY <1>8, <2>5, <2>7 DEF TellsDefault, DefaultTold
  <2>13. TellsNew(es)
    BY <1>8, <2>5, <2>10 DEF TellsNew, Present, r
  <2>14. QED BY <1>8, <2>3, <2>6, <2>8, <2>9, <2>11, <2>12, <2>13, AnsweringKeeps DEF TellsAll
<1>9. CASE /\ r.ask = "default" /\ bound' = bound
           /\ server' = [server EXCEPT !.default[Kind[r.id]] = r.id]
           /\ B!Tell(Metadata, <<[on |-> "default", id |-> server'.default]>>)
  <2> DEFINE e == [on |-> "default", id |-> server'.default]
  <2>1. Told(Metadata, <<e>>)
    BY <1>9 DEF B!Tell, Told
  <2>2. e.on = "default" /\ e.id = server'.default
    OBVIOUS
  <2> HIDE DEF e, r
  <2>3. server'.nodes = server.nodes /\ server'.cards = server.cards /\ server'.links = server.links
    BY <1>1, <1>9 DEF ServerTyped
  <2>4. Moves /\ Registry \in bound
    BY <1>1, <1>2, <1>9, <2>3 DEF Moves, ShownInv, BoundThere, Shaped, Present
  <2>5. \A id : ~Concerns(e, "value", id) /\ SameAt(server', server, id)
    BY <2>2, <2>3 DEF Concerns, SameAt
  <2>6. Present(server') = Present(server)
    BY <2>3 DEF Present
  <2>7. QED BY <1>9, <2>1, <2>2, <2>3, <2>4, <2>5, <2>6, OneChanges DEF r
<1>10. CASE /\ r.ask = "profile" /\ r.id \in DOMAIN server.cards /\ bound' = bound
            /\ server' = [server EXCEPT !.cards[r.id] = r.to]
            /\ B!Tell(r.id, <<[on |-> "changed", id |-> r.id]>>)
  <2> DEFINE e == [on |-> "changed", id |-> r.id]
  <2>1. Told(r.id, <<e>>)
    BY <1>10 DEF B!Tell, Told
  <2>2. e.on = "changed" /\ e.id = r.id
    OBVIOUS
  <2> HIDE DEF e, r
  <2>3. /\ server'.nodes = server.nodes /\ server'.cards = [server.cards EXCEPT ![r.id] = r.to]
        /\ server'.links = server.links /\ server'.default = server.default
    BY <1>1, <1>10 DEF ServerTyped
  <2>4. DOMAIN server'.cards = DOMAIN server.cards /\ Present(server') = Present(server)
    BY <2>3 DEF Present
  <2>5. Moves /\ Registry \in bound
    <3>1. server'.cards = [c \in DOMAIN server'.cards |-> server'.cards[c]]
      BY <1>10, <2>3, <2>4 DEF ShownInv, Shaped
    <3>2. QED BY <1>1, <1>2, <1>10, <2>3, <2>4, <3>1 DEF Moves, ShownInv, BoundThere, Shaped
  <2>6. \A id : id # r.id => SameAt(server', server, id)
    BY <2>3, <2>4 DEF SameAt
  <2>7. \A id : Concerns(e, "value", id) <=> id = r.id
    BY <2>2 DEF Concerns
  <2>8. Says(server', e, r.id)
    BY <1>10, <2>2, <2>4 DEF Says
  <2>9. QED BY <1>10, <2>1, <2>2, <2>3, <2>4, <2>5, <2>6, <2>7, <2>8, OneChanges DEF r
<1>11. CASE r.ask \in {"target", "default", "profile"} /\ UNCHANGED <<server, bound, told>>
  BY <1>1, <1>2, <1>11, NothingChanges
<1>12. QED
  BY Zenon, <1>3, <1>4, <1>5, <1>6, <1>7, <1>8, <1>9, <1>10, <1>11 DEF B!Serve, B!pipewire

\* A volume and a mute, and another volume.
LEMMA LevelsOf ==
  ASSUME NEW a, NEW b
  PROVE  Levelled([volume |-> a, mute |-> b])
<1> DEFINE n == [volume |-> a, mute |-> b]
<1>1. DOMAIN n = Levels
  BY DEF Levels
<1>2. n = [f \in DOMAIN n |-> n[f]]
  OBVIOUS
<1>3. QED BY <1>1, <1>2 DEF Levelled

LEMMA LevelSet ==
  ASSUME NEW old, Levelled(old), NEW v
  PROVE  Levelled([old EXCEPT !["volume"] = v])
<1> DEFINE n == [old EXCEPT !["volume"] = v]
<1>1. DOMAIN old = Levels
  BY DEF Levelled
<1>2. DOMAIN n = DOMAIN old
  OBVIOUS
<1>3. n = [f \in DOMAIN n |-> n[f]]
  OBVIOUS
<1>4. QED BY <1>1, <1>2, <1>3 DEF Levelled

\* Whoever turns a knob, what hears of it is told.
LEMMA TurnShows ==
  ASSUME CompleteInv, ShownInv, Distinct, B!Turn
  PROVE  ShownInv'
<1>1. UNCHANGED <<asked, bound, graph, v11>> /\ ServerTyped /\ Shaped
  BY DEF B!Turn, B!World, B!mirror, CompleteInv, ShownInv
<1>2. PICK n \in DOMAIN server.nodes, v \in 0..MaxVolume :
        /\ server' = [server EXCEPT !.nodes[n].volume = v]
        /\ B!Tell(n, <<B!Props(n, server'.nodes[n])>>)
  BY DEF B!Turn
<1> DEFINE node == [server.nodes[n] EXCEPT !["volume"] = v]
           e == B!Props(n, server'.nodes[n])
<1>3. Told(n, <<e>>)
  BY <1>2 DEF B!Tell, Told
<1>4. e.on = "props" /\ e.id = n /\ e.node = server'.nodes[n]
  BY DEF B!Props
<1>5. Levelled(node)
  BY <1>1, LevelSet DEF Shaped
<1>6. /\ server'.cards = server.cards /\ server'.links = server.links /\ server'.default = server.default
      /\ server'.nodes = [server.nodes EXCEPT ![n] = node]
  BY <1>1, <1>2 DEF ServerTyped
<1> HIDE DEF node, e
<1>7. DOMAIN server'.nodes = DOMAIN server.nodes /\ Present(server') = Present(server)
  BY <1>6 DEF Present
<1>8. Shaped'
  <2>1. \A m \in DOMAIN server'.nodes : Levelled(server'.nodes[m])
    BY <1>1, <1>5, <1>6, <1>7 DEF Shaped
  <2>2. server'.nodes = [m \in DOMAIN server'.nodes |-> server'.nodes[m]]
    BY <1>6
  <2>3. QED BY <1>1, <1>6, <2>1, <2>2 DEF Shaped
<1>9. CASE Registry \in bound
  <2>1. Moves
    BY <1>1, <1>7, <1>8 DEF Moves, ShownInv, BoundThere
  <2>2. \A id : id # n => SameAt(server', server, id)
    BY <1>6, <1>7 DEF SameAt
  <2>3. \A id : Concerns(e, "value", id) <=> id = n
    BY <1>4 DEF Concerns
  <2>4. Says(server', e, n)
    BY <1>4, <1>7 DEF Says
  <2>5. QED BY <1>1, <1>3, <1>4, <1>6, <1>7, <1>9, <2>1, <2>2, <2>3, <2>4, OneChanges
<1>10. CASE Registry \notin bound
  <2>1. bound = {} /\ told' = told
    BY <1>3, <1>10 DEF ShownInv, Opening, Told
  <2>2. QED BY <1>1, <1>8, <1>10, <2>1, OpeningKeeps
<1>11. QED BY <1>9, <1>10

LEMMA SwitchShows ==
  ASSUME CompleteInv, ShownInv, Distinct, B!Switch
  PROVE  ShownInv'
<1>1. UNCHANGED <<asked, bound, graph, v11>> /\ ServerTyped /\ Shaped
  BY DEF B!Switch, B!World, B!mirror, CompleteInv, ShownInv
<1>2. PICK c \in DOMAIN server.cards, p \in Profiles :
        /\ server' = [server EXCEPT !.cards[c] = p]
        /\ B!Tell(c, <<[on |-> "changed", id |-> c]>>)
  BY DEF B!Switch
<1> DEFINE e == [on |-> "changed", id |-> c]
<1>3. Told(c, <<e>>)
  BY <1>2 DEF B!Tell, Told
<1>4. e.on = "changed" /\ e.id = c
  OBVIOUS
<1> HIDE DEF e
<1>5. /\ server'.nodes = server.nodes /\ server'.links = server.links /\ server'.default = server.default
      /\ server'.cards = [server.cards EXCEPT ![c] = p]
  BY <1>1, <1>2 DEF ServerTyped
<1>6. DOMAIN server'.cards = DOMAIN server.cards /\ Present(server') = Present(server)
  BY <1>5 DEF Present
<1>7. Shaped'
  <2>1. server'.cards = [d \in DOMAIN server'.cards |-> server'.cards[d]]
    BY <1>5
  <2>2. QED BY <1>1, <1>5, <2>1 DEF Shaped
<1>8. CASE Registry \in bound
  <2>1. Moves
    BY <1>1, <1>6, <1>7 DEF Moves, ShownInv, BoundThere
  <2>2. \A id : id # c => SameAt(server', server, id)
    BY <1>5, <1>6 DEF SameAt
  <2>3. \A id : Concerns(e, "value", id) <=> id = c
    BY <1>4 DEF Concerns
  <2>4. Says(server', e, c)
    BY <1>4, <1>6 DEF Says
  <2>5. QED BY <1>1, <1>3, <1>4, <1>5, <1>6, <1>8, <2>1, <2>2, <2>3, <2>4, OneChanges
<1>9. CASE Registry \notin bound
  <2>1. bound = {} /\ told' = told
    BY <1>3, <1>9 DEF ShownInv, Opening, Told
  <2>2. QED BY <1>1, <1>7, <1>9, <2>1, OpeningKeeps
<1>10. QED BY <1>8, <1>9

\* What comes is told to be there.
LEMMA PlugShows ==
  ASSUME CompleteInv, ShownInv, Distinct, B!Plug
  PROVE  ShownInv'
<1>1. UNCHANGED <<asked, bound, graph, v11>> /\ ServerTyped /\ Shaped /\ BoundThere(server, bound)
  BY DEF B!Plug, B!World, B!mirror, CompleteInv, ShownInv
<1>2. PICK id \in B!Nodes \cup B!Cards :
        /\ id \notin DOMAIN server.nodes \cup DOMAIN server.cards
        /\ server' = IF id \in B!Nodes THEN [server EXCEPT !.nodes = B!Put(@, id, [volume |-> MaxVolume, mute |-> FALSE])]
                     ELSE [server EXCEPT !.cards = B!Put(@, id, CHOOSE p \in Profiles : TRUE)]
        /\ B!Tell(Registry, <<[on |-> "global", id |-> id]>>)
  BY DEF B!Plug
<1> DEFINE e == [on |-> "global", id |-> id]
<1>3. Told(Registry, <<e>>)
  BY <1>2 DEF B!Tell, Told
<1>4. e.on = "global" /\ e.id = id
  OBVIOUS
<1> HIDE DEF e
<1>5. id \notin bound /\ id \notin {Registry, Metadata}
  BY <1>1, <1>2 DEF BoundThere, Present, Distinct
<1>6. /\ Shaped' /\ Present(server') = Present(server) \cup {id}
      /\ server'.links = server.links /\ server'.default = server.default
      /\ \A x : x # id => SameAt(server', server, x)
  <2>1. CASE id \in B!Nodes
    <3> DEFINE node == [volume |-> MaxVolume, mute |-> FALSE]
    <3>1. Levelled(node)
      BY LevelsOf
    <3> HIDE DEF node
    <3>2. /\ server'.cards = server.cards /\ server'.links = server.links /\ server'.default = server.default
          /\ server'.nodes = B!Put(server.nodes, id, node)
      BY <1>1, <1>2, <2>1 DEF ServerTyped, node
    <3>3. /\ DOMAIN server'.nodes = DOMAIN server.nodes \cup {id}
          /\ server'.nodes = [n \in DOMAIN server'.nodes |-> server'.nodes[n]]
          /\ \A n \in DOMAIN server'.nodes : server'.nodes[n] = IF n = id THEN node ELSE server.nodes[n]
      BY <3>2 DEF B!Put
    <3>4. Shaped'
      BY <1>1, <3>1, <3>2, <3>3 DEF Shaped
    <3>5. Present(server') = Present(server) \cup {id} /\ \A x : x # id => SameAt(server', server, x)
      BY <3>2, <3>3 DEF Present, SameAt
    <3>6. QED BY <3>2, <3>4, <3>5
  <2>2. CASE id \notin B!Nodes
    <3> DEFINE p == CHOOSE p \in Profiles : TRUE
    <3> HIDE DEF p
    <3>1. /\ server'.nodes = server.nodes /\ server'.links = server.links /\ server'.default = server.default
          /\ server'.cards = B!Put(server.cards, id, p)
      BY <1>1, <1>2, <2>2 DEF ServerTyped, p
    <3>2. /\ DOMAIN server'.cards = DOMAIN server.cards \cup {id}
          /\ server'.cards = [c \in DOMAIN server'.cards |-> server'.cards[c]]
          /\ \A c \in DOMAIN server'.cards : server'.cards[c] = IF c = id THEN p ELSE server.cards[c]
      BY <3>1 DEF B!Put
    <3>3. Shaped'
      BY <1>1, <3>1, <3>2 DEF Shaped
    <3>4. Present(server') = Present(server) \cup {id} /\ \A x : x # id => SameAt(server', server, x)
      BY <3>1, <3>2 DEF Present, SameAt
    <3>5. QED BY <3>1, <3>3, <3>4
  <2>3. QED BY <2>1, <2>2
<1>7. CASE Registry \in bound
  <2> DEFINE es == <<e>>
  <2>1. /\ Numbered(es) /\ told' = told \o es
        /\ \A i \in 1..Len(es) : es[i] = e
        /\ \E i \in 1..Len(es) : es[i] = e
        /\ \A what, x : /\ Silent(es, what, x) <=> ~Concerns(e, what, x)
                        /\ \A i \in 1..Len(es) : LastAt(es, what, x, i) => Concerns(e, what, x)
    BY <1>3, <1>7, OneSays DEF Told
  <2> HIDE DEF es
  <2>2. /\ \A x : Concerns(e, "there", x) <=> x = id
        /\ \A x : Concerns(e, "value", x) <=> x = id
        /\ \A x : ~Concerns(e, "link", x) /\ ~Concerns(e, "default", x)
    BY <1>4 DEF Concerns
  <2>3. Moves
    BY <1>1, <1>6 DEF Moves, BoundThere
  <2>4. ThereTold(server', server, es)
    BY <1>4, <1>6, <2>1, <2>2 DEF ThereTold
  <2>5. LinksTold(server', server, es)
    BY <1>6, <2>1, <2>2 DEF LinksTold
  <2>6. TellsDefault(es)
    BY <1>1, <1>6, <2>1, <2>2 DEF TellsDefault, DefaultTold
  <2>7. TellsValues(es)
    BY <1>1, <1>5, <1>6, <2>1, <2>2 DEF TellsValues
  <2>8. TellsNew(es)
    BY <1>1, <1>4, <1>6, <2>1 DEF TellsNew, Appears
  <2>9. QED BY <1>1, <1>7, <2>1, <2>3, <2>4, <2>5, <2>6, <2>7, <2>8, AnsweringKeeps DEF TellsAll
<1>8. CASE Registry \notin bound
  <2>1. bound = {} /\ told' = told
    BY <1>3, <1>8 DEF ShownInv, Opening, Told
  <2>2. QED BY <1>1, <1>6, <1>8, <2>1, OpeningKeeps
<1>9. QED BY <1>7, <1>8

\* What goes is told to be gone, and its links before it.
LEMMA UnplugShows ==
  ASSUME CompleteInv, ShownInv, Distinct, B!Unplug
  PROVE  ShownInv'
<1>1. UNCHANGED <<asked, graph, v11>> /\ ServerTyped /\ Shaped /\ BoundThere(server, bound)
  BY DEF B!Unplug, B!World, B!mirror, CompleteInv, ShownInv
<1>2. PICK id \in DOMAIN server.nodes \cup DOMAIN server.cards :
        LET links == server.links \ B!Touching(server.links, id) IN
        /\ server' = [server EXCEPT !.nodes = B!Without(@, {id}), !.cards = B!Without(@, {id}), !.links = links]
        /\ B!Tell(Registry, B!LinkEvents(server.links, links) \o <<[on |-> "remove", id |-> id]>>)
        /\ bound' = bound \ {id}
  BY Zenon DEF B!Unplug
<1> DEFINE links == server.links \ B!Touching(server.links, id)
           s == B!LinkEvents(server.links, links)
           e == [on |-> "remove", id |-> id]
           t == <<e>>
           es == s \o t
<1>3. Told(Registry, es) /\ bound' = bound \ {id}
  BY <1>2 DEF B!Tell, Told
<1>4. server' = [server EXCEPT !.nodes = B!Without(@, {id}), !.cards = B!Without(@, {id}), !.links = links]
  BY <1>2
<1>5. IsFiniteSet(server.links) /\ IsFiniteSet(links)
  BY <1>1, FS_Subset DEF ServerTyped
<1>6. id \in B!Nodes \cup B!Cards /\ id \notin {Registry, Metadata}
  BY <1>1 DEF ServerTyped, Distinct
<1> HIDE DEF links
<1>7. /\ Shaped' /\ Present(server') = Present(server) \ {id}
      /\ server'.links = links /\ server'.default = server.default
      /\ \A x : x # id => SameAt(server', server, x)
  <2>1. /\ server'.links = links /\ server'.default = server.default
        /\ server'.nodes = B!Without(server.nodes, {id}) /\ server'.cards = B!Without(server.cards, {id})
    BY <1>1, <1>4 DEF ServerTyped
  <2>2. /\ DOMAIN server'.nodes = DOMAIN server.nodes \ {id} /\ DOMAIN server'.cards = DOMAIN server.cards \ {id}
        /\ \A n \in DOMAIN server'.nodes : server'.nodes[n] = server.nodes[n]
        /\ \A c \in DOMAIN server'.cards : server'.cards[c] = server.cards[c]
        /\ server'.nodes = [n \in DOMAIN server'.nodes |-> server'.nodes[n]]
        /\ server'.cards = [c \in DOMAIN server'.cards |-> server'.cards[c]]
    BY <2>1 DEF B!Without
  <2>3. Shaped'
    BY <1>1, <2>2 DEF Shaped
  <2>4. Present(server') = Present(server) \ {id} /\ \A x : x # id => SameAt(server', server, x)
    BY <2>2 DEF Present, SameAt
  <2>5. QED BY <2>1, <2>3, <2>4
<1>8. Numbered(s) /\ \A i \in 1..Len(s) : s[i].on \in {"unlink", "link"}
  BY <1>5, LinkEventsOf
<1>9. \A l : /\ Silent(s, "link", l) => (l \in links <=> l \in server.links)
             /\ \A i \in 1..Len(s) : Concerns(s[i], "link", l) => (s[i].on = "link" <=> l \in links)
  BY <1>5, LinksTell
<1>10. e.on = "remove" /\ e.id = id
  OBVIOUS
<1> HIDE DEF s, e
<1>11. CASE Registry \in bound
  <2>1. /\ Numbered(t) /\ \A i \in 1..Len(t) : t[i] = e
        /\ \E i \in 1..Len(t) : t[i] = e
        /\ \A what, x : Silent(t, what, x) <=> ~Concerns(e, what, x)
    BY OneSays
  <2> HIDE DEF t
  <2>2. /\ Numbered(es)
        /\ \A i \in 1..Len(es) : \/ \E j \in 1..Len(s) : es[i] = s[j]
                                 \/ \E j \in 1..Len(t) : es[i] = t[j]
    BY <1>8, <2>1, TypedMore
  <2>3. \A what, x : Silent(es, what, x) => Silent(s, what, x) /\ Silent(t, what, x)
    BY <1>8, <2>1, LastMore
  <2> HIDE DEF es
  <2>4. told' = told \o es
    BY <1>3, <1>11 DEF Told
  <2>5. \A i \in 1..Len(es) : (\E j \in 1..Len(s) : es[i] = s[j]) \/ es[i] = e
    BY <2>1, <2>2
  <2>6. /\ \A what, x : what # "link" => \A i \in 1..Len(es) : LastAt(es, what, x, i) => es[i] = e /\ Concerns(e, what, x)
        /\ \A what, x : Silent(es, what, x) => Silent(s, what, x) /\ ~Concerns(e, what, x)
    <3>1. \A what, x : \A j \in 1..Len(s) : Concerns(s[j], what, x) => what = "link"
      BY <1>8 DEF Concerns
    <3>2. QED BY <2>1, <2>3, <2>5, <3>1 DEF LastAt
  <2>7. /\ \A x : Concerns(e, "there", x) <=> x = id
        /\ \A x : Concerns(e, "value", x) <=> x = id
        /\ \A x : ~Concerns(e, "link", x) /\ ~Concerns(e, "default", x)
    BY <1>10 DEF Concerns
  <2>8. Moves /\ Registry \in bound'
    BY <1>1, <1>3, <1>6, <1>7, <1>11 DEF Moves, BoundThere
  <2>9. ThereTold(server', server, es)
    BY <1>7, <1>10, <2>6, <2>7 DEF ThereTold
  <2>10. LinksTold(server', server, es)
    <3>1. ASSUME NEW l, Silent(es, "link", l) PROVE l \in server.links <=> l \in server'.links
      BY <1>7, <1>9, <2>6, <3>1
    <3>2. ASSUME NEW l, NEW i \in 1..Len(es), LastAt(es, "link", l, i)
          PROVE  es[i].on = "link" <=> l \in server'.links
      <4>1. Concerns(es[i], "link", l)
        BY <3>2 DEF LastAt
      <4>2. PICK j \in 1..Len(s) : es[i] = s[j]
        BY <2>5, <2>7, <4>1
      <4>3. QED BY <1>7, <1>9, <4>1, <4>2
    <3>3. QED BY <3>1, <3>2 DEF LinksTold
  <2>11. TellsDefault(es)
    BY <1>3, <1>7, <2>6, <2>7 DEF TellsDefault, DefaultTold
  <2>12. TellsValues(es)
    BY <1>1, <1>3, <1>7, <2>6, <2>7 DEF TellsValues
  <2>13. TellsNew(es)
    BY <1>1, <1>3, <1>6, <1>7 DEF TellsNew
  <2>14. QED BY <1>11, <2>2, <2>4, <2>8, <2>9, <2>10, <2>11, <2>12, <2>13, AnsweringKeeps DEF TellsAll
<1>12. CASE Registry \notin bound
  <2>1. bound' = {} /\ told' = told
    BY <1>3, <1>12 DEF ShownInv, Opening, Told
  <2>2. QED BY <1>1, <1>7, <1>12, <2>1, OpeningKeeps
<1>13. QED BY <1>11, <1>12

\* At the start nothing is heard of, and all is asked for.
LEMMA ShownInit ==
  ASSUME B!Init
  PROVE  ShownInv
<1> DEFINE first == [ask |-> "registry"]
           second == [ask |-> "sync", id |-> 1]
           node == [volume |-> MaxVolume, mute |-> FALSE]
           card == CHOOSE p \in Profiles : TRUE
<1>1. /\ told = <<>> /\ asked = <<first, second>> /\ bound = {}
      /\ DOMAIN graph.nodes = {} /\ DOMAIN graph.cards = {} /\ graph.links = {} /\ v11 = graph
  BY DEF B!Init
<1>2. Numbered(asked) /\ Len(asked) = 2 /\ asked[1] = first /\ asked[2] = second
  BY <1>1, ShortQueues
<1>3. first.ask = "registry" /\ second.ask = "sync"
  OBVIOUS
<1>4. Shaped
  <2>1. PICK there \in Starts : /\ server.nodes = [n \in B!Nodes \cap there |-> node]
                                /\ server.cards = [c \in B!Cards \cap there |-> card]
    BY DEF B!Init
  <2>2. Levelled(node)
    BY LevelsOf
  <2> HIDE DEF node, card
  <2>3. QED BY <2>1, <2>2 DEF Shaped
<1> HIDE DEF first, second
<1>5. \A i \in 1..2 : i = 1 \/ i = 2
  OBVIOUS
<1>6. Opening
  <2>1. PICK n \in Nat : asked = [j \in 1..n |-> asked[j]]
    BY <1>2 DEF Numbered
  <2>2. asked # <<>>
    BY <1>1
  <2>3. Head(asked) = asked[1]
    BY <2>1, <2>2, Shorter
  <2>4. QED BY <1>1, <1>2, <1>3, <2>2, <2>3 DEF Opening, Present
<1>7. RegistryOnce
  BY <1>1, <1>2, <1>3, <1>5 DEF RegistryOnce
<1>8. Mirrored /\ BoundThere(server, bound)
  BY <1>1 DEF Mirrored, BoundThere
<1>9. QED BY <1>1, <1>4, <1>6, <1>7, <1>8 DEF ShownInv

LEMMA ShownStep ==
  ASSUME CompleteInv, ShownInv, Distinct, Registry # Metadata, [B!Next]_(B!vars)
  PROVE  ShownInv'
<1>1. CASE B!Serve
  BY <1>1, ServeShows
<1>2. CASE B!Plug \/ B!Unplug \/ B!Turn \/ B!Switch
  BY <1>2, PlugShows, UnplugShows, TurnShows, SwitchShows
<1>3. CASE B!Engine
  BY <1>3, EngineShows
<1>4. CASE \/ B!Frame \/ B!EditQuery \/ B!Move \/ B!Enter \/ B!AskProfile \/ B!Adjust \/ B!Choose
           \/ UNCHANGED B!vars
  BY <1>4, PickerShows
<1>5. QED BY <1>1, <1>2, <1>3, <1>4 DEF B!Next

\* Each step keeps what is told true.
THEOREM ShownInvariance ==
  ASSUME Distinct, Registry # Metadata, Nothing \notin Int, \A there \in Starts : IsFiniteSet(there)
  PROVE  ToolsSpec => [](tool = "bragi" => CompleteInv /\ ShownInv)
<1>1. ToolsInit => (tool = "bragi" => CompleteInv /\ ShownInv)
  BY CompleteInit, ShownInit DEF ToolsInit
<1>2. (tool = "bragi" => CompleteInv /\ ShownInv) /\ [ToolsNext]_run => (tool = "bragi" => CompleteInv /\ ShownInv)'
  BY ChosenSteps, CompleteStep, ShownStep
<1>3. QED BY <1>1, <1>2, PTL DEF ToolsSpec

(***************************************************************************)
(* bragi's commands are confirmed by their echoes alone, and those are     *)
(* enough: when all that was asked is answered and all answers are heard,  *)
(* a frame of the mirror shows the nodes with their volumes, the cards     *)
(* with their profiles, the links and the defaults that PipeWire has,      *)
(* whoever changed them and in whatever order it came and went.            *)
(***************************************************************************)
THEOREM ShownIsTrueCorrect ==
  ASSUME Distinct, Registry # Metadata, Nothing \notin Int, \A there \in Starts : IsFiniteSet(there)
  PROVE  ToolsSpec => []ShownIsTrue
<1>1. (tool = "bragi" => CompleteInv /\ ShownInv) => ShownIsTrue
  <2> DEFINE picture == window.audio
             nodes == [n \in DOMAIN picture.nodes |-> [volume |-> picture.nodes[n].volume, mute |-> picture.nodes[n].mute]]
             cards == [c \in DOMAIN picture.cards |-> picture.cards[c].active]
  <2>1. SUFFICES ASSUME CompleteInv, ShownInv, asked = <<>>, told = <<>>, picture = v11
                 PROVE  /\ nodes = server.nodes /\ cards = server.cards
                        /\ picture.links = server.links /\ picture.default = server.default
    BY DEF ShownIsTrue, B!ShownIsTrue
  <2>2. /\ Len(told) = 0 /\ Len(asked) = 0 /\ Registry \in bound
        /\ picture = graph /\ Shaped /\ Mirrored /\ ServerTyped /\ BoundThere(server, bound)
        /\ ThereTold(server, graph, told) /\ LinksTold(server, graph, told)
        /\ Metadata \in bound => DefaultTold(server, graph, told)
        /\ ValuesTold(server, graph, told, asked, bound) /\ WillBind(server, told, asked, bound)
    BY <2>1, ShortQueues DEF CompleteInv, ShownInv, Opening, Mirrored
  <2>3. \A what, id : Silent(told, what, id)
    BY <2>2 DEF Silent
  <2>4. {Metadata} \cup Present(server) \subseteq bound
    BY <2>2 DEF WillBind
  <2>5. picture.links = server.links /\ picture.default = server.default
    BY <2>2, <2>3, <2>4 DEF LinksTold, DefaultTold
  <2>6. \A id \in Present(server) : Agrees(server, graph, id)
    <3>1. \A id \in Present(server) : id \in bound \ {Registry, Metadata}
      BY <2>2, <2>4 DEF ServerTyped, Distinct, Present
    <3>2. QED BY <2>2, <2>3, <3>1 DEF ValuesTold
  <2>7. DOMAIN graph.nodes = DOMAIN server.nodes /\ DOMAIN graph.cards = DOMAIN server.cards
    <3>1. \A id \in B!Nodes \cup B!Cards : id \in Present(graph) <=> id \in Present(server)
      BY <2>2, <2>3 DEF ThereTold
    <3>2. \A id : ~(id \in B!Nodes /\ id \in B!Cards)
      BY DEF Distinct
    <3>3. QED BY <2>2, <3>1, <3>2 DEF Present, Mirrored, ServerTyped
  <2>8. nodes = server.nodes
    <3>1. ASSUME NEW n \in DOMAIN server.nodes PROVE nodes[n] = server.nodes[n]
      <4> DEFINE u == [volume |-> picture.nodes[n].volume, mute |-> picture.nodes[n].mute]
                 w == server.nodes[n]
      <4>1. Levelled(u) /\ Levelled(w)
        BY <2>2, LevelsOf DEF Shaped
      <4>2. u.volume = w.volume /\ u.mute = w.mute
        BY <2>2, <2>6 DEF Agrees, Present
      <4>3. nodes[n] = u
        BY <2>2, <2>7
      <4> HIDE DEF u, w, nodes
      <4>4. \A f \in Levels : f = "volume" \/ f = "mute"
        BY DEF Levels
      <4>5. \A f \in Levels : u[f] = w[f]
        BY <4>2, <4>4
      <4>6. u = w
        BY <4>1, <4>5 DEF Levelled
      <4>7. QED BY <4>3, <4>6 DEF w
    <3>2. DOMAIN nodes = DOMAIN server.nodes /\ nodes = [n \in DOMAIN nodes |-> nodes[n]]
      BY <2>2, <2>7
    <3> HIDE DEF nodes
    <3>3. QED BY <2>2, <3>1, <3>2 DEF Shaped
  <2>9. cards = server.cards
    <3>1. \A c \in DOMAIN server.cards : graph.cards[c].active = server.cards[c]
      BY <2>6 DEF Agrees, Present
    <3>2. QED BY <2>2, <2>7, <3>1 DEF Shaped
  <2>10. QED BY <2>5, <2>8, <2>9
<1>2. QED BY <1>1, ShownInvariance, PTL
=============================================================================
