--------------------------- MODULE HuginDaemonProofs ---------------------------
(***************************************************************************)
(* Theorems about HuginDaemon: any number of applications' selections and  *)
(* of users' copies and deletions, whatever is copied and was stored.      *)
(***************************************************************************)
EXTENDS HuginDaemon, SequenceTheorems, FiniteSetTheorems, WellFoundedInduction, TLAPS

-----------------------------------------------------------------------------
(* Channels.                                                               *)

\* Every list is one of its entries,
LEMMA Listed ==
  ASSUME NEW S, NEW r \in Seq(S)
  PROVE  IsSeq(r)
<1>1. Len(r) \in Nat /\ DOMAIN r = 1..Len(r) /\ r = [i \in 1..Len(r) |-> r[i]]
  BY LenProperties
<1>2. \A i \in 1..Len(r) : r[i] \in Range(r)
  BY <1>1 DEF Range
<1> DEFINE R == Range(r)
<1> HIDE DEF R
<1>3. r \in [1..Len(r) -> R]
  BY <1>1, <1>2 DEF R
<1>4. r \in Seq(R)
  BY <1>1, <1>3, SeqDef
<1>5. QED BY <1>4 DEF IsSeq, R

\* and of any more.
LEMMA Widened ==
  ASSUME NEW q, IsSeq(q), NEW e
  PROVE  q \in Seq(Range(q) \cup {e})
<1> DEFINE S == Range(q) \cup {e}
<1>1. q \in Seq(Range(q)) /\ Len(q) \in Nat /\ DOMAIN q = 1..Len(q)
  BY LenProperties DEF IsSeq
<1>2. \A i \in 1..Len(q) : q[i] \in S
  BY <1>1, ElementOfSeq
<1>3. q = [i \in 1..Len(q) |-> q[i]]
  BY <1>1, LenProperties
<1>4. QED BY <1>1, <1>2, <1>3, SeqDef

\* The empty list is one.
LEMMA Nothing == IsSeq(<<>>) /\ Len(<<>>) = 0 /\ 1..0 = {}
<1>1. <<>> \in Seq({}) /\ Range(<<>>) = {}
  BY EmptySeq DEF Range
<1>2. QED BY <1>1 DEF IsSeq

\* A channel and what is sent on it.
LEMMA Sent ==
  ASSUME NEW q, IsSeq(q), NEW e
  PROVE  /\ Len(q) \in Nat /\ IsSeq(Append(q, e)) /\ Len(Append(q, e)) = Len(q) + 1
         /\ \A i \in 1..Len(q) : Append(q, e)[i] = q[i]
         /\ Append(q, e)[Len(q) + 1] = e
<1> DEFINE S == Range(q) \cup {e}
           r == Append(q, e)
<1>1. q \in Seq(S)
  BY Widened
<1>2. /\ Len(q) \in Nat /\ r \in Seq(S) /\ Len(r) = Len(q) + 1
      /\ \A i \in 1..Len(q) : r[i] = q[i]
      /\ r[Len(q) + 1] = e
  BY <1>1, AppendProperties, LenProperties
<1>3. IsSeq(r)
  BY <1>2, Listed
<1>4. QED BY <1>2, <1>3

\* A channel and what is taken off it.
LEMMA Received ==
  ASSUME NEW q, IsSeq(q), q # <<>>
  PROVE  /\ Len(q) \in Nat \ {0} /\ Head(q) = q[1]
         /\ IsSeq(Tail(q)) /\ Len(Tail(q)) = Len(q) - 1
         /\ \A i \in 1..Len(Tail(q)) : i \in Nat /\ i + 1 \in 1..Len(q) /\ Tail(q)[i] = q[i + 1]
         /\ \A i \in 1..Len(q) : i # 1 => i - 1 \in 1..Len(Tail(q)) /\ Tail(q)[i - 1] = q[i]
<1> DEFINE r == Tail(q)
<1>1. q \in Seq(Range(q))
  BY DEF IsSeq
<1>2. /\ Len(q) \in Nat \ {0} /\ Head(q) = q[1] /\ r \in Seq(Range(q)) /\ Len(r) = Len(q) - 1
      /\ \A i \in 1..Len(r) : r[i] = q[i + 1]
  BY <1>1, HeadTailProperties, EmptySeq, LenProperties
<1>3. IsSeq(r)
  BY <1>2, Listed
<1>4. /\ \A i \in 1..Len(r) : i \in Nat /\ i + 1 \in 1..Len(q)
      /\ \A i \in 1..Len(q) : i # 1 => i - 1 \in 1..Len(r) /\ r[i - 1] = q[i]
  BY <1>2
<1>5. QED BY <1>2, <1>3, <1>4

\* One entry or none is added.
LEMMA Concats ==
  ASSUME NEW q, IsSeq(q), NEW e
  PROVE  q \o <<>> = q /\ q \o <<e>> = Append(q, e)
<1> DEFINE S == Range(q) \cup {e}
<1>1. q \in Seq(S)
  BY Widened
<1>2. QED BY <1>1, ConcatEmptySeq, AppendIsConcat

\* Every non-empty set of naturals has a least element.
LEMMA Least ==
  ASSUME NEW T, T \subseteq Nat, T # {}
  PROVE  \E m \in T : \A j \in T : m <= j
<1> DEFINE R == {ss \in Nat \X Nat : ss[1] < ss[2]}
<1>1. IsWellFoundedOn(R, Nat)
  BY NatLessThanWellFounded DEF OpToRel
<1>2. PICK x \in T : \A y \in T : ~(<<y, x>> \in R)
  <2> HIDE DEF R
  <2> QED BY <1>1, WFMin
<1>3. ASSUME NEW y \in T PROVE x <= y
  <2>1. x \in Nat /\ y \in Nat /\ <<y, x>> \notin R
    BY <1>2
  <2>2. <<y, x>>[1] = y /\ <<y, x>>[2] = x
    OBVIOUS
  <2>3. ~(y < x)
    BY <2>1, <2>2
  <2> HIDE DEF R
  <2>4. QED BY <2>1, <2>3
<1>4. QED BY <1>3

\* Among some rows there is a newest one.
LEMMA Newest ==
  ASSUME NEW n \in Nat, NEW T, T \subseteq 1..n, T # {}
  PROVE  Max(T) \in T /\ \A j \in T : j <= Max(T)
<1>1. \A j \in T : j \in Nat /\ n - j \in Nat
  OBVIOUS
<1> DEFINE U == {n - j : j \in T}
<1>2. U \subseteq Nat /\ U # {}
  <2>1. U \subseteq Nat
    BY <1>1
  <2>2. U # {}
    OBVIOUS
  <2>3. QED BY <2>1, <2>2
<1>3. PICK u \in U : \A v \in U : u <= v
  BY <1>2, Least
<1>4. PICK m \in T : u = n - m
  OBVIOUS
<1>5. ASSUME NEW j \in T PROVE m >= j
  <2>1. n - m <= n - j
    BY <1>3, <1>4
  <2>2. QED BY <1>1, <2>1
<1>6. Max(T) \in T /\ \A j \in T : Max(T) >= j
  BY <1>5 DEF Max
<1>7. QED BY <1>1, <1>6

-----------------------------------------------------------------------------
(* The inductive invariant: the clipboard.                                 *)

Es == 1..Len(events)
IsCancel(i) == events[i].kind = "cancelled"
Announces(i, o) == events[i].kind = "selection" /\ events[i].offer = o
Requested(s) == \E i \in 1..Len(requests) : requests[i] = s

\* What TypeOK says of the clipboard.
Names ==
  /\ IsSeq(offers) /\ IsSeq(requests) /\ IsSeq(events) /\ IsSeq(copies)
  /\ \A o \in Os : offers[o].selection \in Selections /\ offers[o].source \in Sources \cup {None}
  /\ DOMAIN current = Selections /\ \A sel \in Selections : current[sel] \in Os \cup {None}
  /\ sources \subseteq Sources
  /\ \A i \in 1..Len(requests) : requests[i] \in Sources
  /\ \A i \in Es :
       IF IsCancel(i) THEN events[i].source \in Sources
       ELSE /\ events[i].kind = "selection"
            /\ events[i].selection \in Selections /\ events[i].offer \in Os \cup {None}
  /\ \A s \in Sources : copies[s].selection \in Selections
  /\ echoes \subseteq Os

\* A source's offer is set once, when the compositor takes the request.
Owned == \A o \in Os : IsOwn(o) =>
  /\ copies[offers[o].source].selection = offers[o].selection
  /\ ~Requested(offers[o].source)
  /\ \A p \in Os : offers[p].source = offers[o].source => p = o

\* A selection has the offer that was set last.
Latest == \A sel \in Selections : current[sel] # None =>
  /\ offers[current[sel]].selection = sel
  /\ \A o \in Os : offers[o].selection = sel => o <= current[sel]

\* A source is requested once, and not cancelled while it is.
Distinct == \A i, j \in 1..Len(requests) : requests[i] = requests[j] => i = j
Asked == \A s \in Sources : Requested(s) =>
  s \in sources /\ \A j \in Es : IsCancel(j) => events[j].source # s

\* The daemon hears of its own offer before it hears that it is replaced.
Announced == \A i \in Es : \A o \in Os : Announces(i, o) =>
  /\ offers[o].selection = events[i].selection
  /\ IsOwn(o) => /\ offers[o].source \in sources
                 /\ \A j \in Es : IsCancel(j) /\ j < i => events[j].source # offers[o].source

\* It hears that its offer is replaced before it hears what by.
CancelledFirst == \A i, j \in Es : \A o, p \in Os :
  (/\ Announces(i, o) /\ IsCancel(j)
   /\ offers[p].source = events[j].source /\ offers[p].selection = offers[o].selection /\ p < o)
     => j < i

\* A source in the map is requested, on the clipboard, or about to be cancelled.
Held(s) == \E p \in Os : /\ offers[p].source = s
                         /\ IsLive(p) \/ \E j \in Es : IsCancel(j) /\ events[j].source = s
Kept == \A s \in sources : Requested(s) \/ Held(s)

ClipInv == Names /\ Owned /\ Latest /\ Distinct /\ Asked /\ Announced /\ CancelledFirst /\ Kept
           /\ EchoOnlyIfReplaced

-----------------------------------------------------------------------------
(* What the compositor does.                                               *)

\* offer is <<>> or <<e>>: the offers, and the selection's.
LEMMA OffersStep ==
  ASSUME Names, NEW sel \in Selections, NEW e, NEW offer, offer = <<>> \/ offer = <<e>>,
         Replace(sel, offer)
  PROVE  /\ IsSeq(offers') /\ Len(offers) \in Nat
         /\ \A o \in Os : o \in Os' /\ offers'[o] = offers[o]
         /\ offer = <<>> => Os' = Os /\ current'[sel] = None
         /\ offer = <<e>> => /\ Os' = Os \cup {Len(offers) + 1} /\ Len(offers) + 1 \notin Os
                             /\ offers'[Len(offers) + 1] = e /\ current'[sel] = Len(offers) + 1
         /\ DOMAIN current' = Selections
         /\ \A t \in Selections : t # sel => current'[t] = current[t]
<1>1. IsSeq(offers) /\ DOMAIN current = Selections /\ <<>> # <<e>>
  BY DEF Names
<1>2. current' = [current EXCEPT ![sel] = IF offer = <<>> THEN None ELSE Len(offers')]
  BY DEF Replace
<1>3. CASE offer = <<>>
  <2>1. offers' = offers
    BY <1>1, <1>3, Concats DEF Replace
  <2>2. Len(offers) \in Nat
    BY <1>1, Sent
  <2>3. QED BY <1>1, <1>2, <1>3, <2>1, <2>2 DEF Os
<1>4. CASE offer = <<e>>
  <2>1. offers' = Append(offers, e)
    BY <1>1, <1>4, Concats DEF Replace
  <2>2. /\ Len(offers) \in Nat /\ IsSeq(offers') /\ Len(offers') = Len(offers) + 1
        /\ \A o \in Os : offers'[o] = offers[o]
        /\ offers'[Len(offers) + 1] = e
    BY <1>1, <2>1, Sent DEF Os
  <2>3. Os' = Os \cup {Len(offers) + 1} /\ Len(offers) + 1 \notin Os
    BY <2>2 DEF Os
  <2>4. QED BY <1>1, <1>2, <1>4, <2>2, <2>3
<1>5. QED BY <1>3, <1>4

\* The cancellation of an own offer, then the announcement of the next.
LEMMA EventsStep ==
  ASSUME Names, NEW sel \in Selections, NEW offer, Replace(sel, offer)
  PROVE  /\ IsSeq(events') /\ Es \subseteq Es' /\ \A i \in Es : events'[i] = events[i]
         /\ \E m \in Es' \ Es :
              /\ events'[m] = [kind |-> "selection", selection |-> sel, offer |-> current'[sel]]
              /\ \A i \in Es' : i <= m
              /\ \A i \in Es' : i = m \/ i \in Es
                   \/ /\ current[sel] # None /\ IsOwn(current[sel]) /\ \A j \in Es : j < i
                      /\ events'[i] = [kind |-> "cancelled", source |-> offers[current[sel]].source]
              /\ current[sel] # None /\ IsOwn(current[sel]) => \E i \in Es' :
                   events'[i] = [kind |-> "cancelled", source |-> offers[current[sel]].source]
<1> DEFINE old == current[sel]
           gone == [kind |-> "cancelled", source |-> offers[old].source]
           set == [kind |-> "selection", selection |-> sel, offer |-> current'[sel]]
           cancelled == IF old # None /\ IsOwn(old) THEN <<gone>> ELSE <<>>
           first == events \o cancelled
           n == Len(events)
<1>1. events' = first \o <<set>> /\ IsSeq(events)
  BY DEF Replace, Names
<1>2. n \in Nat
  BY <1>1, Sent
<1>3. CASE old # None /\ IsOwn(old)
  <2>1. first = Append(events, gone)
    BY <1>1, <1>3, Concats
  <2> HIDE DEF first, set, gone, old
  <2>2. /\ IsSeq(first) /\ Len(first) = n + 1 /\ \A i \in 1..n : first[i] = events[i]
        /\ first[n + 1] = gone
    BY <1>1, <2>1, Sent
  <2>3. events' = Append(first, set)
    BY <1>1, <2>2, Concats
  <2>4. /\ IsSeq(events') /\ Len(events') = n + 2 /\ \A i \in 1..n : events'[i] = events[i]
        /\ events'[n + 1] = gone /\ events'[n + 2] = set
    <3>1. /\ IsSeq(events') /\ Len(events') = Len(first) + 1
          /\ \A i \in 1..Len(first) : events'[i] = first[i] /\ events'[Len(first) + 1] = set
      BY <2>2, <2>3, Sent
    <3>2. 1..Len(first) = 1..n \cup {n + 1} /\ Len(first) + 1 = n + 2
      BY <1>2, <2>2
    <3>3. QED BY <2>2, <3>1, <3>2
  <2>5. Es' = Es \cup {n + 1, n + 2} /\ n + 2 \notin Es /\ n + 1 \in Nat /\ n + 2 \in Nat
        /\ \A i \in Es : i < n + 1 /\ i <= n + 2
    BY <1>2, <2>4 DEF Es
  <2>6. n + 2 \in Es' \ Es /\ (\A i \in Es' : i <= n + 2)
    BY <1>2, <2>5
  <2>7. \A i \in Es' : i = n + 2 \/ i \in Es \/ (i = n + 1 /\ \A j \in Es : j < i)
    BY <2>5
  <2>8. QED BY <1>3, <2>4, <2>5, <2>6, <2>7 DEF set, gone, old, Es
<1>4. CASE ~(old # None /\ IsOwn(old))
  <2>1. first = events
    BY <1>1, <1>4, Concats
  <2> HIDE DEF first, set, gone, old
  <2>2. events' = Append(events, set)
    BY <1>1, <2>1, Concats
  <2>3. /\ IsSeq(events') /\ Len(events') = n + 1 /\ \A i \in 1..n : events'[i] = events[i]
        /\ events'[n + 1] = set
    <3>1. /\ IsSeq(Append(events, set)) /\ Len(Append(events, set)) = n + 1
          /\ \A i \in 1..n : Append(events, set)[i] = events[i]
          /\ Append(events, set)[n + 1] = set
      BY <1>1, Sent
    <3>2. QED BY <2>2, <3>1
  <2>4. Es' = Es \cup {n + 1} /\ n + 1 \notin Es /\ \A i \in Es' : i <= n + 1
    BY <1>2, <2>3 DEF Es
  <2>5. QED BY <1>4, <2>3, <2>4 DEF set, old, Es
<1>5. QED BY <1>3, <1>4

\* A compositor's step: e becomes the offer of sel, or nothing does.
Takes(sel, e, offer) ==
  /\ Replace(sel, offer)
  /\ offer = <<e>> => e.selection = sel
  /\ e.source # None => /\ offer = <<e>> /\ e.source \in Sources /\ Requested(e.source)
                        /\ copies[e.source].selection = sel
  /\ IsSeq(requests') /\ Distinct'
  /\ \A s : Requested(s)' => Requested(s) /\ s # e.source
  /\ \A s : Requested(s) => Requested(s)' \/ s = e.source
  /\ \A i \in 1..Len(requests') : requests'[i] \in Sources
  /\ UNCHANGED <<copies, sources, echoes>>

\* It keeps the invariant.
LEMMA TakesStep ==
  ASSUME ClipInv, NEW sel \in Selections, NEW e, NEW offer \in {<<>>, <<e>>}, Takes(sel, e, offer)
  PROVE  ClipInv'
<1>0. PICK l : l = Len(offers) + 1
  OBVIOUS
<1> DEFINE old == current[sel]
<1>1. Names /\ Replace(sel, offer) /\ <<>> # <<e>> /\ (offer = <<>> \/ offer = <<e>>)
  BY DEF ClipInv, Takes
<1>2. /\ IsSeq(offers') /\ Len(offers) \in Nat
      /\ \A o \in Os : o \in Os' /\ offers'[o] = offers[o]
      /\ offer = <<>> => Os' = Os /\ current'[sel] = None
      /\ offer = <<e>> => Os' = Os \cup {l} /\ l \notin Os /\ offers'[l] = e /\ current'[sel] = l
      /\ DOMAIN current' = Selections
      /\ \A t \in Selections : t # sel => current'[t] = current[t]
  <2>1. /\ IsSeq(offers') /\ Len(offers) \in Nat
        /\ \A o \in Os : o \in Os' /\ offers'[o] = offers[o]
        /\ offer = <<>> => Os' = Os /\ current'[sel] = None
        /\ offer = <<e>> => /\ Os' = Os \cup {Len(offers) + 1} /\ Len(offers) + 1 \notin Os
                            /\ offers'[Len(offers) + 1] = e /\ current'[sel] = Len(offers) + 1
        /\ DOMAIN current' = Selections
        /\ \A t \in Selections : t # sel => current'[t] = current[t]
    BY <1>1, OffersStep
  <2>2. QED BY <1>0, <2>1
<1>3. /\ IsSeq(events') /\ Es \subseteq Es' /\ \A i \in Es : events'[i] = events[i]
      /\ \E m \in Es' \ Es :
           /\ events'[m] = [kind |-> "selection", selection |-> sel, offer |-> current'[sel]]
           /\ \A i \in Es' : i <= m
           /\ \A i \in Es' : i = m \/ i \in Es
                \/ /\ current[sel] # None /\ IsOwn(current[sel]) /\ \A j \in Es : j < i
                   /\ events'[i] = [kind |-> "cancelled", source |-> offers[current[sel]].source]
           /\ current[sel] # None /\ IsOwn(current[sel]) => \E i \in Es' :
                events'[i] = [kind |-> "cancelled", source |-> offers[current[sel]].source]
  BY <1>1, EventsStep
<1>4. PICK m \in Es' \ Es :
        /\ events'[m] = [kind |-> "selection", selection |-> sel, offer |-> current'[sel]]
        /\ \A i \in Es' : i <= m
        /\ \A i \in Es' : i = m \/ i \in Es
             \/ /\ old # None /\ IsOwn(old) /\ \A j \in Es : j < i
                /\ events'[i] = [kind |-> "cancelled", source |-> offers[old].source]
        /\ old # None /\ IsOwn(old) => \E i \in Es' :
             events'[i] = [kind |-> "cancelled", source |-> offers[old].source]
  BY <1>3
<1>5. None \notin Nat /\ Os \subseteq Nat /\ l \in Nat /\ (\A o \in Os : o < l) /\ Es' \subseteq Nat
  BY <1>0, <1>2, <1>3, LenProperties, ClipboardAssumption DEF Os, Es, IsSeq
<1>6. \A o \in Os' : o \in Os \/ (offer = <<e>> /\ o = l)
  BY <1>1, <1>2
<1>7. (old # None => old \in Os /\ offers[old].selection = sel /\ \A o \in Os : offers[o].selection = sel => o <= old)
      /\ current'[sel] \in Os' \cup {None}
  BY <1>1, <1>2 DEF ClipInv, Names, Latest
<1>8. \A i \in Es' : IsCancel(i)' =>
        \/ i \in Es /\ IsCancel(i) /\ events'[i] = events[i]
        \/ old # None /\ IsOwn(old) /\ (\A j \in Es : j < i) /\ events'[i].source = offers[old].source
  BY <1>3, <1>4 DEF IsCancel
<1>9. \A i \in Es', o \in Os' : Announces(i, o)' =>
        \/ i \in Es /\ o \in Os /\ Announces(i, o) /\ events'[i] = events[i]
        \/ i = m /\ offer = <<e>> /\ o = l
  <2> SUFFICES ASSUME NEW i \in Es', NEW o \in Os', Announces(i, o)'
               PROVE  \/ i \in Es /\ o \in Os /\ Announces(i, o) /\ events'[i] = events[i]
                      \/ i = m /\ offer = <<e>> /\ o = l
    OBVIOUS
  <2>1. CASE i \in Es
    <3>1. events'[i] = events[i] /\ Announces(i, o)
      BY <1>3, <2>1 DEF Announces
    <3>2. o \in Os \cup {None} /\ o # None
      BY <1>1, <1>5, <1>6, <2>1, <3>1 DEF Names, Announces, IsCancel
    <3>3. QED BY <2>1, <3>1, <3>2
  <2>2. CASE i = m
    <3>1. events'[i].offer = o /\ events'[i].offer = current'[sel]
      BY <1>4, <2>2 DEF Announces
    <3>2. o # None
      BY <1>5, <1>6
    <3>3. QED BY <1>2, <2>2, <3>1, <3>2
  <2>3. i = m \/ i \in Es
    BY <1>4 DEF Announces
  <2>4. QED BY <2>1, <2>2, <2>3
<1>10. /\ copies' = copies /\ sources' = sources /\ echoes' = echoes /\ Sources' = Sources
       /\ offer = <<e>> => e.selection = sel
       /\ e.source # None => /\ offer = <<e>> /\ e.source \in Sources /\ Requested(e.source)
                             /\ copies[e.source].selection = sel
       /\ \A s : Requested(s)' => Requested(s) /\ s # e.source
       /\ \A s : Requested(s) => Requested(s)' \/ s = e.source
  BY DEF Takes, Sources
<1>11. Names'
  <2>1. IsSeq(copies') /\ IsSeq(requests') /\ IsSeq(offers') /\ IsSeq(events')
    BY <1>1, <1>2, <1>3, <1>10 DEF Names, Takes
  <2>2. \A o \in Os' : offers'[o].selection \in Selections /\ offers'[o].source \in Sources' \cup {None}
    BY <1>1, <1>2, <1>6, <1>10 DEF Names
  <2>3. \A t \in Selections : current'[t] \in Os' \cup {None}
    BY <1>1, <1>2, <1>7 DEF Names
  <2>4. \A i \in Es' :
          IF IsCancel(i)' THEN events'[i].source \in Sources'
          ELSE /\ events'[i].kind = "selection"
               /\ events'[i].selection \in Selections /\ events'[i].offer \in Os' \cup {None}
    <3> TAKE i \in Es'
    <3>1. CASE i \in Es
      <4>1. events'[i] = events[i]
        BY <1>3, <3>1
      <4>2. QED BY <1>1, <1>2, <1>10, <3>1, <4>1 DEF Names, IsCancel
    <3>2. CASE i = m
      BY <1>4, <1>7, <3>2 DEF IsCancel
    <3>3. CASE i # m /\ i \notin Es
      <4>1. events'[i] = [kind |-> "cancelled", source |-> offers[old].source] /\ old # None /\ IsOwn(old)
        BY <1>4, <3>3
      <4>2. offers[old].source \in Sources
        BY <1>1, <1>7, <4>1 DEF Names, IsOwn
      <4>3. QED BY <1>10, <4>1, <4>2 DEF IsCancel
    <3>4. QED BY <3>1, <3>2, <3>3
  <2>5. \A i \in 1..Len(requests') : requests'[i] \in Sources'
    BY <1>10 DEF Takes
  <2>6. sources' \subseteq Sources' /\ (\A s \in Sources' : copies'[s].selection \in Selections) /\ echoes' \subseteq Os'
    BY <1>1, <1>2, <1>10 DEF Names
  <2>7. QED BY <1>2, <2>1, <2>2, <2>3, <2>4, <2>5, <2>6 DEF Names
<1>12. Owned'
  <2> SUFFICES ASSUME NEW o \in Os', IsOwn(o)'
               PROVE  /\ copies[offers'[o].source].selection = offers'[o].selection
                      /\ ~Requested(offers[o].source)'
                      /\ \A p \in Os' : offers'[p].source = offers'[o].source => p = o
    BY <1>10 DEF Owned
  <2>1. \A p \in Os : IsOwn(p) => /\ ~Requested(offers[p].source)
                                  /\ copies[offers[p].source].selection = offers[p].selection
                                  /\ \A q \in Os : offers[q].source = offers[p].source => q = p
    BY DEF ClipInv, Owned
  <2>2. CASE o \in Os
    <3>1. offers'[o] = offers[o] /\ IsOwn(o)
      BY <1>2, <2>2 DEF IsOwn
    <3>2. ~Requested(offers[o].source)'
      BY <1>10, <2>1, <2>2, <3>1
    <3>3. ASSUME NEW p \in Os', offers'[p].source = offers[o].source PROVE p = o
      <4>1. CASE p \in Os
        BY <1>2, <2>1, <2>2, <3>1, <3>3, <4>1
      <4>2. CASE offer = <<e>> /\ p = l
        BY <1>2, <1>10, <2>1, <2>2, <3>1, <3>3, <4>2 DEF IsOwn
      <4>3. QED BY <1>6, <4>1, <4>2
    <3>4. QED BY <2>1, <2>2, <3>1, <3>2, <3>3
  <2>3. CASE offer = <<e>> /\ o = l
    <3>1. offers'[o] = e /\ e.source # None
      BY <1>2, <2>3 DEF IsOwn
    <3>2. ASSUME NEW p \in Os', offers'[p].source = e.source PROVE p = o
      <4>1. CASE p \in Os
        <5>1. offers[p].source = e.source /\ IsOwn(p)
          BY <1>2, <3>1, <3>2, <4>1 DEF IsOwn
        <5>2. QED BY <1>10, <2>1, <3>1, <4>1, <5>1
      <4>2. QED BY <1>6, <2>3, <4>1
    <3>3. QED BY <1>10, <2>3, <3>1, <3>2
  <2>4. QED BY <1>6, <2>2, <2>3
<1>13. Latest'
  <2> SUFFICES ASSUME NEW t \in Selections, current'[t] # None
               PROVE  /\ offers'[current'[t]].selection = t
                      /\ \A o \in Os' : offers'[o].selection = t => o <= current'[t]
    BY DEF Latest
  <2>1. CASE t = sel
    <3>1. current'[t] = l /\ offer = <<e>> /\ \A o \in Os : o <= l
      BY <1>2, <1>5, <2>1
    <3>2. \A o \in Os' : o <= current'[t]
      <4>1. l \in Nat /\ l <= l /\ \A q \in Os : q <= l
        BY <1>5
      <4>2. QED BY <1>6, <3>1, <4>1
    <3>3. offers'[current'[t]].selection = t
      BY <1>2, <1>10, <2>1, <3>1
    <3>4. QED BY <3>2, <3>3
  <2>2. CASE t # sel
    <3>1. current'[t] = current[t] /\ current[t] \in Os
      BY <1>1, <1>2, <2>2 DEF Names
    <3>2. offers[current[t]].selection = t /\ \A o \in Os : offers[o].selection = t => o <= current[t]
      BY <3>1 DEF ClipInv, Latest
    <3>3. ASSUME NEW o \in Os', offers'[o].selection = t PROVE o \in Os
      BY <1>2, <1>6, <1>10, <2>2, <3>3
    <3>4. QED BY <1>2, <3>1, <3>2, <3>3
  <2>3. QED BY <2>1, <2>2
<1>14. Distinct'
  BY DEF Takes
<1>15. \A p \in Os : IsOwn(p) => ~Requested(offers[p].source)
  BY DEF ClipInv, Owned
<1>16. Asked'
  <2> SUFFICES ASSUME NEW s \in Sources, Requested(s)'
               PROVE  s \in sources /\ \A j \in Es' : IsCancel(j)' => events'[j].source # s
    BY <1>10 DEF Asked
  <2>1. Requested(s) /\ s \in sources /\ \A j \in Es : IsCancel(j) => events[j].source # s
    BY <1>10 DEF ClipInv, Asked
  <2>2. QED BY <1>7, <1>8, <1>15, <2>1
<1>17. Announced'
  <2> SUFFICES ASSUME NEW i \in Es', NEW o \in Os', Announces(i, o)'
               PROVE  /\ offers'[o].selection = events'[i].selection
                      /\ IsOwn(o)' => /\ offers'[o].source \in sources
                                      /\ \A j \in Es' : IsCancel(j)' /\ j < i =>
                                           events'[j].source # offers'[o].source
    BY <1>10 DEF Announced
  <2>1. CASE i \in Es /\ o \in Os /\ Announces(i, o) /\ events'[i] = events[i]
    <3>1. offers'[o] = offers[o] /\ (IsOwn(o)' => IsOwn(o))
      BY <1>2, <2>1 DEF IsOwn
    <3>2. /\ offers[o].selection = events[i].selection
          /\ IsOwn(o) => /\ offers[o].source \in sources
                         /\ \A j \in Es : IsCancel(j) /\ j < i => events[j].source # offers[o].source
      BY <2>1 DEF ClipInv, Announced
    <3>3. ASSUME NEW j \in Es', IsCancel(j)', j < i
          PROVE  j \in Es /\ IsCancel(j) /\ events'[j] = events[j]
      <4>1. ~(i < j)
        BY <1>3, <1>5, <2>1, <3>3
      <4>2. QED BY <1>8, <2>1, <3>3, <4>1
    <3>4. QED BY <2>1, <3>1, <3>2, <3>3
  <2>2. CASE i = m /\ offer = <<e>> /\ o = l
    <3>1. offers'[o] = e /\ e.selection = sel /\ events'[i].selection = sel
      BY <1>2, <1>4, <1>10, <2>2
    <3>2. ASSUME IsOwn(o)', NEW j \in Es', IsCancel(j)'
          PROVE  e.source \in sources /\ events'[j].source # e.source
      <4>1. e.source \in Sources /\ Requested(e.source)
        BY <1>10, <3>1, <3>2 DEF IsOwn
      <4>2. e.source \in sources /\ \A k \in Es : IsCancel(k) => events[k].source # e.source
        BY <4>1 DEF ClipInv, Asked
      <4>3. QED BY <1>7, <1>8, <1>15, <3>2, <4>1, <4>2
    <3>3. IsOwn(o)' => e.source \in sources
      <4> SUFFICES ASSUME IsOwn(o)' PROVE e.source \in sources
        OBVIOUS
      <4>1. e.source \in Sources /\ Requested(e.source)
        BY <1>10, <3>1 DEF IsOwn
      <4>2. QED BY <4>1 DEF ClipInv, Asked
    <3>4. QED BY <3>1, <3>2, <3>3
  <2>3. QED BY <1>9, <2>1, <2>2
<1>18. CancelledFirst'
  <2> SUFFICES ASSUME NEW i \in Es', NEW j \in Es', NEW o \in Os', NEW p \in Os',
                      Announces(i, o)', IsCancel(j)', offers'[p].source = events'[j].source,
                      offers'[p].selection = offers'[o].selection, p < o
               PROVE  j < i
    BY DEF CancelledFirst
  <2>1. p \in Os /\ offers'[p] = offers[p]
    <3>1. ~(l < o)
      <4>1. l \in Nat /\ ~(l < l) /\ \A q \in Os : q \in Nat /\ ~(l < q)
        BY <1>5
      <4>2. QED BY <1>6, <4>1
    <3>2. p # l
      BY <3>1
    <3>3. QED BY <1>2, <1>6, <3>2
  <2>2. CASE i \in Es /\ o \in Os /\ Announces(i, o)
    <3>1. offers'[o] = offers[o]
      BY <1>2, <2>2
    <3>2. CASE j \in Es /\ IsCancel(j) /\ events'[j] = events[j]
      BY <2>1, <2>2, <3>1, <3>2 DEF ClipInv, CancelledFirst
    <3>3. CASE old # None /\ IsOwn(old) /\ events'[j].source = offers[old].source
      <4>1. p = old
        BY <1>7, <2>1, <3>3 DEF ClipInv, Owned
      <4>2. o <= old
        BY <1>7, <2>1, <2>2, <3>1, <3>3, <4>1
      <4>3. QED BY <1>5, <2>1, <2>2, <4>1, <4>2
    <3>4. QED BY <1>8, <3>2, <3>3
  <2>3. CASE i = m
    <3>1. j # m
      BY <1>4 DEF IsCancel
    <3>2. QED BY <1>4, <1>5, <2>3, <3>1
  <2>4. QED BY <1>9, <2>2, <2>3
<1>19. Kept'
  <2> SUFFICES ASSUME NEW s \in sources
               PROVE  Requested(s)' \/ Held(s)'
    BY <1>10 DEF Kept
  <2>1. CASE Requested(s)
    <3>1. CASE s = e.source
      <4>1. e.source # None
        BY <1>1, <1>5, <3>1 DEF Names, Sources
      <4>2. l \in Os' /\ offers'[l].source = s /\ IsLive(l)'
        BY <1>2, <1>10, <3>1, <4>1 DEF IsLive
      <4>3. QED BY <4>2 DEF Held
    <3>2. QED BY <1>10, <2>1, <3>1
  <2>2. CASE ~Requested(s)
    <3>1. PICK p \in Os : /\ offers[p].source = s
                          /\ IsLive(p) \/ \E j \in Es : IsCancel(j) /\ events[j].source = s
      BY <2>2 DEF ClipInv, Kept, Held
    <3>2. p \in Os' /\ offers'[p] = offers[p] /\ offers[p].selection \in Selections
      BY <1>1, <1>2 DEF Names
    <3>3. CASE \E j \in Es : IsCancel(j) /\ events[j].source = s
      <4>1. PICK j \in Es : IsCancel(j) /\ events[j].source = s
        BY <3>3
      <4>2. j \in Es' /\ IsCancel(j)' /\ events'[j].source = s
        BY <1>3, <4>1 DEF IsCancel
      <4>3. QED BY <3>1, <3>2, <4>2 DEF Held
    <3>4. CASE IsLive(p) /\ offers[p].selection # sel
      <4>1. IsLive(p)'
        BY <1>2, <3>2, <3>4 DEF IsLive
      <4>2. QED BY <3>1, <3>2, <4>1 DEF Held
    <3>5. CASE IsLive(p) /\ offers[p].selection = sel
      <4>1. s # None /\ p # None
        BY <1>1, <1>5 DEF Names, Sources
      <4>2. old = p /\ IsOwn(old)
        BY <3>1, <3>5, <4>1 DEF IsLive, IsOwn
      <4>3. PICK j \in Es' : events'[j] = [kind |-> "cancelled", source |-> offers[old].source]
        BY <1>4, <4>1, <4>2
      <4>4. IsCancel(j)' /\ events'[j].source = s
        BY <3>1, <4>2, <4>3 DEF IsCancel
      <4>5. QED BY <3>1, <3>2, <4>4 DEF Held
    <3>6. QED BY <3>1, <3>3, <3>4, <3>5
  <2>3. QED BY <2>1, <2>2
<1>20. EchoOnlyIfReplaced'
  <2> SUFFICES ASSUME NEW o \in echoes, ~IsOwn(o)'
               PROVE  \/ \E p \in (o + 1)..Len(offers') : IsOwn(p)' /\ offers'[p].selection = offers'[o].selection
                      \/ \E i \in 1..Len(requests') : copies[requests'[i]].selection = offers'[o].selection
    BY <1>10 DEF EchoOnlyIfReplaced
  <2>1. o \in Os /\ offers'[o] = offers[o] /\ ~IsOwn(o)
    BY <1>1, <1>2 DEF Names, IsOwn
  <2>2. Os' = 1..Len(offers') /\ \A p \in Os' : p \in o + 1..Len(offers') <=> o < p
    BY <1>5, <2>1 DEF Os
  <2>3. CASE \E p \in (o + 1)..Len(offers) : IsOwn(p) /\ offers[p].selection = offers[o].selection
    <3>1. PICK p \in (o + 1)..Len(offers) : IsOwn(p) /\ offers[p].selection = offers[o].selection
      BY <2>3
    <3>2. p \in Os /\ o < p
      BY <1>2, <2>1 DEF Os
    <3>3. p \in (o + 1)..Len(offers') /\ offers'[p] = offers[p] /\ IsOwn(p)'
      BY <1>2, <2>2, <3>1, <3>2 DEF IsOwn
    <3>4. QED BY <2>1, <3>1, <3>3
  <2>4. CASE \E i \in 1..Len(requests) : copies[requests[i]].selection = offers[o].selection
    <3>1. PICK i \in 1..Len(requests) : copies[requests[i]].selection = offers[o].selection
      BY <2>4
    <3>2. PICK s \in Sources : requests[i] = s /\ Requested(s)
      BY <1>1 DEF Requested, Names
    <3>3. CASE Requested(s)'
      BY <2>1, <3>1, <3>2, <3>3 DEF Requested
    <3>4. CASE s = e.source
      <4>1. e.source # None
        BY <1>1, <1>5, <3>4 DEF Names, Sources
      <4>2. l \in Os' /\ offers'[l] = e /\ e.selection = offers[o].selection /\ o < l
        BY <1>2, <1>5, <1>10, <2>1, <3>1, <3>2, <3>4, <4>1
      <4>3. l \in (o + 1)..Len(offers') /\ IsOwn(l)'
        BY <2>2, <4>1, <4>2 DEF IsOwn
      <4>4. QED BY <2>1, <4>2, <4>3
    <3>5. QED BY <1>10, <3>2, <3>3, <3>4
  <2>5. QED BY <2>1, <2>3, <2>4 DEF ClipInv, EchoOnlyIfReplaced
<1>21. QED BY <1>11, <1>12, <1>13, <1>14, <1>16, <1>17, <1>18, <1>19, <1>20 DEF ClipInv

\* An application's copy, its end, and the daemon's own copy are such steps.
LEMMA CompositorStep ==
  ASSUME ClipInv, Compositor
  PROVE  ClipInv'
<1>1. ClipInv /\ Names /\ Distinct /\ None \notin Nat
  BY ClipboardAssumption DEF ClipInv
<1>2. ASSUME UNCHANGED <<requests, copies, sources, echoes>>, NEW sel, NEW e, NEW offer, Replace(sel, offer),
             offer = <<e>> => e.selection = sel, e.source = None
      PROVE  Takes(sel, e, offer)
  <2>1. \A i \in 1..Len(requests) : requests[i] \in Sources
    BY <1>1 DEF Names
  <2>2. \A s : Requested(s) => s \in Sources /\ s # e.source
    BY <1>1, <1>2, <2>1 DEF Requested, Sources
  <2>3. (\A s : Requested(s)' <=> Requested(s)) /\ Distinct'
    BY <1>1, <1>2 DEF Requested, Distinct
  <2>4. IsSeq(requests') /\ \A i \in 1..Len(requests') : requests'[i] \in Sources
    BY <1>1, <1>2 DEF Names
  <2>5. QED BY <1>2, <2>2, <2>3, <2>4 DEF Takes
<1>3. ASSUME NEW sel \in Selections, NEW clip \in Clips, AppCopies(sel, clip)
      PROVE  ClipInv'
  <2>1. PICK e : e = [selection |-> sel, mimes |-> clip.mimes, value |-> clip.value, source |-> None]
    OBVIOUS
  <2>2. Replace(sel, <<e>>) /\ UNCHANGED <<requests, copies, sources, echoes>>
    BY <1>3, <2>1 DEF AppCopies
  <2>3. e.selection = sel /\ e.source = None
    BY <2>1
  <2>4. Takes(sel, e, <<e>>)
    BY <1>2, <2>2, <2>3
  <2>5. QED BY <1>1, <2>4, TakesStep
<1>4. ASSUME NEW sel \in Selections, AppGoes(sel)
      PROVE  ClipInv'
  <2>1. PICK e : e = [selection |-> sel, source |-> None]
    OBVIOUS
  <2>2. Replace(sel, <<>>) /\ UNCHANGED <<requests, copies, sources, echoes>>
    BY <1>4 DEF AppGoes
  <2>3. e.selection = sel /\ e.source = None
    BY <2>1
  <2>4. Takes(sel, e, <<>>)
    BY <1>2, <2>2, <2>3
  <2>5. QED BY <1>1, <2>4, TakesStep
<1>5. CASE SetOwn
  <2>1. /\ requests # <<>> /\ IsSeq(requests) /\ requests' = Tail(requests)
        /\ UNCHANGED <<copies, sources, echoes>>
    BY <1>1, <1>5 DEF SetOwn, Names
  <2>2. /\ Len(requests) \in Nat \ {0} /\ Head(requests) = requests[1] /\ IsSeq(requests')
        /\ \A i \in 1..Len(requests') : i \in Nat /\ i + 1 \in 1..Len(requests) /\ requests'[i] = requests[i + 1]
        /\ \A i \in 1..Len(requests) : i # 1 => i - 1 \in 1..Len(requests') /\ requests'[i - 1] = requests[i]
    BY <2>1, Received
  <2>3. PICK s : s = requests[1]
    OBVIOUS
  <2>4. 1 \in 1..Len(requests) /\ s \in Sources /\ Requested(s)
    BY <1>1, <2>2, <2>3 DEF Names, Requested
  <2>5. PICK sel \in Selections : sel = copies[s].selection
    BY <1>1, <2>4 DEF Names
  <2>6. PICK e : e = [selection |-> copies[s].selection, mimes |-> SetToSeq({p.mime : p \in copies[s].parts}),
                      value |-> Blank, source |-> s]
    OBVIOUS
  <2>7. Replace(sel, <<e>>)
    BY <1>5, <2>2, <2>3, <2>5, <2>6 DEF SetOwn
  <2>8. e.selection = sel /\ e.source = s
    BY <2>5, <2>6
  <2>9. \A r : Requested(r)' => Requested(r) /\ r # s
    <3> SUFFICES ASSUME NEW r, Requested(r)' PROVE Requested(r) /\ r # s
      OBVIOUS
    <3>1. PICK i \in 1..Len(requests') : requests'[i] = r
      BY DEF Requested
    <3>2. i + 1 \in 1..Len(requests) /\ requests[i + 1] = r /\ i + 1 # 1
      BY <2>2, <3>1
    <3>3. QED BY <1>1, <2>3, <2>4, <3>2 DEF Requested, Distinct
  <2>10. \A r : Requested(r) => Requested(r)' \/ r = s
    <3> SUFFICES ASSUME NEW r, Requested(r), r # s PROVE Requested(r)'
      OBVIOUS
    <3>1. PICK i \in 1..Len(requests) : requests[i] = r
      BY DEF Requested
    <3>2. i - 1 \in 1..Len(requests') /\ requests'[i - 1] = r
      BY <2>2, <2>3, <3>1
    <3>3. QED BY <3>2 DEF Requested
  <2>11. Distinct'
    <3> SUFFICES ASSUME NEW i \in 1..Len(requests'), NEW j \in 1..Len(requests'), requests'[i] = requests'[j]
                 PROVE  i = j
      BY DEF Distinct
    <3>1. i + 1 = j + 1 /\ i \in Nat /\ j \in Nat
      BY <1>1, <2>2 DEF Distinct
    <3>2. QED BY <3>1
  <2>12. \A i \in 1..Len(requests') : requests'[i] \in Sources
    BY <1>1, <2>2 DEF Names
  <2>13. Takes(sel, e, <<e>>)
    BY <2>1, <2>2, <2>4, <2>5, <2>7, <2>8, <2>9, <2>10, <2>11, <2>12 DEF Takes
  <2>14. QED BY <1>1, <2>13, TakesStep
<1>6. QED BY <1>3, <1>4, <1>5 DEF Compositor

-----------------------------------------------------------------------------
(* What the wayland thread does.                                           *)

\* Nothing of it.
LEMMA ClipStays ==
  ASSUME ClipInv, UNCHANGED <<offers, current, requests, events, copies, sources, echoes>>
  PROVE  ClipInv'
<1>1. Os' = Os /\ Es' = Es /\ Sources' = Sources
  BY DEF Os, Es, Sources
<1>2. /\ \A o \in Os : (IsOwn(o)' <=> IsOwn(o)) /\ (IsLive(o)' <=> IsLive(o))
      /\ \A i \in Es : (IsCancel(i)' <=> IsCancel(i)) /\ \A o \in Os : Announces(i, o)' <=> Announces(i, o)
      /\ \A s : Requested(s)' <=> Requested(s)
  BY DEF IsOwn, IsLive, IsCancel, Announces, Requested
<1>3. Names'
  BY <1>1, <1>2 DEF ClipInv, Names
<1>4. Owned' /\ Latest' /\ Distinct'
  BY <1>1, <1>2 DEF ClipInv, Owned, Latest, Distinct
<1>5. Asked' /\ Announced' /\ CancelledFirst'
  BY <1>1, <1>2 DEF ClipInv, Asked, Announced, CancelledFirst
<1>6. Kept'
  BY <1>1, <1>2 DEF ClipInv, Kept, Held
<1>7. EchoOnlyIfReplaced'
  BY <1>1, <1>2 DEF ClipInv, EchoOnlyIfReplaced, IsOwn
<1>8. QED BY <1>3, <1>4, <1>5, <1>6, <1>7 DEF ClipInv

\* A copy's source has a number of its own.
LEMMA DoCopyStep ==
  ASSUME ClipInv, DoCopy, Head(cmds).selection \in Selections
  PROVE  ClipInv'
<1>1. PICK n : n = Len(copies) + 1
  OBVIOUS
<1>2. PICK c : c = Head(cmds)
  OBVIOUS
<1>3. /\ copies' = Append(copies, c) /\ sources' = sources \cup {Len(copies')}
      /\ requests' = Append(requests, Len(copies'))
      /\ UNCHANGED <<offers, current, events, echoes>>
      /\ Names /\ IsSeq(copies) /\ IsSeq(requests)
  BY <1>2 DEF DoCopy, ClipInv, Names
<1>4. /\ Len(copies) \in Nat /\ IsSeq(copies') /\ Len(copies') = n
      /\ \A i \in 1..Len(copies) : copies'[i] = copies[i]
      /\ copies'[n] = c
  BY <1>1, <1>3, Sent
<1>5. Sources' = Sources \cup {n} /\ n \notin Sources /\ \A s \in Sources : copies'[s] = copies[s]
  BY <1>1, <1>4 DEF Sources
<1>6. sources' = sources \cup {n} /\ requests' = Append(requests, n)
  BY <1>3, <1>4
<1>7. /\ Len(requests) \in Nat /\ IsSeq(requests') /\ Len(requests') = Len(requests) + 1
      /\ \A i \in 1..Len(requests) : requests'[i] = requests[i]
      /\ requests'[Len(requests) + 1] = n
  BY <1>3, <1>6, Sent
<1>8. /\ 1..Len(requests') = 1..Len(requests) \cup {Len(requests) + 1}
      /\ \A i \in 1..Len(requests) : requests'[i] \in Sources
  BY <1>3, <1>7 DEF Names
<1>9. \A s : Requested(s)' <=> Requested(s) \/ s = n
  BY <1>7, <1>8 DEF Requested
<1>10. /\ Os' = Os /\ Es' = Es
       /\ \A o \in Os : (IsOwn(o)' <=> IsOwn(o)) /\ (IsLive(o)' <=> IsLive(o))
       /\ \A i \in Es : (IsCancel(i)' <=> IsCancel(i)) /\ \A o \in Os : Announces(i, o)' <=> Announces(i, o)
  BY <1>3 DEF Os, Es, IsOwn, IsLive, IsCancel, Announces
<1>11. Names'
  <2>1. /\ \A i \in 1..Len(requests') : requests'[i] \in Sources'
        /\ \A s \in Sources' : copies'[s].selection \in Selections
    BY <1>2, <1>3, <1>4, <1>5, <1>7, <1>8 DEF Names
  <2>2. sources' \subseteq Sources' /\ \A o \in Os : offers[o].source \in Sources' \cup {None}
    BY <1>3, <1>5, <1>6 DEF Names
  <2>3. \A i \in Es :
          IF IsCancel(i) THEN events[i].source \in Sources'
          ELSE /\ events[i].kind = "selection"
               /\ events[i].selection \in Selections /\ events[i].offer \in Os \cup {None}
    BY <1>3, <1>5 DEF Names
  <2>4. QED BY <1>3, <1>4, <1>7, <1>10, <2>1, <2>2, <2>3 DEF Names
<1>12. \A o \in Os : IsOwn(o) => offers[o].source \in Sources
  BY <1>3 DEF Names, IsOwn
<1>13. Owned' /\ Latest'
  <2>1. ASSUME NEW o \in Os, IsOwn(o)
        PROVE  /\ copies'[offers[o].source].selection = offers[o].selection
               /\ ~Requested(offers[o].source)'
               /\ \A p \in Os : offers[p].source = offers[o].source => p = o
    <3>1. /\ copies[offers[o].source].selection = offers[o].selection
          /\ ~Requested(offers[o].source)
          /\ \A p \in Os : offers[p].source = offers[o].source => p = o
      BY <2>1 DEF ClipInv, Owned
    <3>2. offers[o].source \in Sources /\ offers'[o] = offers[o]
      BY <1>3, <1>12, <2>1
    <3>3. QED BY <1>5, <1>9, <3>1, <3>2
  <2>2. QED BY <1>3, <1>10, <2>1 DEF ClipInv, Owned, Latest
<1>14. Distinct'
  BY <1>5, <1>7, <1>8 DEF ClipInv, Distinct
<1>15. Asked'
  <2>1. \A i \in Es : IsCancel(i) => events[i].source \in Sources
    BY <1>3 DEF Names
  <2>2. QED BY <1>3, <1>5, <1>6, <1>9, <1>10, <2>1 DEF ClipInv, Asked
<1>16. Announced' /\ CancelledFirst'
  BY <1>3, <1>6, <1>10 DEF ClipInv, Announced, CancelledFirst
<1>17. Kept'
  BY <1>3, <1>6, <1>9, <1>10 DEF ClipInv, Kept, Held
<1>18. EchoOnlyIfReplaced'
  <2> SUFFICES ASSUME NEW o \in echoes, ~IsOwn(o)'
               PROVE  \/ \E p \in (o + 1)..Len(offers) : IsOwn(p)' /\ offers[p].selection = offers[o].selection
                      \/ \E i \in 1..Len(requests') : copies'[requests'[i]].selection = offers[o].selection
    BY <1>3 DEF EchoOnlyIfReplaced
  <2>1. CASE \E p \in (o + 1)..Len(offers) : IsOwn(p) /\ offers[p].selection = offers[o].selection
    BY <1>3, <2>1 DEF IsOwn
  <2>2. CASE \E i \in 1..Len(requests) : copies[requests[i]].selection = offers[o].selection
    <3>1. PICK i \in 1..Len(requests) : copies[requests[i]].selection = offers[o].selection
      BY <2>2
    <3>2. i \in 1..Len(requests') /\ requests'[i] = requests[i] /\ requests[i] \in Sources
      BY <1>7, <1>8
    <3>3. QED BY <1>5, <3>1, <3>2
  <2>3. ~IsOwn(o)
    BY <1>3 DEF IsOwn
  <2>4. QED BY <2>1, <2>2, <2>3 DEF ClipInv, EchoOnlyIfReplaced
<1>19. QED BY <1>11, <1>13, <1>14, <1>15, <1>16, <1>17, <1>18 DEF ClipInv

\* The next event is taken: a cancelled source leaves the map.
LEMMA EventTaken ==
  ASSUME ClipInv, events # <<>>, events' = Tail(events), UNCHANGED <<offers, current, requests, copies>>,
         sources' = {s \in sources : IsCancel(1) => s # events[1].source},
         echoes' \subseteq Os, EchoOnlyIfReplaced'
  PROVE  ClipInv'
<1>1. Names /\ IsSeq(events)
  BY DEF ClipInv, Names
<1>2. /\ IsSeq(events') /\ Len(events) \in Nat \ {0}
      /\ \A i \in Es' : i \in Nat /\ i + 1 \in Es /\ events'[i] = events[i + 1]
      /\ \A i \in Es : i # 1 => i - 1 \in Es' /\ events'[i - 1] = events[i]
  BY <1>1, Received DEF Es
<1>3. /\ Os' = Os /\ Sources' = Sources
      /\ \A o \in Os : (IsOwn(o)' <=> IsOwn(o)) /\ (IsLive(o)' <=> IsLive(o))
      /\ \A s : Requested(s)' <=> Requested(s)
  BY DEF Os, Sources, IsOwn, IsLive, Requested
<1>4. \A i \in Es' : /\ IsCancel(i)' <=> IsCancel(i + 1)
                     /\ \A o \in Os : Announces(i, o)' <=> Announces(i + 1, o)
  BY <1>2 DEF IsCancel, Announces
<1>5. 1 \in Es /\ \A i \in Es' : 1 < i + 1
  BY <1>2 DEF Es
<1>6. Names'
  <2>1. \A i \in Es' :
          IF IsCancel(i)' THEN events'[i].source \in Sources
          ELSE /\ events'[i].kind = "selection"
               /\ events'[i].selection \in Selections /\ events'[i].offer \in Os \cup {None}
    BY <1>1, <1>2, <1>4 DEF Names
  <2>2. sources' \subseteq Sources
    BY <1>1 DEF Names
  <2>3. QED BY <1>1, <1>2, <1>3, <2>1, <2>2 DEF Names
<1>7. Owned' /\ Latest' /\ Distinct'
  BY <1>3 DEF ClipInv, Owned, Latest, Distinct
<1>8. Asked'
  <2> SUFFICES ASSUME NEW s \in Sources, Requested(s)
               PROVE  s \in sources' /\ \A j \in Es' : IsCancel(j)' => events'[j].source # s
    BY <1>3 DEF Asked
  <2>1. s \in sources /\ \A j \in Es : IsCancel(j) => events[j].source # s
    BY DEF ClipInv, Asked
  <2>2. QED BY <1>2, <1>4, <1>5, <2>1
<1>9. Announced'
  <2> SUFFICES ASSUME NEW i \in Es', NEW o \in Os, Announces(i, o)'
               PROVE  /\ offers[o].selection = events'[i].selection
                      /\ IsOwn(o) => /\ offers[o].source \in sources'
                                     /\ \A j \in Es' : IsCancel(j)' /\ j < i =>
                                          events'[j].source # offers[o].source
    BY <1>3 DEF Announced
  <2>1. i + 1 \in Es /\ Announces(i + 1, o) /\ events'[i] = events[i + 1]
    BY <1>2, <1>4
  <2>2. /\ offers[o].selection = events[i + 1].selection
        /\ IsOwn(o) => /\ offers[o].source \in sources
                       /\ \A j \in Es : IsCancel(j) /\ j < i + 1 => events[j].source # offers[o].source
    BY <2>1 DEF ClipInv, Announced
  <2>3. ASSUME IsOwn(o) PROVE offers[o].source \in sources'
    BY <1>5, <2>2, <2>3
  <2>4. ASSUME IsOwn(o), NEW j \in Es', IsCancel(j)', j < i
        PROVE  events'[j].source # offers[o].source
    <3>1. j + 1 \in Es /\ IsCancel(j + 1) /\ events'[j] = events[j + 1]
      BY <1>2, <1>4, <2>4
    <3>2. i \in Nat /\ j \in Nat
      BY <1>2
    <3>3. j + 1 < i + 1
      BY <2>4, <3>2
    <3>4. QED BY <2>2, <2>4, <3>1, <3>3
  <2>5. QED BY <2>1, <2>2, <2>3, <2>4
<1>10. CancelledFirst'
  <2> SUFFICES ASSUME NEW i \in Es', NEW j \in Es', NEW o \in Os, NEW p \in Os,
                      Announces(i, o)', IsCancel(j)', offers[p].source = events'[j].source,
                      offers[p].selection = offers[o].selection, p < o
               PROVE  j < i
    BY <1>3 DEF CancelledFirst
  <2>1. /\ i + 1 \in Es /\ Announces(i + 1, o)
        /\ j + 1 \in Es /\ IsCancel(j + 1) /\ events'[j] = events[j + 1]
    BY <1>2, <1>4
  <2>2. j + 1 < i + 1
    BY <2>1 DEF ClipInv, CancelledFirst
  <2>3. QED BY <1>2, <2>2
<1>11. Kept'
  <2> SUFFICES ASSUME NEW s \in sources', ~Requested(s) PROVE Held(s)'
    BY <1>3 DEF Kept
  <2>1. PICK p \in Os : /\ offers[p].source = s
                        /\ IsLive(p) \/ \E j \in Es : IsCancel(j) /\ events[j].source = s
    BY DEF ClipInv, Kept, Held
  <2>2. CASE IsLive(p)
    BY <1>3, <2>1, <2>2 DEF Held
  <2>3. CASE \E j \in Es : IsCancel(j) /\ events[j].source = s
    <3>1. PICK j \in Es : IsCancel(j) /\ events[j].source = s
      BY <2>3
    <3>2. j # 1
      BY <3>1
    <3>3. j - 1 \in Es' /\ events'[j - 1] = events[j]
      BY <1>2, <3>2
    <3>4. PICK k : k = j - 1
      OBVIOUS
    <3>5. k \in Es' /\ IsCancel(k)' /\ events'[k].source = s
      BY <3>1, <3>3, <3>4 DEF IsCancel
    <3>6. QED BY <1>3, <2>1, <3>5 DEF Held
  <2>4. QED BY <2>1, <2>2, <2>3
<1>12. QED BY <1>6, <1>7, <1>8, <1>9, <1>10, <1>11 DEF ClipInv

\* An announcement that comes now is of an application's offer, or of an offer
\* of the daemon's whose source is in the map.
LEMMA Heard ==
  ASSUME ClipInv, NextEvent("selection"), Head(events).offer # None
  PROVE  /\ 1 \in Es /\ Head(events) = events[1] /\ events[1].offer \in Os
         /\ Announces(1, events[1].offer) /\ events[1].selection \in Selections
         /\ offers[events[1].offer].selection = events[1].selection
         /\ IsOwn(events[1].offer) => IsEcho(events[1].selection)
<1>1. Names /\ IsSeq(events) /\ events # <<>> /\ Head(events).kind = "selection"
  BY DEF ClipInv, Names, NextEvent
<1>2. Len(events) \in Nat \ {0} /\ Head(events) = events[1]
  BY <1>1, Received
<1>3. 1 \in Es /\ events[1].kind = "selection" /\ ~IsCancel(1)
  BY <1>1, <1>2 DEF Es, IsCancel
<1>4. PICK o : o = events[1].offer
  OBVIOUS
<1>5. o \in Os /\ events[1].selection \in Selections /\ Announces(1, o)
  BY <1>1, <1>2, <1>3, <1>4 DEF Names, Announces
<1>6. offers[o].selection = events[1].selection /\ (IsOwn(o) => offers[o].source \in sources)
  BY <1>3, <1>5 DEF ClipInv, Announced
<1>7. IsOwn(o) => copies[offers[o].source].selection = offers[o].selection
  BY <1>5 DEF ClipInv, Owned
<1>8. IsOwn(o) => IsEcho(events[1].selection)
  BY <1>6, <1>7 DEF IsEcho
<1>9. QED BY <1>2, <1>3, <1>4, <1>5, <1>6, <1>8

\* An echo of its own, when it is none, is of an offer that is on its way out.
LEMMA IgnoreOfferStep ==
  ASSUME ClipInv, IgnoreOffer
  PROVE  ClipInv'
<1>1. Names /\ IsSeq(events) /\ NextEvent("selection") /\ events # <<>> /\ Head(events).kind = "selection"
  BY DEF ClipInv, Names, IgnoreOffer, NextEvent
<1>2. PICK sel, o : sel = Head(events).selection /\ o = Head(events).offer
  OBVIOUS
<1>3. /\ events' = Tail(events)
      /\ UNCHANGED <<offers, current, requests, copies, sources>>
      /\ echoes' = echoes \cup {e \in {o} : o # None /\ sel \in Watched /\ IsEcho(sel)}
  BY <1>2 DEF IgnoreOffer
<1>4. Len(events) \in Nat \ {0} /\ Head(events) = events[1]
  BY <1>1, Received
<1>5. ~IsCancel(1)
  BY <1>1, <1>4 DEF IsCancel
<1>6. \A e \in echoes' : e \in echoes \/ (e = o /\ o # None /\ IsEcho(sel))
  BY <1>3
<1>7. o # None => /\ 1 \in Es /\ o \in Os /\ Announces(1, o) /\ sel \in Selections
                  /\ offers[o].selection = sel
  BY <1>1, <1>2, <1>4, Heard
<1>8. echoes' \subseteq Os
  BY <1>1, <1>6, <1>7 DEF Names
<1>9. Os = 1..Len(offers) /\ Len(offers) \in Nat
  BY <1>1, LenProperties DEF Names, Os, IsSeq
<1>10. EchoOnlyIfReplaced'
  <2> SUFFICES ASSUME NEW e \in echoes', ~IsOwn(e)'
               PROVE  \/ \E p \in (e + 1)..Len(offers) : IsOwn(p)' /\ offers[p].selection = offers[e].selection
                      \/ \E i \in 1..Len(requests) : copies[requests[i]].selection = offers[e].selection
    BY <1>3 DEF EchoOnlyIfReplaced
  <2>1. ~IsOwn(e) /\ \A p : IsOwn(p)' <=> IsOwn(p)
    BY <1>3 DEF IsOwn
  <2>2. CASE e \in echoes
    BY <2>1, <2>2 DEF ClipInv, EchoOnlyIfReplaced
  <2>3. CASE e = o /\ o # None /\ IsEcho(sel)
    <3>1. PICK s \in sources : copies[s].selection = sel
      BY <2>3 DEF IsEcho
    <3>2. CASE Requested(s)
      BY <1>7, <2>3, <3>1, <3>2 DEF Requested
    <3>3. CASE Held(s)
      <4>1. PICK p \in Os : /\ offers[p].source = s
                            /\ IsLive(p) \/ \E j \in Es : IsCancel(j) /\ events[j].source = s
        BY <3>3 DEF Held
      <4>2. IsOwn(p) /\ p # None
        BY <1>1, <1>9, <4>1, ClipboardAssumption DEF Names, Sources, IsOwn
      <4>3. offers[p].selection = sel /\ p # o
        BY <2>1, <2>3, <3>1, <4>1, <4>2 DEF ClipInv, Owned
      <4>4. ~(p < o)
        <5>1. CASE IsLive(p)
          <6>1. current[sel] = p /\ o <= p
            BY <1>7, <2>3, <4>2, <4>3, <5>1 DEF ClipInv, Latest, IsLive
          <6>2. QED BY <1>7, <1>9, <2>3, <6>1
        <5>2. CASE \E j \in Es : IsCancel(j) /\ events[j].source = s
          <6>1. PICK j \in Es : IsCancel(j) /\ events[j].source = s
            BY <5>2
          <6>2. p < o => j < 1
            BY <1>7, <2>3, <4>1, <4>3, <6>1 DEF ClipInv, CancelledFirst
          <6>3. QED BY <6>1, <6>2 DEF Es
        <5>3. QED BY <4>1, <5>1, <5>2
      <4>5. p \in (o + 1)..Len(offers)
        BY <1>7, <1>9, <2>3, <4>1, <4>3, <4>4
      <4>6. QED BY <1>7, <2>1, <2>3, <4>2, <4>3, <4>5
    <3>4. QED BY <3>2, <3>3 DEF ClipInv, Kept
  <2>4. QED BY <1>6, <2>2, <2>3
<1>11. sources' = {s \in sources : IsCancel(1) => s # events[1].source}
  BY <1>3, <1>5
<1>12. QED BY <1>1, <1>3, <1>8, <1>10, <1>11, EventTaken

\* The wayland thread's steps keep the invariant of the clipboard.
LEMMA WaylandStep ==
  ASSUME ClipInv, Wayland, cmds # <<>> => Head(cmds).selection \in Selections
  PROVE  ClipInv'
<1>1. Names /\ IsSeq(events)
  BY DEF ClipInv, Names
<1>2. CASE DoCopy
  BY <1>2, DoCopyStep DEF DoCopy
<1>3. CASE Cancelled
  <2>1. /\ events # <<>> /\ Head(events).kind = "cancelled" /\ events' = Tail(events)
        /\ sources' = sources \ {Head(events).source}
        /\ UNCHANGED <<offers, current, requests, copies, echoes>>
    BY <1>3 DEF Cancelled, NextEvent
  <2>2. Head(events) = events[1] /\ IsCancel(1)
    BY <1>1, <2>1, Received DEF IsCancel
  <2>3. sources' = {s \in sources : IsCancel(1) => s # events[1].source}
    BY <2>1, <2>2
  <2>4. echoes' \subseteq Os /\ EchoOnlyIfReplaced'
    BY <2>1 DEF ClipInv, Names, EchoOnlyIfReplaced, IsOwn
  <2>5. QED BY <2>1, <2>3, <2>4, EventTaken
<1>4. CASE IgnoreOffer
  BY <1>4, IgnoreOfferStep
<1>5. CASE StartReading
  <2>1. /\ events # <<>> /\ Head(events).kind = "selection" /\ events' = Tail(events)
        /\ UNCHANGED <<offers, current, requests, copies, sources, echoes>>
    BY <1>5 DEF StartReading, NextEvent
  <2>2. Head(events) = events[1] /\ ~IsCancel(1)
    BY <1>1, <2>1, Received DEF IsCancel
  <2>3. sources' = {s \in sources : IsCancel(1) => s # events[1].source}
    BY <2>1, <2>2
  <2>4. echoes' \subseteq Os /\ EchoOnlyIfReplaced'
    BY <2>1 DEF ClipInv, Names, EchoOnlyIfReplaced, IsOwn
  <2>5. QED BY <2>1, <2>3, <2>4, EventTaken
<1>6. CASE ReadHint \/ ReadPart \/ Capture
  <2>1. UNCHANGED <<offers, current, requests, events, copies, sources, echoes>>
    BY <1>6 DEF ReadHint, ReadPart, Capture
  <2>2. QED BY <2>1, ClipStays
<1>7. QED BY <1>2, <1>3, <1>4, <1>5, <1>6 DEF Wayland

-----------------------------------------------------------------------------
(* The inductive invariant: what is read.                                  *)

SecretIn(o) == Contains(offers[o].mimes, Hint) /\ offers[o].value = Secret

\* Past its hint, a marked secret is read only when it is no longer offered.
Read == reading # None =>
  /\ reading = [offer |-> reading.offer, hint |-> reading.hint, left |-> reading.left,
                parts |-> reading.parts, hint_failed |-> reading.hint_failed]
  /\ reading.offer \in Os /\ ~IsOwn(reading.offer) /\ IsSeq(reading.parts)
  /\ reading.hint => reading.parts = <<>>
  /\ SecretIn(reading.offer) /\ ~reading.hint_failed /\ ~reading.hint =>
       ~IsLive(reading.offer) /\ \A j \in 1..Len(reading.parts) : reading.parts[j].blob = Blank

Caught == \A i \in 1..Len(captures) : captures[i].offer \in Os

ReadInv == Read /\ IsSeq(captures) /\ Caught /\ SecretsSkipped

\* An offer is never changed, and is not offered again once it was replaced.
LEMMA OffersStay ==
  ASSUME Names, Compositor
  PROVE  \A o \in Os : /\ o \in Os' /\ offers'[o] = offers[o] /\ (IsOwn(o)' <=> IsOwn(o))
                       /\ IsLive(o)' => IsLive(o)
<1>1. ASSUME NEW sel \in Selections, NEW e, NEW offer, offer = <<>> \/ offer = <<e>>, Replace(sel, offer)
      PROVE  \A o \in Os : /\ o \in Os' /\ offers'[o] = offers[o] /\ (IsOwn(o)' <=> IsOwn(o))
                           /\ IsLive(o)' => IsLive(o)
  <2>1. PICK l : l = Len(offers) + 1
    OBVIOUS
  <2>2. /\ \A o \in Os : o \in Os' /\ offers'[o] = offers[o]
        /\ offer = <<>> => current'[sel] = None
        /\ offer = <<e>> => l \notin Os /\ current'[sel] = l
        /\ \A t \in Selections : t # sel => current'[t] = current[t]
    BY <1>1, <2>1, OffersStep
  <2>3. \A o \in Os : offers[o].selection \in Selections /\ o # None
    BY ClipboardAssumption DEF Names, Os
  <2>4. QED BY <1>1, <2>2, <2>3 DEF IsOwn, IsLive
<1>2. ASSUME NEW sel \in Selections, NEW clip \in Clips, AppCopies(sel, clip)
      PROVE  \A o \in Os : /\ o \in Os' /\ offers'[o] = offers[o] /\ (IsOwn(o)' <=> IsOwn(o))
                           /\ IsLive(o)' => IsLive(o)
  <2>1. PICK e : Replace(sel, <<e>>)
    BY <1>2 DEF AppCopies
  <2>2. QED BY <1>1, <2>1
<1>3. ASSUME NEW sel \in Selections, AppGoes(sel)
      PROVE  \A o \in Os : /\ o \in Os' /\ offers'[o] = offers[o] /\ (IsOwn(o)' <=> IsOwn(o))
                           /\ IsLive(o)' => IsLive(o)
  BY <1>1, <1>3 DEF AppGoes
<1>4. CASE SetOwn
  <2>1. PICK s : s = Head(requests)
    OBVIOUS
  <2>2. PICK sel, e : sel = copies[s].selection /\ Replace(sel, <<e>>)
    BY <1>4, <2>1 DEF SetOwn
  <2>3. s = requests[1] /\ 1 \in 1..Len(requests)
    <3>1. requests # <<>> /\ IsSeq(requests)
      BY <1>4 DEF SetOwn, Names
    <3>2. Len(requests) \in Nat \ {0} /\ Head(requests) = requests[1]
      BY <3>1, Received
    <3>3. QED BY <2>1, <3>2
  <2>4. sel \in Selections
    BY <2>2, <2>3 DEF Names
  <2>5. QED BY <1>1, <2>2, <2>4
<1>5. QED BY <1>2, <1>3, <1>4 DEF Compositor

\* Whatever else happens, and the offers stay.
LEMMA ReadStays ==
  ASSUME ReadInv, UNCHANGED <<reading, captures>>,
         \A o \in Os : /\ o \in Os' /\ offers'[o] = offers[o] /\ (IsOwn(o)' <=> IsOwn(o))
                       /\ IsLive(o)' => IsLive(o)
  PROVE  ReadInv'
<1>1. Read /\ Caught /\ SecretsSkipped
  BY DEF ReadInv
<1>2. \A o \in Os : SecretIn(o)' <=> SecretIn(o)
  BY DEF SecretIn
<1>3. Read'
  <2> SUFFICES ASSUME reading # None PROVE Read'
    BY DEF Read
  <2>1. reading.offer \in Os
    BY <1>1 DEF Read
  <2>2. PICK o : o = reading.offer
    OBVIOUS
  <2>3. (SecretIn(o)' <=> SecretIn(o)) /\ (IsOwn(o)' <=> IsOwn(o)) /\ (IsLive(o)' => IsLive(o)) /\ o \in Os'
    BY <1>2, <2>1, <2>2
  <2>4. reading'.offer = o
    BY <2>2
  <2>5. IsOwn(reading.offer)' <=> IsOwn(o)'
    BY <2>4 DEF IsOwn
  <2>6. IsLive(reading.offer)' <=> IsLive(o)'
    BY <2>4 DEF IsLive
  <2>7. SecretIn(reading.offer)' <=> SecretIn(o)'
    BY <2>4 DEF SecretIn
  <2>8. QED BY <1>1, <2>2, <2>3, <2>4, <2>5, <2>6, <2>7 DEF Read
<1>4. Caught'
  BY <1>1 DEF Caught
<1>5. SecretsSkipped'
  BY <1>1 DEF Caught, SecretsSkipped
<1>6. QED BY <1>3, <1>4, <1>5 DEF ReadInv, IsSeq

\* The thread never starts to read an offer of its own.
LEMMA StartReadingStep ==
  ASSUME ClipInv, ReadInv, StartReading
  PROVE  ReadInv'
<1>1. PICK sel, o : sel = Head(events).selection /\ o = Head(events).offer
  OBVIOUS
<1>2. PICK r : r = [offer |-> o, hint |-> Contains(offers[o].mimes, Hint),
                    left |-> offers[o].mimes, parts |-> <<>>, hint_failed |-> FALSE]
  OBVIOUS
<1>3. NextEvent("selection") /\ IsRead(sel, o) /\ reading' = r /\ UNCHANGED <<offers, captures, current>>
  BY <1>1, <1>2 DEF StartReading
<1>4. o # None /\ ~IsEcho(sel)
  BY <1>3 DEF IsRead
<1>5. o \in Os /\ ~IsOwn(o)
  BY <1>1, <1>3, <1>4, Heard
<1>6. /\ r.offer = o /\ r.hint = Contains(offers[o].mimes, Hint) /\ r.parts = <<>> /\ ~r.hint_failed
      /\ r = [offer |-> r.offer, hint |-> r.hint, left |-> r.left, parts |-> r.parts,
              hint_failed |-> r.hint_failed]
  BY <1>2
<1>7. IsSeq(r.parts)
  BY <1>6, Nothing
<1>8. SecretIn(o) => r.hint
  BY <1>6 DEF SecretIn
<1>9. Read'
  BY <1>3, <1>5, <1>6, <1>7, <1>8 DEF Read, Os, IsOwn, SecretIn
<1>10. Caught' /\ SecretsSkipped' /\ IsSeq(captures')
  BY <1>3 DEF ReadInv, Caught, SecretsSkipped, Os
<1>11. QED BY <1>9, <1>10 DEF ReadInv, IsSeq

\* A secret's hint is read as one, or fails, or is no longer offered.
LEMMA ReadHintStep ==
  ASSUME ReadInv, ReadHint
  PROVE  ReadInv'
<1>1. UNCHANGED <<offers, captures, current>> /\ reading # None /\ reading.hint
  BY DEF ReadHint
<1>2. Caught' /\ SecretsSkipped' /\ IsSeq(captures')
  BY <1>1 DEF ReadInv, Caught, SecretsSkipped, Os
<1>3. /\ reading = [offer |-> reading.offer, hint |-> reading.hint, left |-> reading.left,
                    parts |-> reading.parts, hint_failed |-> reading.hint_failed]
      /\ reading.offer \in Os /\ ~IsOwn(reading.offer) /\ IsSeq(reading.parts) /\ reading.parts = <<>>
  BY <1>1 DEF ReadInv, Read
<1>4. ASSUME reading' = None PROVE Read'
  BY <1>4 DEF Read
<1>5. ASSUME reading' # None PROVE Read'
  <2>1. \/ /\ ~(IsLive(reading.offer) /\ offers[reading.offer].value = Secret)
           /\ reading' = [reading EXCEPT !.hint = FALSE]
        \/ reading' = [reading EXCEPT !.hint = FALSE, !.hint_failed = TRUE]
    BY <1>5 DEF ReadHint
  <2>2. /\ reading' = [offer |-> reading'.offer, hint |-> reading'.hint, left |-> reading'.left,
                       parts |-> reading'.parts, hint_failed |-> reading'.hint_failed]
        /\ reading'.offer = reading.offer /\ reading'.parts = <<>>
    BY <1>3, <2>1
  <2>3. ~reading'.hint_failed => ~(IsLive(reading.offer) /\ offers[reading.offer].value = Secret)
    BY <1>3, <2>1
  <2>4. Len(<<>>) = 0 /\ 1..0 = {}
    OBVIOUS
  <2>5. /\ reading'.offer \in Os' /\ ~IsOwn(reading.offer)' /\ IsSeq(reading.parts)'
    BY <1>1, <1>3, <2>2 DEF Os, IsOwn, IsSeq
  <2>6. SecretIn(reading.offer)' /\ ~reading'.hint_failed => ~IsLive(reading.offer)'
    BY <1>1, <2>2, <2>3 DEF SecretIn, IsLive
  <2>7. QED BY <2>2, <2>4, <2>5, <2>6 DEF Read
<1>6. QED BY <1>2, <1>4, <1>5 DEF ReadInv, IsSeq

\* What is read of an offer that is not offered any more is blank.
LEMMA ReadPartStep ==
  ASSUME ReadInv, ReadPart
  PROVE  ReadInv'
<1>1. UNCHANGED <<offers, captures, current>> /\ reading # None /\ ~reading.hint
  BY DEF ReadPart
<1>2. Caught' /\ SecretsSkipped' /\ IsSeq(captures')
  BY <1>1 DEF ReadInv, Caught, SecretsSkipped, Os
<1>3. /\ reading = [offer |-> reading.offer, hint |-> reading.hint, left |-> reading.left,
                    parts |-> reading.parts, hint_failed |-> reading.hint_failed]
      /\ reading.offer \in Os /\ ~IsOwn(reading.offer) /\ IsSeq(reading.parts)
      /\ SecretIn(reading.offer) /\ ~reading.hint_failed =>
           ~IsLive(reading.offer) /\ \A j \in 1..Len(reading.parts) : reading.parts[j].blob = Blank
  BY <1>1 DEF ReadInv, Read
<1>4. PICK p : p = ReadOffer(reading.offer, Head(reading.left))
  OBVIOUS
<1>5. ~IsLive(reading.offer) => p.blob = Blank
  BY <1>4 DEF ReadOffer
<1>6. PICK ps \in {reading.parts, Append(reading.parts, p)} :
        reading' = [reading EXCEPT !.left = Tail(@), !.parts = ps]
  BY <1>4 DEF ReadPart
<1>7. /\ reading' = [offer |-> reading'.offer, hint |-> reading'.hint, left |-> reading'.left,
                     parts |-> reading'.parts, hint_failed |-> reading'.hint_failed]
      /\ reading'.offer = reading.offer /\ reading'.parts = ps /\ reading'.hint = reading.hint
      /\ reading'.hint_failed = reading.hint_failed
  BY <1>3, <1>6
<1>8. /\ Len(reading.parts) \in Nat /\ IsSeq(Append(reading.parts, p))
      /\ Len(Append(reading.parts, p)) = Len(reading.parts) + 1
      /\ \A i \in 1..Len(reading.parts) : Append(reading.parts, p)[i] = reading.parts[i]
      /\ Append(reading.parts, p)[Len(reading.parts) + 1] = p
  BY <1>3, Sent
<1>9. IsSeq(ps) /\ \A j \in 1..Len(ps) : (j \in 1..Len(reading.parts) /\ ps[j] = reading.parts[j]) \/ ps[j] = p
  <2>1. CASE ps = reading.parts
    BY <1>3, <2>1
  <2>2. CASE ps = Append(reading.parts, p)
    <3>1. 1..Len(ps) = 1..Len(reading.parts) \cup {Len(reading.parts) + 1}
      BY <1>8, <2>2
    <3>2. QED BY <1>8, <2>2, <3>1
  <2>3. QED BY <1>6, <2>1, <2>2
<1>10. /\ reading'.offer \in Os' /\ ~IsOwn(reading.offer)' /\ IsSeq(reading.parts)'
  BY <1>1, <1>3, <1>7, <1>9 DEF Os, IsOwn, IsSeq
<1>11. /\ SecretIn(reading.offer)' <=> SecretIn(reading.offer)
       /\ IsLive(reading.offer)' <=> IsLive(reading.offer)
  BY <1>1, <1>7 DEF SecretIn, IsLive
<1>12. SecretIn(reading.offer)' /\ ~reading'.hint_failed =>
         ~IsLive(reading.offer)' /\ \A j \in 1..Len(ps) : ps[j].blob = Blank
  BY <1>3, <1>5, <1>7, <1>9, <1>11
<1>13. Read'
  BY <1>1, <1>7, <1>10, <1>12 DEF Read
<1>14. QED BY <1>2, <1>13 DEF ReadInv, IsSeq

\* What was read goes to the storage thread as it is.
LEMMA CaptureStep ==
  ASSUME ReadInv, Capture
  PROVE  ReadInv'
<1>1. UNCHANGED <<offers, current>> /\ reading # None /\ ~reading.hint /\ reading' = None
  BY DEF Capture
<1>2. Read'
  BY <1>1 DEF Read
<1>3. /\ reading.offer \in Os
      /\ SecretIn(reading.offer) /\ ~reading.hint_failed =>
           \A j \in 1..Len(reading.parts) : reading.parts[j].blob = Blank
  BY <1>1 DEF ReadInv, Read
<1>4. PICK c : c = [selection |-> offers[reading.offer].selection, parts |-> reading.parts,
                    offer |-> reading.offer, hint_failed |-> reading.hint_failed]
  OBVIOUS
<1>5. IsSeq(captures) /\ captures' \in {captures \o <<>>, captures \o <<c>>}
  BY <1>4 DEF ReadInv, Capture
<1>6. CASE captures' = captures
  BY <1>1, <1>2, <1>6 DEF ReadInv, Caught, SecretsSkipped, Os, IsSeq
<1>7. CASE captures' = Append(captures, c)
  <2>1. /\ Len(captures) \in Nat /\ IsSeq(captures') /\ Len(captures') = Len(captures) + 1
        /\ \A i \in 1..Len(captures) : captures'[i] = captures[i]
        /\ captures'[Len(captures) + 1] = c
    BY <1>5, <1>7, Sent
  <2>2. \A i \in 1..Len(captures') : (i \in 1..Len(captures) /\ captures'[i] = captures[i]) \/ captures'[i] = c
    <3>1. 1..Len(captures') = 1..Len(captures) \cup {Len(captures) + 1}
      BY <2>1
    <3>2. QED BY <2>1, <3>1
  <2>3. c.offer = reading.offer /\ c.parts = reading.parts /\ c.hint_failed = reading.hint_failed
    BY <1>4
  <2>4. Caught'
    BY <1>1, <1>3, <2>2, <2>3 DEF ReadInv, Caught, Os
  <2>5. SecretsSkipped'
    <3> SUFFICES ASSUME NEW i \in 1..Len(captures'), Contains(offers[captures'[i].offer].mimes, Hint),
                        offers[captures'[i].offer].value = Secret, ~captures'[i].hint_failed,
                        NEW j \in 1..Len(captures'[i].parts)
                 PROVE  captures'[i].parts[j].blob = Blank
      BY <1>1 DEF SecretsSkipped
    <3>1. CASE i \in 1..Len(captures) /\ captures'[i] = captures[i]
      BY <3>1 DEF ReadInv, SecretsSkipped
    <3>2. CASE captures'[i] = c
      BY <1>3, <2>3, <3>2 DEF SecretIn
    <3>3. QED BY <2>2, <3>1, <3>2
  <2>6. QED BY <1>2, <2>1, <2>4, <2>5 DEF ReadInv, IsSeq
<1>8. QED BY <1>5, <1>6, <1>7, Concats

\* A capture is taken off the channel.
LEMMA CaptureTaken ==
  ASSUME ReadInv, captures # <<>>, captures' = Tail(captures), UNCHANGED <<offers, current, reading>>
  PROVE  ReadInv'
<1>1. IsSeq(captures)
  BY DEF ReadInv
<1>2. /\ IsSeq(captures')
      /\ \A i \in 1..Len(captures') : i \in Nat /\ i + 1 \in 1..Len(captures) /\ captures'[i] = captures[i + 1]
  BY <1>1, Received
<1>3. Read'
  BY DEF ReadInv, Read, Os, IsOwn, IsLive, SecretIn, IsSeq
<1>4. Caught' /\ SecretsSkipped'
  BY <1>2 DEF ReadInv, Caught, SecretsSkipped, Os
<1>5. QED BY <1>2, <1>3, <1>4 DEF ReadInv, IsSeq

-----------------------------------------------------------------------------
(* The inductive invariant: the store and the requests.                    *)

\* What TypeOK says of the store, of the requests and of the threads.
Rows == captured \in Nat /\ \A id \in Ids : id \in 1..captured /\ entries[id].capture \in 1..captured

\* A copy is of a task, and its parts are of one capture, none older than asked for.
Whole(c) ==
  /\ c.selection \in Selections /\ c.task \in Tasks
  /\ \A p, q \in c.parts : p.capture = q.capture
  /\ \A p \in c.parts : p.capture >= tasks[c.task].capture
Wholes == IsSeq(cmds) /\ (\A i \in 1..Len(cmds) : Whole(cmds[i])) /\ \A s \in Sources : Whole(copies[s])

\* Under the id a user saw there is the entry seen, a later one, or none.
Asks == IsSeq(tasks) /\ \A t \in Tasks :
  /\ tasks[t] = [id |-> tasks[t].id, selection |-> tasks[t].selection, mime |-> tasks[t].mime,
                 capture |-> tasks[t].capture, state |-> tasks[t].state]
  /\ tasks[t].selection \in Selections /\ tasks[t].capture \in 1..captured
  /\ tasks[t].state \in {"asked", "found", "sent", "failed"}
  /\ tasks[t].id \in Ids => entries[tasks[t].id].capture >= tasks[t].capture

\* The storage thread ends after the wayland thread, when nothing is left to it.
Threads ==
  /\ storage \in {"sweep", "take", "ended"} /\ shutdown \in BOOLEAN /\ exited \in BOOLEAN
  /\ removals \in 0..MaxRemovals + 1 /\ (storage = "sweep" => removals <= MaxRemovals)
  /\ storage = "ended" => shutdown /\ captures = <<>>
  /\ exited => storage = "ended"

StoreInv == Rows /\ PartsBelong /\ Wholes /\ Asks /\ Threads

\* The next id is of no entry.
LEMMA NextIdIsNew ==
  ASSUME Rows
  PROVE  NextId \notin Ids /\ NextId \in 1..captured + 1
<1>1. captured \in Nat /\ Ids \subseteq 1..captured
  BY DEF Rows
<1>2. CASE Ids = {}
  BY <1>1, <1>2 DEF NextId
<1>3. CASE Ids # {}
  <2>1. Max(Ids) \in Ids /\ \A j \in Ids : j <= Max(Ids)
    BY <1>1, <1>3, Newest
  <2>2. Max(Ids) \in 1..captured
    BY <1>1, <2>1
  <2> DEFINE m == Max(Ids)
  <2>3. NextId = m + 1
    BY <1>3 DEF NextId
  <2> HIDE DEF m
  <2>4. QED BY <1>1, <2>1, <2>2, <2>3 DEF m
<1>4. QED BY <1>2, <1>3

\* Deleting rows takes their parts along.
LEMMA DeleteStep ==
  ASSUME Rows, PartsBelong, Asks, NEW gone, DeleteRows(gone), UNCHANGED <<captured, tasks>>
  PROVE  Rows' /\ PartsBelong' /\ Asks'
<1>1. /\ Ids' = Ids \ gone /\ \A id \in Ids' : entries'[id] = entries[id]
      /\ mime_parts' = {p \in mime_parts : p.entry_id \notin gone}
  BY DEF DeleteRows, Ids
<1>2. Rows'
  BY <1>1 DEF Rows
<1>3. PartsBelong'
  BY <1>1 DEF PartsBelong
<1>4. Asks'
  BY <1>1 DEF Asks, Tasks, IsSeq
<1>5. QED BY <1>2, <1>3, <1>4

\* The rows stay as they are.
LEMMA RowsStay ==
  ASSUME Rows, PartsBelong, UNCHANGED <<entries, mime_parts, captured>>
  PROVE  Rows' /\ PartsBelong' /\ Ids' = Ids
BY DEF Rows, PartsBelong, Ids

\* The paste tasks' questions stay answerable as long as no row comes or goes.
LEMMA AsksStay ==
  ASSUME Asks, UNCHANGED <<entries, captured, tasks>>
  PROVE  Asks'
<1>1. Ids' = Ids /\ Tasks' = Tasks
  BY DEF Ids, Tasks
<1>2. QED BY <1>1 DEF Asks, IsSeq

\* The copies stay as they are.
LEMMA WholesStay ==
  ASSUME Wholes, UNCHANGED <<cmds, copies, tasks>>
  PROVE  Wholes'
<1>1. Sources' = Sources /\ Tasks' = Tasks
  BY DEF Sources, Tasks
<1>2. \A c : Whole(c)' <=> Whole(c)
  BY <1>1 DEF Whole
<1>3. QED BY <1>1, <1>2 DEF Wholes, IsSeq

\* A capture becomes the entry of a new id, with its parts, or is dropped.
LEMMA InsertStep ==
  ASSUME StoreInv, Insert, ReadInv
  PROVE  StoreInv'
<1>1. /\ storage = "take" /\ captures # <<>> /\ captures' = Tail(captures) /\ captured' = captured + 1
      /\ storage' \in {"take", "sweep"} /\ (storage' = "sweep" => removals < MaxRemovals)
      /\ UNCHANGED <<copies, cmds, shutdown, tasks, removals, exited>>
  BY DEF Insert
<1>2. Rows /\ PartsBelong /\ Wholes /\ Asks /\ Threads /\ captured \in Nat /\ captured' \in Nat
  BY <1>1 DEF StoreInv, Rows
<1>3. Threads'
  BY <1>1, <1>2, DaemonAssumption DEF Threads
<1>4. Wholes'
  BY <1>1, <1>2, WholesStay
<1>5. CASE UNCHANGED <<entries, mime_parts>>
  <2>1. Ids' = Ids /\ Tasks' = Tasks /\ 1..captured \subseteq 1..captured'
    BY <1>1, <1>2, <1>5 DEF Ids, Tasks
  <2>2. Rows'
    BY <1>2, <1>5, <2>1 DEF Rows
  <2>3. PartsBelong'
    BY <1>2, <1>5, <2>1 DEF PartsBelong
  <2>4. Asks'
    BY <1>1, <1>2, <1>5, <2>1 DEF Asks, IsSeq
  <2>5. QED BY <1>3, <1>4, <2>2, <2>3, <2>4 DEF StoreInv
<1>6. CASE ~UNCHANGED <<entries, mime_parts>>
  <2>1. PICK c, row, n : c = Head(captures) /\ row = EntryRow(c, captured') /\ n = NextId
    OBVIOUS
  <2>2. /\ entries' = [id \in Ids \cup {n} |-> IF id = n THEN row ELSE entries[id]]
        /\ mime_parts' = mime_parts \cup PartRows(n, c, captured')
    BY <1>6, <2>1 DEF Insert
  <2>3. n \notin Ids /\ n \in 1..captured' /\ captured' \in 1..captured'
    BY <1>1, <1>2, <2>1, NextIdIsNew
  <2>4. /\ Ids' = Ids \cup {n} /\ entries'[n] = row
        /\ \A id \in Ids : entries'[id] = entries[id]
    BY <2>2, <2>3 DEF Ids
  <2>5. row.capture = captured'
    BY <2>1 DEF EntryRow
  <2>6. Tasks' = Tasks /\ 1..captured \subseteq 1..captured' /\ (\A m \in 1..captured : m <= captured')
    BY <1>1, <1>2 DEF Tasks
  <2>7. Rows'
    BY <1>2, <2>3, <2>4, <2>5, <2>6 DEF Rows
  <2>8. PartsBelong'
    <3>1. \A p \in PartRows(n, c, captured') : p.entry_id = n /\ p.capture = captured'
      BY DEF PartRows
    <3>2. QED BY <1>2, <2>2, <2>3, <2>4, <2>5, <3>1 DEF PartsBelong
  <2>9. Asks'
    <3>1. tasks' = tasks /\ IsSeq(tasks')
      BY <1>1, <1>2 DEF Asks, IsSeq
    <3>2. ASSUME NEW t \in Tasks, tasks[t].id \in Ids'
          PROVE  entries'[tasks[t].id].capture >= tasks[t].capture
      <4>1. CASE tasks[t].id \in Ids
        BY <1>2, <2>4, <4>1 DEF Asks
      <4>2. CASE tasks[t].id = n
        <5>1. tasks[t].capture \in 1..captured
          BY <1>2 DEF Asks
        <5>2. QED BY <1>2, <2>4, <2>5, <2>6, <4>2, <5>1
      <4>3. QED BY <2>4, <3>2, <4>1, <4>2
    <3>3. QED BY <1>2, <2>6, <3>1, <3>2 DEF Asks
  <2>10. QED BY <1>3, <1>4, <2>7, <2>8, <2>9 DEF StoreInv
<1>7. QED BY <1>5, <1>6

\* A request moves on, and is still the same.
LEMMA TaskMoves ==
  ASSUME Asks, NEW t \in Tasks, NEW x \in {"found", "sent", "failed"},
         tasks' = [tasks EXCEPT ![t].state = x], UNCHANGED <<entries, captured>>
  PROVE  Asks' /\ Tasks' = Tasks /\ \A u \in Tasks : tasks'[u].capture = tasks[u].capture
<1>1. /\ IsSeq(tasks) /\ Len(tasks) \in Nat /\ DOMAIN tasks = Tasks
  BY LenProperties DEF Asks, IsSeq, Tasks
<1>2. PICK r : r = [tasks[t] EXCEPT !.state = x]
  OBVIOUS
<1>3. /\ \A u \in Tasks : tasks'[u] = IF u = t THEN r ELSE tasks[u]
      /\ tasks' = [u \in Tasks |-> tasks'[u]]
  BY <1>1, <1>2
<1>4. /\ r.id = tasks[t].id /\ r.selection = tasks[t].selection /\ r.mime = tasks[t].mime
      /\ r.capture = tasks[t].capture /\ r.state = x
      /\ r = [id |-> r.id, selection |-> r.selection, mime |-> r.mime, capture |-> r.capture, state |-> r.state]
  <2>1. tasks[t] = [id |-> tasks[t].id, selection |-> tasks[t].selection, mime |-> tasks[t].mime,
                   capture |-> tasks[t].capture, state |-> tasks[t].state]
    BY DEF Asks
  <2>2. QED BY <1>2, <2>1
<1>5. IsSeq(tasks') /\ Tasks' = Tasks
  <2> DEFINE S == {tasks'[u] : u \in Tasks}
  <2>1. tasks' \in [1..Len(tasks) -> S]
    BY <1>3 DEF Tasks
  <2> HIDE DEF S
  <2>2. tasks' \in Seq(S)
    <3>1. PICK n \in Nat : n = Len(tasks)
      BY <1>1
    <3>2. tasks' \in [1..n -> S]
      BY <2>1, <3>1
    <3>3. QED BY <3>2, SeqDef
  <2>3. DOMAIN tasks' = 1..Len(tasks) /\ Len(tasks') \in Nat /\ DOMAIN tasks' = 1..Len(tasks')
    BY <2>1, <2>2, LenProperties
  <2>4. IsSeq(tasks')
    BY <2>2, Listed
  <2>5. QED BY <2>3, <2>4 DEF Tasks
<1>6. Ids' = Ids
  BY DEF Ids
<1>7. Asks'
  <2>1. ASSUME NEW u \in Tasks
        PROVE  /\ tasks'[u] = [id |-> tasks'[u].id, selection |-> tasks'[u].selection, mime |-> tasks'[u].mime,
                               capture |-> tasks'[u].capture, state |-> tasks'[u].state]
               /\ tasks'[u].selection \in Selections /\ tasks'[u].capture \in 1..captured
               /\ tasks'[u].state \in {"asked", "found", "sent", "failed"}
               /\ tasks'[u].id \in Ids => entries[tasks'[u].id].capture >= tasks'[u].capture
    <3>1. CASE u = t
      <4>1. /\ tasks[t].selection \in Selections /\ tasks[t].capture \in 1..captured
            /\ tasks[t].id \in Ids => entries[tasks[t].id].capture >= tasks[t].capture
        BY DEF Asks
      <4>2. QED BY <1>3, <1>4, <3>1, <4>1
    <3>2. CASE u # t
      <4>1. tasks'[u] = tasks[u]
        BY <1>3, <3>2
      <4>2. QED BY <4>1 DEF Asks
    <3>3. QED BY <3>1, <3>2
  <2>2. QED BY <1>5, <1>6, <2>1 DEF Asks
<1>8. QED BY <1>3, <1>4, <1>5, <1>7

\* A user asks for a copy.
LEMMA AskCopyStep ==
  ASSUME StoreInv, NEW id \in Ids, NEW sel \in Selections, NEW mime, AskCopy(id, sel, mime)
  PROVE  StoreInv'
<1>1. Rows /\ PartsBelong /\ Wholes /\ Asks /\ Threads /\ IsSeq(tasks)
  BY DEF StoreInv, Asks
<1>2. PICK r : r = [id |-> id, selection |-> sel, mime |-> mime, capture |-> entries[id].capture, state |-> "asked"]
  OBVIOUS
<1>3. tasks' = Append(tasks, r)
      /\ UNCHANGED <<cmds, copies, captures, shutdown, entries, mime_parts, captured, storage, removals, exited>>
  BY <1>2 DEF AskCopy, clipboardVars
<1>4. /\ Len(tasks) \in Nat /\ IsSeq(tasks') /\ Len(tasks') = Len(tasks) + 1
      /\ \A i \in 1..Len(tasks) : tasks'[i] = tasks[i]
      /\ tasks'[Len(tasks) + 1] = r
  BY <1>1, <1>3, Sent
<1>5. /\ \A t \in Tasks : t \in Tasks' /\ tasks'[t] = tasks[t]
      /\ \A t \in Tasks' : (t \in Tasks /\ tasks'[t] = tasks[t]) \/ tasks'[t] = r
  <2>1. 1..Len(tasks') = 1..Len(tasks) \cup {Len(tasks) + 1}
    BY <1>4
  <2>2. QED BY <1>4, <2>1 DEF Tasks
<1>6. Rows' /\ PartsBelong' /\ Ids' = Ids
  BY <1>1, <1>3, RowsStay
<1>7. Asks'
  <2>1. /\ r.id = id /\ r.selection = sel /\ r.capture = entries[id].capture /\ r.state = "asked"
        /\ r = [id |-> r.id, selection |-> r.selection, mime |-> r.mime, capture |-> r.capture, state |-> r.state]
    BY <1>2
  <2>2. r.capture \in 1..captured /\ entries[r.id].capture >= r.capture
    BY <1>1, <2>1 DEF Rows
  <2>3. QED BY <1>1, <1>3, <1>4, <1>5, <1>6, <2>1, <2>2 DEF Asks
<1>8. Wholes'
  <2>1. \A c : Whole(c) => Whole(c)'
    BY <1>3, <1>5 DEF Whole
  <2>2. Sources' = Sources
    BY <1>3 DEF Sources
  <2>3. QED BY <1>1, <1>3, <2>1, <2>2 DEF Wholes, IsSeq
<1>9. Threads'
  BY <1>1, <1>3 DEF Threads
<1>10. QED BY <1>6, <1>7, <1>8, <1>9 DEF StoreInv

\* The request looks for its entry.
LEMMA FindEntryStep ==
  ASSUME StoreInv, NEW t \in Tasks, FindEntry(t)
  PROVE  StoreInv'
<1>1. Rows /\ PartsBelong /\ Wholes /\ Asks /\ Threads
  BY DEF StoreInv
<1>2. PICK x \in {"found", "failed"} : tasks' = [tasks EXCEPT ![t].state = x]
  BY DEF FindEntry
<1>3. UNCHANGED <<cmds, copies, captures, shutdown, entries, mime_parts, captured, storage, removals, exited>>
  BY DEF FindEntry, clipboardVars
<1>4. Asks' /\ Tasks' = Tasks /\ \A u \in Tasks : tasks'[u].capture = tasks[u].capture
  BY <1>1, <1>2, <1>3, TaskMoves
<1>5. Rows' /\ PartsBelong'
  BY <1>1, <1>3, RowsStay
<1>6. Wholes'
  <2>1. \A c : Whole(c) => Whole(c)'
    BY <1>3, <1>4 DEF Whole
  <2>2. Sources' = Sources
    BY <1>3 DEF Sources
  <2>3. QED BY <1>1, <1>3, <2>1, <2>2 DEF Wholes, IsSeq
<1>7. Threads'
  BY <1>1, <1>3 DEF Threads
<1>8. QED BY <1>4, <1>5, <1>6, <1>7 DEF StoreInv

\* What is sent is of one entry, the one found or one that has its id since.
LEMMA SendCopyStep ==
  ASSUME StoreInv, NEW t \in Tasks, SendCopy(t)
  PROVE  StoreInv'
<1>1. Rows /\ PartsBelong /\ Wholes /\ Asks /\ Threads /\ IsSeq(cmds)
  BY DEF StoreInv, Wholes
<1>2. UNCHANGED <<copies, captures, shutdown, entries, mime_parts, captured, storage, removals, exited>>
  BY DEF SendCopy
<1>3. PICK parts : /\ parts = {p \in PartsOf(tasks[t].id) : p.store # "Omitted" /\ tasks[t].mime \in {None, p.mime}}
                   /\ \/ tasks' = [tasks EXCEPT ![t].state = "failed"] /\ cmds' = cmds
                      \/ /\ tasks' = [tasks EXCEPT ![t].state = "sent"]
                         /\ cmds' = Append(cmds, [task |-> t, selection |-> tasks[t].selection, parts |-> parts])
  BY DEF SendCopy
<1>4. PICK x \in {"sent", "failed"} : tasks' = [tasks EXCEPT ![t].state = x]
  BY <1>3
<1>5. Asks' /\ Tasks' = Tasks /\ \A u \in Tasks : tasks'[u].capture = tasks[u].capture
  BY <1>1, <1>2, <1>4, TaskMoves
<1>6. Rows' /\ PartsBelong'
  BY <1>1, <1>2, RowsStay
<1>7. \A c : Whole(c) => Whole(c)'
  BY <1>2, <1>5 DEF Whole
<1>8. Sources' = Sources /\ \A s \in Sources : Whole(copies[s])'
  <2>1. Sources' = Sources
    BY <1>2 DEF Sources
  <2>2. ASSUME NEW s \in Sources PROVE Whole(copies[s])'
    <3>1. PICK c : c = copies[s]
      OBVIOUS
    <3>2. Whole(c)' /\ copies'[s] = c
      BY <1>1, <1>2, <1>7, <3>1 DEF Wholes
    <3>3. QED BY <3>2 DEF Whole
  <2>3. QED BY <2>1, <2>2
<1>9. IsSeq(cmds') /\ \A i \in 1..Len(cmds') : Whole(cmds[i])'
  <2>1. CASE cmds' = cmds
    <3>1. ASSUME NEW i \in 1..Len(cmds) PROVE Whole(cmds[i])'
      <4>1. PICK c : c = cmds[i]
        OBVIOUS
      <4>2. Whole(c)' /\ cmds'[i] = c
        BY <1>1, <1>7, <2>1, <4>1 DEF Wholes
      <4>3. QED BY <4>2 DEF Whole
    <3>2. QED BY <1>1, <2>1, <3>1 DEF IsSeq
  <2>2. ASSUME cmds' = Append(cmds, [task |-> t, selection |-> tasks[t].selection, parts |-> parts])
        PROVE  IsSeq(cmds') /\ \A i \in 1..Len(cmds') : Whole(cmds[i])'
    <3>1. PICK c : c = [task |-> t, selection |-> tasks[t].selection, parts |-> parts]
      OBVIOUS
    <3>2. \A p \in c.parts : /\ tasks[t].id \in Ids /\ p.capture = entries[tasks[t].id].capture
      BY <1>1, <1>3, <3>1 DEF PartsOf, PartsBelong
    <3>3. Whole(c)
      BY <1>1, <3>1, <3>2 DEF Asks, Whole
    <3>4. /\ Len(cmds) \in Nat /\ IsSeq(cmds') /\ Len(cmds') = Len(cmds) + 1
          /\ \A i \in 1..Len(cmds) : cmds'[i] = cmds[i]
          /\ cmds'[Len(cmds) + 1] = c
      BY <1>1, <2>2, <3>1, Sent
    <3>5. ASSUME NEW i \in 1..Len(cmds') PROVE Whole(cmds[i])'
      <4>1. (i \in 1..Len(cmds) /\ cmds'[i] = cmds[i]) \/ cmds'[i] = c
        <5>1. 1..Len(cmds') = 1..Len(cmds) \cup {Len(cmds) + 1}
          BY <3>4
        <5>2. QED BY <3>4, <5>1
      <4>2. PICK d : d = cmds'[i]
        OBVIOUS
      <4>3. Whole(d)'
        BY <1>1, <1>7, <3>3, <4>1, <4>2 DEF Wholes
      <4>4. QED BY <4>2, <4>3 DEF Whole
    <3>6. QED BY <3>4, <3>5
  <2>3. QED BY <1>3, <2>1, <2>2
<1>10. Wholes'
  BY <1>8, <1>9 DEF Wholes, IsSeq
<1>11. Threads'
  BY <1>1, <1>2 DEF Threads
<1>12. QED BY <1>5, <1>6, <1>10, <1>11 DEF StoreInv

\* A copy taken by the wayland thread is one that was sent.
LEMMA WaylandStore ==
  ASSUME StoreInv, IsSeq(copies), ~shutdown, Compositor \/ Wayland, UNCHANGED storeVars
  PROVE  StoreInv'
<1>1. Rows /\ PartsBelong /\ Wholes /\ Asks /\ Threads
  BY DEF StoreInv
<1>2. UNCHANGED <<entries, mime_parts, captured, storage, tasks, removals, exited>>
  BY DEF storeVars
<1>3. shutdown' = shutdown
  BY DEF Compositor, AppCopies, AppGoes, SetOwn, Wayland, DoCopy, Cancelled, IgnoreOffer, StartReading,
         ReadHint, ReadPart, Capture
<1>4. Rows' /\ PartsBelong' /\ Asks'
  BY <1>1, <1>2, RowsStay, AsksStay
<1>5. Threads'
  BY <1>1, <1>2, <1>3 DEF Threads
<1>6. Wholes'
  <2>1. CASE DoCopy
    <3>1. PICK c : c = Head(cmds)
      OBVIOUS
    <3>2. cmds # <<>> /\ cmds' = Tail(cmds) /\ copies' = Append(copies, c) /\ IsSeq(cmds)
      BY <1>1, <2>1, <3>1 DEF DoCopy, Wholes
    <3>3. /\ Len(cmds) \in Nat \ {0} /\ c = cmds[1] /\ IsSeq(cmds')
          /\ \A i \in 1..Len(cmds') : i \in Nat /\ i + 1 \in 1..Len(cmds) /\ cmds'[i] = cmds[i + 1]
      BY <3>1, <3>2, Received
    <3>4. /\ Len(copies) \in Nat /\ Len(copies') = Len(copies) + 1
          /\ \A i \in 1..Len(copies) : copies'[i] = copies[i]
          /\ copies'[Len(copies) + 1] = c
      BY <3>2, Sent
    <3>5. \A d : Whole(d)' <=> Whole(d)
      BY <1>2 DEF Whole, Tasks
    <3>6. Whole(c)
      BY <1>1, <3>3 DEF Wholes
    <3>7. ASSUME NEW i \in 1..Len(cmds') PROVE Whole(cmds[i])'
      <4>1. PICK d : d = cmds'[i]
        OBVIOUS
      <4>2. Whole(d)'
        BY <1>1, <3>3, <3>5, <4>1 DEF Wholes
      <4>3. QED BY <4>1, <4>2 DEF Whole
    <3>8. ASSUME NEW s \in Sources' PROVE Whole(copies[s])'
      <4>1. (s \in Sources /\ copies'[s] = copies[s]) \/ copies'[s] = c
        <5>1. 1..Len(copies') = 1..Len(copies) \cup {Len(copies) + 1}
          BY <3>4
        <5>2. QED BY <3>4, <5>1 DEF Sources
      <4>2. PICK d : d = copies'[s]
        OBVIOUS
      <4>3. Whole(d)'
        BY <1>1, <3>5, <3>6, <4>1, <4>2 DEF Wholes
      <4>4. QED BY <4>2, <4>3 DEF Whole
    <3>9. QED BY <3>3, <3>7, <3>8 DEF Wholes, IsSeq
  <2>2. CASE ~DoCopy
    <3>1. UNCHANGED <<cmds, copies>>
      BY <2>2 DEF Compositor, AppCopies, AppGoes, SetOwn, Wayland, Cancelled, IgnoreOffer, StartReading,
                  ReadHint, ReadPart, Capture
    <3>2. QED BY <1>1, <1>2, <3>1, WholesStay
  <2>3. QED BY <2>1, <2>2
<1>7. QED BY <1>4, <1>5, <1>6 DEF StoreInv

-----------------------------------------------------------------------------
(* Invariance.                                                             *)

IInv == ClipInv /\ ReadInv /\ StoreInv

\* No step of the storage thread or of a request touches the clipboard.
LEMMA ClipboardApart ==
  ASSUME ClipInv, ReadInv,
         UNCHANGED <<offers, current, requests, events, copies, sources, echoes, reading, captures>>
  PROVE  ClipInv' /\ ReadInv'
<1>1. ClipInv'
  BY ClipStays
<1>2. \A o \in Os : /\ o \in Os' /\ offers'[o] = offers[o] /\ (IsOwn(o)' <=> IsOwn(o))
                    /\ IsLive(o)' => IsLive(o)
  BY DEF Os, IsOwn, IsLive
<1>3. ReadInv'
  BY <1>2, ReadStays
<1>4. QED BY <1>1, <1>3

\* Nothing has been copied yet, and the store is what an earlier hugind left.
LEMMA InitInv ==
  ASSUME Init
  PROVE  IInv
<1>1. /\ offers = <<>> /\ current = [sel \in Selections |-> None] /\ requests = <<>> /\ events = <<>>
      /\ copies = <<>> /\ sources = {} /\ reading = None /\ cmds = <<>> /\ captures = <<>>
      /\ echoes = {} /\ shutdown = FALSE
  BY DEF Init, ClipboardInit
<1>2. IsSeq(<<>>) /\ Len(<<>>) = 0 /\ 1..0 = {}
  BY Nothing
<1>3. Os = {} /\ Es = {} /\ Sources = {} /\ 1..Len(requests) = {} /\ 1..Len(cmds) = {} /\ 1..Len(captures) = {}
  BY <1>1, <1>2 DEF Os, Es, Sources
<1>4. Names
  BY <1>1, <1>2, <1>3 DEF Names
<1>5. Owned /\ Latest /\ Distinct /\ Asked /\ Announced /\ CancelledFirst /\ Kept /\ EchoOnlyIfReplaced
  BY <1>1, <1>3 DEF Owned, Latest, Distinct, Asked, Announced, CancelledFirst, Kept, EchoOnlyIfReplaced
<1>6. ReadInv
  BY <1>1, <1>2, <1>3 DEF ReadInv, Read, Caught, SecretsSkipped
<1>7. PICK n \in Nat : n = Len(Stored)
  BY DaemonAssumption
<1>8. /\ entries = [id \in 1..n |-> EntryRow(Stored[id], id)] /\ captured = n /\ storage = "sweep"
      /\ mime_parts = UNION {PartRows(id, Stored[id], id) : id \in 1..n}
      /\ tasks = <<>> /\ removals = 0 /\ exited = FALSE
  BY <1>7 DEF Init
<1>9. Ids = 1..n /\ \A id \in 1..n : entries[id].capture = id
  BY <1>8 DEF Ids, EntryRow
<1>10. Rows
  BY <1>8, <1>9 DEF Rows
<1>11. PartsBelong
  <2> SUFFICES ASSUME NEW p \in mime_parts PROVE p.entry_id \in Ids /\ p.capture = entries[p.entry_id].capture
    BY DEF PartsBelong
  <2>1. PICK id \in 1..n : p \in PartRows(id, Stored[id], id)
    BY <1>8
  <2>2. p.entry_id = id /\ p.capture = id
    BY <2>1 DEF PartRows
  <2>3. QED BY <1>9, <2>2
<1>12. Tasks = {}
  BY <1>2, <1>8 DEF Tasks
<1>13. Asks /\ Wholes
  BY <1>1, <1>2, <1>3, <1>8, <1>12 DEF Asks, Wholes
<1>14. Threads
  <2>1. 0 \in 0..MaxRemovals + 1 /\ 0 <= MaxRemovals
    BY DaemonAssumption
  <2>2. QED BY <1>1, <1>8, <2>1 DEF Threads
<1>15. QED BY <1>4, <1>5, <1>6, <1>10, <1>11, <1>13, <1>14 DEF IInv, ClipInv, StoreInv

\* The invariant, one step for each action.
LEMMA NextInv ==
  ASSUME IInv, Next
  PROVE  IInv'
<1>1. ClipInv /\ ReadInv /\ StoreInv /\ Names /\ Wholes /\ IsSeq(cmds) /\ IsSeq(copies)
  BY DEF IInv, ClipInv, StoreInv, Wholes, Names
<1>2. Rows /\ PartsBelong /\ Asks /\ Threads
  BY <1>1 DEF StoreInv
<1>3. CASE ~shutdown /\ Compositor /\ UNCHANGED storeVars
  <2>1. ClipInv'
    BY <1>1, <1>3, CompositorStep
  <2>2. UNCHANGED <<reading, captures>>
    BY <1>3 DEF Compositor, AppCopies, AppGoes, SetOwn
  <2>3. ReadInv'
    BY <1>1, <1>3, <2>2, OffersStay, ReadStays
  <2>4. StoreInv'
    BY <1>1, <1>3, WaylandStore
  <2>5. QED BY <2>1, <2>3, <2>4 DEF IInv
<1>4. CASE ~shutdown /\ Wayland /\ UNCHANGED storeVars
  <2>1. cmds # <<>> => Head(cmds).selection \in Selections
    <3> SUFFICES ASSUME cmds # <<>> PROVE Head(cmds).selection \in Selections
      OBVIOUS
    <3>1. Len(cmds) \in Nat \ {0} /\ Head(cmds) = cmds[1]
      BY <1>1, Received
    <3>2. Whole(cmds[1])
      BY <1>1, <3>1 DEF Wholes
    <3>3. QED BY <3>1, <3>2 DEF Whole
  <2>2. ClipInv'
    BY <1>1, <1>4, <2>1, WaylandStep
  <2>3. StoreInv'
    BY <1>1, <1>4, WaylandStore
  <2>4. CASE DoCopy \/ Cancelled \/ IgnoreOffer
    <3>1. UNCHANGED <<offers, current, reading, captures>>
      BY <2>4 DEF DoCopy, Cancelled, IgnoreOffer
    <3>2. \A o \in Os : /\ o \in Os' /\ offers'[o] = offers[o] /\ (IsOwn(o)' <=> IsOwn(o))
                        /\ IsLive(o)' => IsLive(o)
      BY <3>1 DEF Os, IsOwn, IsLive
    <3>3. ReadInv'
      BY <1>1, <3>1, <3>2, ReadStays
    <3>4. QED BY <2>2, <2>3, <3>3 DEF IInv
  <2>5. CASE StartReading \/ ReadHint \/ ReadPart \/ Capture
    <3>1. ReadInv'
      BY <1>1, <2>5, StartReadingStep, ReadHintStep, ReadPartStep, CaptureStep
    <3>2. QED BY <2>2, <2>3, <3>1 DEF IInv
  <2>6. QED BY <1>4, <2>4, <2>5 DEF Wayland
<1>5. CASE ~shutdown /\ EndLoop /\ UNCHANGED storeVars
  <2>1. /\ UNCHANGED <<offers, current, requests, events, copies, sources, echoes, reading, captures>>
        /\ UNCHANGED <<entries, mime_parts, captured, storage, tasks, removals, exited>>
        /\ cmds' = <<>> /\ shutdown' = TRUE
    BY <1>5 DEF EndLoop, storeVars
  <2>2. ClipInv' /\ ReadInv'
    BY <1>1, <2>1, ClipboardApart
  <2>3. Rows' /\ PartsBelong' /\ Asks'
    BY <1>2, <2>1, RowsStay, AsksStay
  <2>4. Threads'
    BY <1>2, <2>1 DEF Threads
  <2>5. IsSeq(<<>>) /\ 1..Len(<<>>) = {}
    BY Nothing
  <2>6. \A c : Whole(c)' <=> Whole(c)
    BY <2>1 DEF Whole, Tasks
  <2>7. Wholes'
    BY <1>1, <2>1, <2>5, <2>6 DEF Wholes, Sources, IsSeq
  <2>8. QED BY <2>2, <2>3, <2>4, <2>7 DEF IInv, StoreInv
<1>6. CASE Insert
  <2>1. /\ UNCHANGED <<offers, current, requests, events, copies, sources, echoes, reading>>
        /\ captures # <<>> /\ captures' = Tail(captures)
    BY <1>6 DEF Insert
  <2>2. ClipInv' /\ ReadInv'
    BY <1>1, <2>1, ClipStays, CaptureTaken
  <2>3. QED BY <1>1, <1>6, <2>2, InsertStep DEF IInv
<1>7. CASE Retain
  <2>1. /\ UNCHANGED <<offers, current, requests, events, copies, sources, echoes, reading, captures>>
        /\ UNCHANGED <<cmds, shutdown, captured, tasks, exited>>
    BY <1>7 DEF Retain, clipboardVars
  <2>2. ClipInv' /\ ReadInv'
    BY <1>1, <2>1, ClipboardApart
  <2>3. storage = "sweep" /\ storage' = "take" /\ removals' = removals + 1
    BY <1>7 DEF Retain
  <2>4. Threads'
    BY <1>2, <2>1, <2>3, DaemonAssumption DEF Threads
  <2>5. Wholes'
    BY <1>1, <2>1, WholesStay
  <2>6. CASE UNCHANGED <<entries, mime_parts>>
    <3>1. Rows' /\ PartsBelong' /\ Asks'
      BY <1>2, <2>1, <2>6, RowsStay, AsksStay
    <3>2. QED BY <2>2, <2>4, <2>5, <3>1 DEF IInv, StoreInv
  <2>7. CASE \E gone : DeleteRows(gone)
    <3>1. Rows' /\ PartsBelong' /\ Asks'
      BY <1>2, <2>1, <2>7, DeleteStep
    <3>2. QED BY <2>2, <2>4, <2>5, <3>1 DEF IInv, StoreInv
  <2>8. QED BY <1>7, <2>6, <2>7 DEF Retain
<1>8. CASE StorageEnds \/ Exit
  <2>1. /\ UNCHANGED <<offers, current, requests, events, copies, sources, echoes, reading, captures>>
        /\ UNCHANGED <<cmds, shutdown, entries, mime_parts, captured, tasks, removals>>
    BY <1>8 DEF StorageEnds, Exit, clipboardVars
  <2>2. ClipInv' /\ ReadInv'
    BY <1>1, <2>1, ClipboardApart
  <2>3. Rows' /\ PartsBelong' /\ Asks' /\ Wholes'
    BY <1>1, <1>2, <2>1, RowsStay, AsksStay, WholesStay
  <2>4. Threads'
    BY <1>2, <1>8, <2>1 DEF Threads, StorageEnds, Exit
  <2>5. QED BY <2>2, <2>3, <2>4 DEF IInv, StoreInv
<1>9. ASSUME NEW id \in Ids, Delete(id)
      PROVE  IInv'
  <2>1. /\ UNCHANGED <<offers, current, requests, events, copies, sources, echoes, reading, captures>>
        /\ UNCHANGED <<cmds, shutdown, captured, storage, tasks, exited>>
        /\ DeleteRows({id}) /\ removals < MaxRemovals /\ removals' = removals + 1
    BY <1>9 DEF Delete, clipboardVars
  <2>2. ClipInv' /\ ReadInv'
    BY <1>1, <2>1, ClipboardApart
  <2>3. Rows' /\ PartsBelong' /\ Asks'
    BY <1>2, <2>1, DeleteStep
  <2>4. Wholes'
    BY <1>1, <2>1, WholesStay
  <2>5. Threads'
    BY <1>2, <2>1, DaemonAssumption DEF Threads
  <2>6. QED BY <2>2, <2>3, <2>4, <2>5 DEF IInv, StoreInv
<1>10. ASSUME NEW id \in Ids, NEW sel \in Selections, NEW mime \in Chosen, AskCopy(id, sel, mime)
       PROVE  IInv'
  <2>1. UNCHANGED <<offers, current, requests, events, copies, sources, echoes, reading, captures>>
    BY <1>10 DEF AskCopy, clipboardVars
  <2>2. ClipInv' /\ ReadInv'
    BY <1>1, <2>1, ClipboardApart
  <2>3. QED BY <1>1, <1>10, <2>2, AskCopyStep DEF IInv
<1>11. ASSUME NEW t \in Tasks, FindEntry(t) \/ SendCopy(t)
       PROVE  IInv'
  <2>1. UNCHANGED <<offers, current, requests, events, copies, sources, echoes, reading, captures>>
    BY <1>11 DEF FindEntry, SendCopy, clipboardVars
  <2>2. ClipInv' /\ ReadInv'
    BY <1>1, <2>1, ClipboardApart
  <2>3. StoreInv'
    BY <1>1, <1>11, FindEntryStep, SendCopyStep
  <2>4. QED BY <2>2, <2>3 DEF IInv
<1>12. QED BY <1>3, <1>4, <1>5, <1>6, <1>7, <1>8, <1>9, <1>10, <1>11 DEF Next, Storage, Requests

\* No step, no change.
LEMMA StutterInv ==
  ASSUME IInv, UNCHANGED vars
  PROVE  IInv'
<1>1. /\ UNCHANGED <<offers, current, requests, events, copies, sources, echoes, reading, captures>>
      /\ UNCHANGED <<cmds, shutdown, entries, mime_parts, captured, storage, tasks, removals, exited>>
  BY DEF vars, clipboardVars, storeVars
<1>2. ClipInv' /\ ReadInv'
  BY <1>1, ClipboardApart DEF IInv
<1>3. Rows' /\ PartsBelong' /\ Asks' /\ Wholes'
  BY <1>1, RowsStay, AsksStay, WholesStay DEF IInv, StoreInv
<1>4. Threads'
  BY <1>1 DEF IInv, StoreInv, Threads
<1>5. QED BY <1>2, <1>3, <1>4 DEF IInv, StoreInv

\* The inductive invariant holds of every state of hugind.
THEOREM Invariance == Spec => []IInv
<1>1. Init => IInv
  BY InitInv
<1>2. IInv /\ [Next]_vars => IInv'
  BY NextInv, StutterInv
<1>3. QED BY <1>1, <1>2, PTL DEF Spec

\* Every value is of its kind; main returns only when nothing captured is left.
THEOREM TypeCorrect == Spec => []TypeOK
<1>1. IInv => TypeOK
  <2> SUFFICES ASSUME IInv PROVE TypeOK
    OBVIOUS
  <2>1. Names /\ Rows /\ Wholes /\ Asks /\ Threads /\ IsSeq(captures)
    BY DEF IInv, ClipInv, ReadInv, StoreInv
  <2>2. /\ \A s \in Sources : copies[s].selection \in Selections /\ copies[s].task \in Tasks
        /\ \A i \in 1..Len(cmds) : cmds[i].selection \in Selections /\ cmds[i].task \in Tasks
    BY <2>1 DEF Wholes, Whole
  <2>3. \A i \in 1..Len(events) :
          IF events[i].kind = "cancelled" THEN events[i].source \in Sources
          ELSE /\ events[i].kind = "selection"
               /\ events[i].selection \in Selections /\ events[i].offer \in Os \cup {None}
    BY <2>1 DEF Names, Es, IsCancel
  <2>4. \A t \in Tasks : /\ tasks[t].selection \in Selections /\ tasks[t].capture \in 1..captured
                         /\ tasks[t].state \in {"asked", "found", "sent", "failed"}
    BY <2>1 DEF Asks
  <2>5. /\ storage \in {"sweep", "take", "ended"} /\ removals \in 0..MaxRemovals + 1
        /\ {shutdown, exited} \subseteq BOOLEAN /\ (exited => captures = <<>>)
    BY <2>1 DEF Threads
  <2>6. IsSeq(cmds) /\ IsSeq(tasks)
    BY <2>1 DEF Wholes, Asks
  <2>7. /\ captured \in Nat
        /\ \A id \in Ids : id \in 1..captured /\ entries[id].capture \in 1..captured
    BY <2>1 DEF Rows
  <2>8. QED BY <2>1, <2>2, <2>3, <2>4, <2>5, <2>6, <2>7 DEF TypeOK, Names
<1>2. QED BY <1>1, Invariance, PTL

\* The wayland thread never waits for itself: what it reads is never its own offer,
\* whatever queues up between it and the compositor.
THEOREM NoSelfReadCorrect == Spec => []NoSelfRead
<1>1. IInv => NoSelfRead
  BY DEF IInv, ReadInv, Read, NoSelfRead
<1>2. QED BY <1>1, Invariance, PTL

\* An application's selection is taken for an echo only when a copy replaces it.
THEOREM EchoOnlyIfReplacedCorrect == Spec => []EchoOnlyIfReplaced
<1>1. IInv => EchoOnlyIfReplaced
  BY DEF IInv, ClipInv
<1>2. QED BY <1>1, Invariance, PTL

\* A marked secret reaches the storage thread blank, or because its hint failed.
THEOREM SecretsSkippedCorrect == Spec => []SecretsSkipped
<1>1. IInv => SecretsSkipped
  BY DEF IInv, ReadInv
<1>2. QED BY <1>1, Invariance, PTL

\* Every part in the database is of the entry it is filed under.
THEOREM PartsBelongCorrect == Spec => []PartsBelong
<1>1. IInv => PartsBelong
  BY DEF IInv, StoreInv
<1>2. QED BY <1>1, Invariance, PTL

\* A copy sets one whole capture, the one its user saw or a later one of its id.
THEOREM CopyIsSeenCorrect == Spec => []CopyIsSeen
<1>1. IInv => CopyIsSeen
  BY DEF IInv, StoreInv, Wholes, Whole, CopyIsSeen
<1>2. QED BY <1>1, Invariance, PTL

-----------------------------------------------------------------------------
(***************************************************************************)
(* hugind's store implements the history of HuginHistory: whatever is      *)
(* captured, deleted and swept, and though ids are reused.                 *)
(***************************************************************************)

-----------------------------------------------------------------------------
(* The order of ids.                                                       *)

Rank(T, id) == Cardinality({j \in T : j <= id})
Nth(T, i) == CHOOSE id \in T : Rank(T, id) = i

\* Ranks are in the order of ids.
LEMMA Ranks ==
  ASSUME NEW n \in Nat, NEW T, T \subseteq 1..n
  PROVE  /\ IsFiniteSet(T) /\ Cardinality(T) \in Nat
         /\ \A id \in T : Rank(T, id) \in 1..Cardinality(T)
         /\ \A j, id \in T : j < id => Rank(T, j) < Rank(T, id)
<1>1. IsFiniteSet(1..n)
  BY FS_Interval
<1>2. IsFiniteSet(T) /\ Cardinality(T) \in Nat
  BY <1>1, FS_Subset, FS_CardinalityType
<1>3. ASSUME NEW id \in T PROVE Rank(T, id) \in 1..Cardinality(T)
  <2> DEFINE U == {j \in T : j <= id}
  <2>1. U \in SUBSET T /\ id \in U
    OBVIOUS
  <2> HIDE DEF U
  <2>2. IsFiniteSet(U) /\ Cardinality(U) \in Nat /\ Cardinality(U) <= Cardinality(T)
    BY <1>2, <2>1, FS_Subset, FS_CardinalityType
  <2>3. Cardinality(U) # 0
    BY <2>1, <2>2, FS_EmptySet
  <2>4. Cardinality(U) \in 1..Cardinality(T)
    BY <1>2, <2>2, <2>3
  <2>5. QED BY <2>4 DEF Rank, U
<1>4. ASSUME NEW j \in T, NEW id \in T, j < id PROVE Rank(T, j) < Rank(T, id)
  <2> DEFINE U == {i \in T : i <= j}
             V == {i \in T : i <= id}
  <2>1. \A i \in T : i \in Nat
    OBVIOUS
  <2>2. U \in SUBSET V /\ V \in SUBSET T /\ id \in V /\ id \notin U
    <3>1. \A i \in T : i <= j => i <= id
      BY <1>4, <2>1
    <3>2. id <= id /\ ~(id <= j)
      BY <1>4, <2>1
    <3>3. QED BY <3>1, <3>2
  <2> HIDE DEF U, V
  <2>3. IsFiniteSet(V) /\ Cardinality(V) \in Nat
    BY <1>2, <2>2, FS_Subset, FS_CardinalityType
  <2>4. Cardinality(U) \in Nat /\ Cardinality(U) <= Cardinality(V) /\ Cardinality(V) # Cardinality(U)
    BY <2>2, <2>3, FS_Subset, FS_CardinalityType
  <2>5. Cardinality(U) < Cardinality(V)
    BY <2>3, <2>4
  <2>6. QED BY <2>5 DEF Rank, U, V
<1>5. QED BY <1>2, <1>3, <1>4

\* Every rank is some id's.
LEMMA Nths ==
  ASSUME NEW n \in Nat, NEW T, T \subseteq 1..n
  PROVE  /\ \A i \in 1..Cardinality(T) : Nth(T, i) \in T /\ Rank(T, Nth(T, i)) = i
         /\ \A id \in T : Nth(T, Rank(T, id)) = id
<1>1. /\ IsFiniteSet(T) /\ Cardinality(T) \in Nat
      /\ \A id \in T : Rank(T, id) \in 1..Cardinality(T)
      /\ \A j, id \in T : j < id => Rank(T, j) < Rank(T, id)
  BY Ranks
<1>2. PICK k \in Nat : k = Cardinality(T)
  BY <1>1
<1>3. \A j, id \in T : Rank(T, j) = Rank(T, id) => j = id
  <2> SUFFICES ASSUME NEW j \in T, NEW id \in T, Rank(T, j) = Rank(T, id) PROVE j = id
    OBVIOUS
  <2>1. j \in Nat /\ id \in Nat /\ Rank(T, j) \in Nat
    BY <1>1
  <2>2. ~(j < id) /\ ~(id < j)
    BY <1>1, <2>1
  <2>3. QED BY <2>1, <2>2
<1> DEFINE r == [id \in T |-> Rank(T, id)]
<1>4. r \in Injection(T, 1..k)
  <2>1. r \in [T -> 1..k]
    BY <1>1, <1>2
  <2>2. QED BY <1>3, <2>1 DEF Injection, IsInjective
<1>5. IsFiniteSet(1..k) /\ Cardinality(1..k) = k
  BY FS_Interval
<1> HIDE DEF r
<1>6. r \in Surjection(T, 1..k)
  BY <1>2, <1>4, <1>5, FS_Injection
<1>7. ASSUME NEW i \in 1..k PROVE \E id \in T : Rank(T, id) = i
  <2>1. PICK id \in T : r[id] = i
    BY <1>6 DEF Surjection
  <2>2. QED BY <2>1 DEF r
<1>8. \A i \in 1..Cardinality(T) : Nth(T, i) \in T /\ Rank(T, Nth(T, i)) = i
  BY <1>2, <1>7 DEF Nth
<1>9. \A id \in T : Nth(T, Rank(T, id)) = id
  BY <1>1, <1>3, <1>8
<1>10. QED BY <1>8, <1>9

\* An id that comes after all others has the last rank.
LEMMA RankOfNew ==
  ASSUME NEW n \in Nat, NEW T, T \subseteq 1..n, NEW m \in Nat \ {0}, \A id \in T : id < m
  PROVE  /\ Cardinality(T \cup {m}) = Cardinality(T) + 1
         /\ \A i \in 1..Cardinality(T) : Nth(T \cup {m}, i) = Nth(T, i)
         /\ Nth(T \cup {m}, Cardinality(T) + 1) = m
<1> DEFINE U == T \cup {m}
<1>1. IsFiniteSet(T) /\ Cardinality(T) \in Nat /\ m \notin T
  <2>1. ~(m < m)
    OBVIOUS
  <2>2. QED BY <2>1, Ranks
<1>2. Cardinality(U) = Cardinality(T) + 1
  BY <1>1, FS_AddElement
<1>3. \A id \in T : Rank(U, id) = Rank(T, id)
  <2> SUFFICES ASSUME NEW id \in T PROVE Rank(U, id) = Rank(T, id)
    OBVIOUS
  <2>1. id \in Nat /\ ~(m <= id)
    OBVIOUS
  <2>2. \A j : j \in {i \in U : i <= id} <=> j \in {i \in T : i <= id}
    BY <2>1
  <2> HIDE DEF U
  <2>3. {j \in U : j <= id} = {j \in T : j <= id}
    BY <2>2
  <2>4. QED BY <2>3 DEF Rank
<1>4. Rank(U, m) = Cardinality(U)
  <2>1. \A id \in T : id <= m
    OBVIOUS
  <2>2. {j \in U : j <= m} = U
    <3>1. m <= m
      OBVIOUS
    <3>2. \A j \in U : j <= m
      BY <2>1, <3>1
    <3> HIDE DEF U
    <3>3. QED BY <3>2
  <2>3. QED BY <2>2 DEF Rank
<1>5. \E k \in Nat : U \subseteq 1..k
  <2>1. U \subseteq 1..m
    OBVIOUS
  <2>2. QED BY <2>1
<1> HIDE DEF U
<1>6. \A id \in U : Nth(U, Rank(U, id)) = id
  BY <1>5, Nths
<1>7. \A i \in 1..Cardinality(T) : Nth(T, i) \in T /\ Rank(T, Nth(T, i)) = i
  BY Nths
<1>8. m \in U /\ T \subseteq U
  BY DEF U
<1>9. \A i \in 1..Cardinality(T) : Nth(U, i) = Nth(T, i)
  BY <1>3, <1>6, <1>7, <1>8
<1>10. Nth(U, Cardinality(T) + 1) = m
  BY <1>2, <1>4, <1>6, <1>8
<1>11. QED BY <1>2, <1>9, <1>10 DEF U

\* A function on 1..k is a sequence of length k.
LEMMA Lengths ==
  ASSUME NEW S, NEW k \in Nat, NEW h \in [1..k -> S]
  PROVE  h \in Seq(S) /\ Len(h) = k
<1>1. h \in Seq(S)
  BY SeqDef
<1>2. Len(h) \in Nat /\ DOMAIN h = 1..Len(h) /\ DOMAIN h = 1..k
  BY <1>1, LenProperties
<1>3. PICK m \in Nat : m = Len(h)
  BY <1>2
<1>4. 1..m = 1..k
  BY <1>2, <1>3
<1>5. ~(m < k) /\ ~(k < m)
  <2>1. m < k => m + 1 \in 1..k /\ m + 1 \notin 1..m
    OBVIOUS
  <2>2. k < m => k + 1 \in 1..m /\ k + 1 \notin 1..k
    OBVIOUS
  <2>3. QED BY <1>4, <2>1, <2>2
<1>6. QED BY <1>1, <1>3, <1>5

-----------------------------------------------------------------------------
(* The history.                                                            *)

Hist == [i \in 1..Cardinality(Ids) |-> entries[Nth(Ids, i)]]

\* It has one capture of each id, in the order of ids.
LEMMA HistIs ==
  ASSUME NEW n \in Nat, Ids \subseteq 1..n
  PROVE  /\ Cardinality(Ids) \in Nat /\ IsSeq(Hist) /\ Len(Hist) = Cardinality(Ids)
         /\ \A i \in 1..Cardinality(Ids) : /\ Nth(Ids, i) \in Ids /\ Rank(Ids, Nth(Ids, i)) = i
                                           /\ Hist[i] = entries[Nth(Ids, i)]
<1>1. PICK k \in Nat : k = Cardinality(Ids)
  BY Ranks
<1>2. \A i \in 1..k : Nth(Ids, i) \in Ids /\ Rank(Ids, Nth(Ids, i)) = i
  BY <1>1, Nths
<1> DEFINE S == {entries[id] : id \in Ids}
<1>3. Hist \in [1..k -> S]
  BY <1>1, <1>2 DEF Hist
<1> HIDE DEF S
<1>4. Hist \in Seq(S) /\ Len(Hist) = k
  BY <1>3, Lengths
<1>5. IsSeq(Hist)
  BY <1>4, Listed
<1>6. \A i \in 1..k : Hist[i] = entries[Nth(Ids, i)]
  BY <1>1 DEF Hist
<1>7. QED BY <1>1, <1>2, <1>4, <1>5, <1>6

-----------------------------------------------------------------------------
(* The steps.                                                              *)

\* What an earlier hugind left is the history at first.
LEMMA InitHist ==
  ASSUME Init
  PROVE  Hist = [i \in 1..Len(Stored) |-> EntryRow(Stored[i], i)]
<1>1. PICK n \in Nat : n = Len(Stored)
  BY DaemonAssumption
<1>2. entries = [id \in 1..n |-> EntryRow(Stored[id], id)] /\ Ids = 1..n
  BY <1>1 DEF Init, Ids
<1>3. Cardinality(1..n) = n
  BY FS_Interval
<1>4. \A id \in 1..n : Rank(1..n, id) = id
  <2> SUFFICES ASSUME NEW id \in 1..n PROVE Rank(1..n, id) = id
    OBVIOUS
  <2>1. {j \in 1..n : j <= id} = 1..id
    OBVIOUS
  <2>2. Cardinality(1..id) = id
    BY FS_Interval
  <2>3. QED BY <2>1, <2>2 DEF Rank
<1>5. \A i \in 1..n : Nth(1..n, i) = i
  <2>1. \A id \in 1..n : Nth(1..n, Rank(1..n, id)) = id
    BY Nths
  <2>2. QED BY <1>4, <2>1
<1>6. \A i \in 1..n : entries[Nth(Ids, i)] = EntryRow(Stored[i], i)
  BY <1>2, <1>5
<1>7. QED BY <1>1, <1>2, <1>3, <1>6 DEF Hist

\* Rows that stay are the same history.
LEMMA SameHist ==
  ASSUME UNCHANGED entries
  PROVE  Hist' = Hist
BY DEF Hist, Ids, Nth, Rank

\* Hist is the history of the refinement, so this is its Record.
RecordStep ==
  /\ Len(Hist') = Len(Hist) + 1
  /\ SubSeq(Hist', 1, Len(Hist)) = Hist
  /\ \/ Hist'[Len(Hist')].omitted
     \/ \A last \in {Hist[i] : i \in {i \in 1..Len(Hist) : /\ Hist[i].selection = Hist'[Len(Hist')].selection
                       /\ \A j \in (i + 1)..Len(Hist) : Hist[j].selection # Hist'[Len(Hist')].selection}} :
          last.hash # Hist'[Len(Hist')].hash

\* An insert records, at the end, what does not repeat the last one.
LEMMA InsertRecords ==
  ASSUME Rows, Rows', Insert, ~UNCHANGED <<entries, mime_parts>>
  PROVE  RecordStep
<1>1. captured \in Nat /\ Ids \subseteq 1..captured /\ captured' \in Nat /\ Ids' \subseteq 1..captured'
  BY DEF Rows
<1>2. PICK c, row, n : c = Head(captures) /\ row = EntryRow(c, captured') /\ n = NextId
  OBVIOUS
<1>3. /\ row.omitted \/ ~RepeatsNewest(c.selection, row.hash)
      /\ entries' = [id \in Ids \cup {n} |-> IF id = n THEN row ELSE entries[id]]
  BY <1>2 DEF Insert
<1>4. n \notin Ids /\ n \in Nat \ {0} /\ \A id \in Ids : id < n
  <2>1. n \notin Ids /\ n \in Nat \ {0}
    BY <1>1, <1>2, NextIdIsNew
  <2>2. CASE Ids = {}
    BY <2>1, <2>2
  <2>3. CASE Ids # {}
    <3>1. Max(Ids) \in Ids /\ \A id \in Ids : id <= Max(Ids)
      BY <1>1, <2>3, Newest
    <3>2. PICK m \in Ids : m = Max(Ids)
      BY <3>1
    <3>3. n = m + 1
      BY <1>2, <2>3, <3>2 DEF NextId
    <3>4. \A id \in Ids : id \in Nat /\ id <= m
      BY <1>1, <3>1, <3>2
    <3>5. QED BY <2>1, <3>3, <3>4
  <2>4. QED BY <2>2, <2>3
<1>5. /\ Ids' = Ids \cup {n} /\ entries'[n] = row
      /\ \A id \in Ids : entries'[id] = entries[id]
  BY <1>3, <1>4 DEF Ids
<1>6. row.selection = c.selection
  BY <1>2 DEF EntryRow
<1>7. PICK k \in Nat : k = Cardinality(Ids)
  BY <1>1, Ranks
<1>8. /\ Cardinality(Ids') = k + 1
      /\ \A i \in 1..k : Nth(Ids', i) = Nth(Ids, i)
      /\ Nth(Ids', k + 1) = n
  <2>1. /\ Cardinality(Ids \cup {n}) = Cardinality(Ids) + 1
        /\ \A i \in 1..Cardinality(Ids) : Nth(Ids \cup {n}, i) = Nth(Ids, i)
        /\ Nth(Ids \cup {n}, Cardinality(Ids) + 1) = n
    BY <1>1, <1>4, RankOfNew
  <2>2. QED BY <1>5, <1>7, <2>1
<1>9. /\ IsSeq(Hist) /\ Len(Hist) = k
      /\ \A i \in 1..k : Nth(Ids, i) \in Ids /\ Rank(Ids, Nth(Ids, i)) = i /\ Hist[i] = entries[Nth(Ids, i)]
  BY <1>1, <1>7, HistIs
<1>10. Hist' = [i \in 1..k + 1 |-> entries'[Nth(Ids', i)]]
  BY <1>8 DEF Hist, Nth, Rank
<1>11. /\ \A i \in 1..k : Hist'[i] = Hist[i]
       /\ Hist'[k + 1] = row
  <2>1. k + 1 \in 1..k + 1 /\ \A i \in 1..k : i \in 1..k + 1
    OBVIOUS
  <2>2. \A i \in 1..k + 1 : Hist'[i] = entries'[Nth(Ids', i)]
    BY <1>10
  <2>3. \A i \in 1..k : Hist'[i] = entries[Nth(Ids, i)]
    BY <1>5, <1>8, <1>9, <2>1, <2>2
  <2>4. QED BY <1>5, <1>8, <1>9, <2>1, <2>2, <2>3
<1>12. Len(Hist') = k + 1
  <2> DEFINE S == {entries'[id] : id \in Ids'}
  <2>1. \A i \in 1..k + 1 : Hist'[i] \in S
    <3>1. \A i \in 1..k : Hist'[i] \in S
      BY <1>5, <1>9, <1>11
    <3>2. Hist'[k + 1] \in S
      BY <1>5, <1>11
    <3>3. QED BY <3>1, <3>2
  <2> HIDE DEF S
  <2>2. k + 1 \in Nat /\ Hist' \in [1..k + 1 -> S]
    BY <1>10, <2>1
  <2>3. PICK h : h = Hist'
    OBVIOUS
  <2>4. PICK m \in Nat : m = k + 1
    BY <2>2
  <2>5. h \in [1..m -> S]
    BY <2>2, <2>3, <2>4
  <2>6. Len(h) = m
    BY <2>5, Lengths
  <2>7. QED BY <2>3, <2>4, <2>6
<1>13. SubSeq(Hist', 1, k) = Hist
  <2> DEFINE S == Range(Hist)
  <2>1. Hist \in Seq(S) /\ DOMAIN Hist = 1..k
    BY <1>9, LenProperties DEF IsSeq
  <2>2. \A i \in 1..k : Hist'[i] \in S
    BY <1>9, <1>11, <2>1, ElementOfSeq
  <2> HIDE DEF S
  <2>3. PICK h, u : h = Hist' /\ u = SubSeq(Hist', 1, k)
    OBVIOUS
  <2>4. \A i \in 1..k : h[i] \in S
    BY <2>2, <2>3
  <2>5. u \in Seq(S) /\ Len(u) = (IF 1 <= k THEN k - 1 + 1 ELSE 0) /\ \A i \in 1..k - 1 + 1 : u[i] = h[1 + i - 1]
    BY <2>3, <2>4, SubSeqProperties
  <2>6. Len(u) = k /\ \A i \in 1..k : u[i] = h[i]
    BY <2>5
  <2>7. \A i \in 1..k : u[i] = Hist[i]
    BY <1>11, <2>3, <2>6
  <2>8. DOMAIN u = 1..k /\ u = [i \in 1..k |-> u[i]] /\ Hist = [i \in 1..k |-> Hist[i]]
    BY <2>1, <2>5, <2>6, LenProperties
  <2>9. u = Hist
    BY <2>7, <2>8
  <2>10. QED BY <2>3, <2>9
<1>14. ASSUME ~row.omitted, NEW i \in 1..k, Hist[i].selection = row.selection,
              \A j \in (i + 1)..k : Hist[j].selection # row.selection
       PROVE  Hist[i].hash # row.hash
  <2> DEFINE same == {id \in Ids : entries[id].selection = c.selection}
  <2>1. PICK id \in Ids : id = Nth(Ids, i)
    BY <1>9
  <2>2. entries[id] = Hist[i] /\ Rank(Ids, id) = i /\ id \in same
    BY <1>6, <1>9, <1>14, <2>1
  <2>3. ASSUME NEW m \in same PROVE ~(id < m)
    <3>1. Rank(Ids, m) \in 1..k /\ (id < m => i < Rank(Ids, m))
      BY <1>1, <1>7, <2>2, Ranks
    <3>2. PICK j \in 1..k : j = Rank(Ids, m)
      BY <3>1
    <3>3. Nth(Ids, j) = m
      BY <1>1, <3>2, Nths
    <3>4. Hist[j] = entries[m]
      BY <1>9, <3>3
    <3>5. j \notin (i + 1)..k
      BY <1>6, <1>14, <3>4
    <3>6. ~(i < j)
      BY <3>5
    <3>7. QED BY <3>1, <3>2, <3>6
  <2>4. same \subseteq 1..captured /\ same # {}
    BY <1>1, <2>2
  <2> HIDE DEF same
  <2>5. Max(same) \in same /\ \A j \in same : j <= Max(same)
    BY <1>1, <2>4, Newest
  <2>6. PICK m \in same : m = Max(same)
    BY <2>5
  <2>7. m \in Nat /\ id \in Nat /\ id <= m /\ ~(id < m)
    BY <2>2, <2>3, <2>4, <2>5, <2>6
  <2>8. Max(same) = id
    BY <2>6, <2>7
  <2>9. ~RepeatsNewest(c.selection, row.hash)
    BY <1>3, <1>14
  <2>10. entries[id].hash # row.hash
    BY <2>4, <2>8, <2>9 DEF RepeatsNewest, same
  <2>11. QED BY <2>2, <2>10
<1>15. QED BY <1>9, <1>11, <1>12, <1>13, <1>14 DEF RecordStep

\* The same for Forget.
ForgetStep ==
  /\ Len(Hist') < Len(Hist)
  /\ \E f \in [1..Len(Hist') -> 1..Len(Hist)] :
       /\ \A i, j \in 1..Len(Hist') : i < j => f[i] < f[j]
       /\ \A i \in 1..Len(Hist') : Hist'[i] = Hist[f[i]]

\* A deletion forgets, and what is left stays in order.
LEMMA DeleteForgets ==
  ASSUME Rows, NEW gone, DeleteRows(gone)
  PROVE  ForgetStep \/ Hist' = Hist
<1>1. PICK n \in Nat : n = captured /\ Ids \subseteq 1..n
  BY DEF Rows
<1>2. Ids' = Ids \ gone /\ Ids' \in SUBSET Ids /\ \A id \in Ids' : entries'[id] = entries[id]
  BY DEF DeleteRows, Ids
<1>3. Ids' \subseteq 1..n
  BY <1>1, <1>2
<1>4. PICK T, U : T = Ids /\ U = Ids'
  OBVIOUS
<1>5. PICK k \in Nat, l \in Nat : k = Cardinality(T) /\ l = Cardinality(U)
  BY <1>1, <1>3, <1>4, Ranks
<1>6. /\ IsSeq(Hist) /\ Len(Hist) = k
      /\ \A i \in 1..k : Hist[i] = entries[Nth(T, i)]
  BY <1>1, <1>4, <1>5, HistIs
<1>7. Hist' = [i \in 1..l |-> entries'[Nth(U, i)]]
  BY <1>4, <1>5 DEF Hist, Nth, Rank
<1>8. \A i \in 1..l : Nth(U, i) \in U /\ Rank(U, Nth(U, i)) = i
  BY <1>3, <1>4, <1>5, Nths
<1>9. Len(Hist') = l
  <2> DEFINE S == {entries'[id] : id \in U}
  <2>1. PICK h : h = Hist'
    OBVIOUS
  <2>2. h \in [1..l -> S]
    BY <1>7, <1>8, <2>1
  <2> HIDE DEF S
  <2>3. QED BY <2>1, <2>2, Lengths
<1>10. \A i \in 1..l : Hist'[i] = entries[Nth(U, i)]
  BY <1>2, <1>4, <1>7, <1>8
<1>11. CASE U = T
  <2>1. k = l
    BY <1>5, <1>11
  <2>2. Hist = [i \in 1..k |-> entries[Nth(T, i)]]
    BY <1>4, <1>5 DEF Hist
  <2>3. \A i \in 1..k : entries'[Nth(U, i)] = entries[Nth(T, i)]
    BY <1>2, <1>4, <1>8, <1>11, <2>1
  <2>4. Hist' = Hist
    BY <1>7, <2>1, <2>2, <2>3
  <2>5. QED BY <2>4
<1>12. CASE U # T
  <2>1. IsFiniteSet(T) /\ Cardinality(T) = k /\ Cardinality(U) = l /\ U \in SUBSET T
    BY <1>1, <1>2, <1>4, <1>5, Ranks
  <2>2. l <= k /\ l # k
    BY <1>12, <2>1, FS_Subset
  <2>3. l < k
    BY <2>2
  <2>4. \A id \in T : Rank(T, id) \in 1..k /\ Nth(T, Rank(T, id)) = id
    BY <1>1, <1>4, <1>5, Ranks, Nths
  <2>5. \A i \in 1..l : Nth(U, i) \in T /\ Nth(U, i) \in Nat
    <3>1. \A id \in U : id \in T /\ id \in Nat
      BY <1>1, <1>2, <1>4
    <3>2. QED BY <1>8, <3>1
  <2>6. PICK f : f = [i \in 1..l |-> Rank(T, Nth(U, i))]
    OBVIOUS
  <2>7. f \in [1..l -> 1..k]
    BY <2>4, <2>5, <2>6
  <2>8. ASSUME NEW i \in 1..l, NEW j \in 1..l, i < j PROVE f[i] < f[j]
    <3>1. PICK p \in U, q \in U : p = Nth(U, i) /\ q = Nth(U, j) /\ Rank(U, p) = i /\ Rank(U, q) = j
      BY <1>8
    <3>2. p \in Nat /\ q \in Nat /\ p \in T /\ q \in T
      BY <2>5, <3>1
    <3>3. ~(q < p)
      <4>1. q < p => Rank(U, q) < Rank(U, p)
        BY <1>3, <1>4, <3>1, Ranks
      <4>2. ~(j < i)
        BY <2>8
      <4>3. QED BY <3>1, <4>1, <4>2
    <3>4. p # q
      <4>1. i # j
        BY <2>8
      <4>2. QED BY <3>1, <4>1
    <3>5. p < q
      BY <3>2, <3>3, <3>4
    <3>6. Rank(T, p) < Rank(T, q)
      BY <1>1, <1>4, <3>2, <3>5, Ranks
    <3>7. QED BY <2>6, <3>1, <3>6
  <2>9. \A i \in 1..l : Hist'[i] = Hist[f[i]]
    <3> SUFFICES ASSUME NEW i \in 1..l PROVE Hist'[i] = Hist[f[i]]
      OBVIOUS
    <3>1. PICK id \in T : id = Nth(U, i)
      BY <2>5
    <3>2. f[i] \in 1..k /\ Nth(T, f[i]) = id
      BY <2>4, <2>6, <3>1
    <3>3. Hist[f[i]] = entries[id]
      BY <1>6, <3>2
    <3>4. QED BY <1>10, <3>1, <3>3
  <2>10. QED BY <1>6, <1>9, <2>3, <2>7, <2>8, <2>9 DEF ForgetStep
<1>13. QED BY <1>11, <1>12

\* hugind's store implements its history: records come in order, a repeat of
\* the last one is left out, and what is deleted or swept leaves the rest as it was.
THEOREM DaemonImplementsHistory == Spec => HistoryIsKept
<1>1. Init => History!Init
  <2> SUFFICES ASSUME Init PROVE History!Init
    OBVIOUS
  <2>1. Hist = [i \in 1..Len(Stored) |-> EntryRow(Stored[i], i)]
    BY InitHist
  <2>2. QED BY <2>1 DEF History!Init, Hist, Nth, Rank
<1>2. IInv /\ IInv' /\ [Next]_vars => [History!Next]_Hist
  <2> SUFFICES ASSUME IInv, IInv', [Next]_vars PROVE [History!Next]_Hist
    OBVIOUS
  <2>1. Rows /\ Rows'
    BY DEF IInv, StoreInv
  <2>2. RecordStep => History!Next
    BY DEF RecordStep, Hist, Nth, Rank, History!Next, History!Record, History!LastOf
  <2>3. ForgetStep => History!Next
    BY DEF ForgetStep, Hist, Nth, Rank, History!Next, History!Forget
  <2>4. CASE UNCHANGED entries
    BY <2>4, SameHist
  <2>5. CASE Insert /\ ~UNCHANGED entries
    BY <2>1, <2>2, <2>5, InsertRecords
  <2>6. CASE \E gone : DeleteRows(gone)
    BY <2>1, <2>3, <2>6, DeleteForgets
  <2>7. UNCHANGED entries \/ (Insert /\ ~UNCHANGED entries) \/ \E gone : DeleteRows(gone)
    <3>1. CASE UNCHANGED vars
      BY <3>1 DEF vars, storeVars
    <3>2. CASE ~shutdown /\ (Compositor \/ Wayland \/ EndLoop) /\ UNCHANGED storeVars
      BY <3>2 DEF storeVars
    <3>3. CASE Storage \/ Exit
      BY <3>3 DEF Storage, Retain, StorageEnds, Exit
    <3>4. CASE Requests
      BY <3>4 DEF Requests, Delete, AskCopy, FindEntry, SendCopy
    <3>5. QED BY <3>1, <3>2, <3>3, <3>4 DEF Next
  <2>8. QED BY <2>4, <2>5, <2>6, <2>7
<1>3. QED BY <1>1, <1>2, Invariance, PTL DEF Spec, HistoryIsKept, History!Spec, Hist, Nth, Rank
=============================================================================
