---------------------------- MODULE MwmSetProofs ----------------------------
(***************************************************************************)
(* Proofs about MwmSet, for any set of countries, versions, infos,         *)
(* threads and any finite set of handles.                                  *)
(***************************************************************************)
EXTENDS MwmSet, SequenceTheorems, FiniteSetTheorems, TLAPS

\* The registry part of the inductive invariant, of a file map f, a status
\* map st and a registry mi: it is shown of the intermediate states of an
\* operation too.
Registry(f, st, mi) ==
  /\ f \in [Info -> File \cup {NoFile}]
  /\ st \in [Info -> Status]
  /\ mi \in [Country -> Seq(Info)]
  /\ \A i \in Info : st[i] # "DEREGISTERED" => f[i] \in File
  /\ \A c \in Country : \A k \in 1..Len(mi[c]) :
       st[mi[c][k]] # "DEREGISTERED" /\ f[mi[c][k]].country = c
  /\ \A c \in Country : \A k, l \in 1..Len(mi[c]) :
       k < l => /\ f[mi[c][k]].version < f[mi[c][l]].version
                /\ st[mi[c][k]] = "MARKED_TO_DEREGISTER"

\* The inductive invariant.
IInv ==
  /\ TypeOK
  /\ Registry(file, status, m_info)
  /\ RefsCountHandles
  /\ HandlesPinMaps
  /\ MarkedIsLocked

----------------------------------------------------------------------------
(* Sequences *)

\* Erasing the only occurrence of an element shifts the later ones down.
LEMMA RemoveUnique ==
  ASSUME NEW S, NEW s \in Seq(S), NEW p \in 1..Len(s),
         \A k \in 1..Len(s) : s[k] = s[p] => k = p
  PROVE  /\ RemoveFirst(s, s[p]) \in Seq(S)
         /\ Len(RemoveFirst(s, s[p])) = Len(s) - 1
         /\ \A k \in 1..(Len(s) - 1) :
              RemoveFirst(s, s[p])[k] = IF k < p THEN s[k] ELSE s[k + 1]
<1> DEFINE a == SubSeq(s, 1, p - 1)
           b == SubSeq(s, p + 1, Len(s))
<1>0. Len(s) \in Nat /\ p \in Nat /\ \A k \in 1..Len(s) : s[k] \in S
  BY LenProperties
<1>2. FirstPosition(s, s[p]) = p
  <2>1. \A l \in 1..(p - 1) : s[l] # s[p]
    BY <1>0
  <2>2. \E k \in 1..Len(s) : s[k] = s[p] /\ \A l \in 1..(k - 1) : s[l] # s[p]
    BY <2>1
  <2> QED
    BY <2>2 DEF FirstPosition
<1>3. RemoveFirst(s, s[p]) = a \o b
  BY Zenon, <1>2 DEF RemoveFirst, Elements
<1>4. /\ a \in Seq(S) /\ Len(a) = p - 1
      /\ \A k \in 1..(p - 1) : a[k] = s[k]
  BY <1>0, SubSeqProperties
<1>5. /\ b \in Seq(S) /\ Len(b) = Len(s) - p
      /\ \A k \in 1..(Len(s) - p) : b[k] = s[p + k]
  BY <1>0, SubSeqProperties
<1>6. /\ a \o b \in Seq(S) /\ Len(a \o b) = Len(a) + Len(b)
      /\ \A k \in 1..(Len(a) + Len(b)) :
           (a \o b)[k] = IF k <= Len(a) THEN a[k] ELSE b[k - Len(a)]
  BY ZenonT(40), <1>4, <1>5, ConcatProperties
<1> HIDE DEF a, b
<1>7. ASSUME NEW k \in 1..(Len(s) - 1)
      PROVE  (a \o b)[k] = IF k < p THEN s[k] ELSE s[k + 1]
  <2>0. k \in Nat /\ k >= 1 /\ k <= Len(s) - 1 /\ k \in 1..(Len(a) + Len(b))
    BY <1>0, <1>4, <1>5
  <2>1. CASE k < p
    <3>1. k \in 1..(p - 1) /\ k <= Len(a)
      BY <1>0, <1>4, <2>0, <2>1
    <3> QED
      BY <1>4, <1>6, <2>0, <2>1, <3>1
  <2>2. CASE ~(k < p)
    <3>1. /\ ~(k <= Len(a)) /\ k - Len(a) \in 1..(Len(s) - p)
          /\ p + (k - Len(a)) = k + 1
      BY <1>0, <1>4, <2>0, <2>2
    <3> QED
      BY <1>5, <1>6, <2>0, <2>2, <3>1
  <2> QED
    BY Zenon, <2>1, <2>2
<1> QED
  BY <1>0, <1>3, <1>4, <1>5, <1>6, <1>7

\* Erasing an element that is not there changes nothing.
LEMMA RemoveAbsent ==
  ASSUME NEW s, NEW e, \A k \in 1..Len(s) : s[k] # e
  PROVE  RemoveFirst(s, e) = s
BY DEF RemoveFirst, Elements

----------------------------------------------------------------------------
(* The registry *)

\* Fields of a file.
LEMMA FileFields ==
  ASSUME NEW f \in File
  PROVE  f.country \in Country /\ f.version \in Version /\ f.version \in Nat
BY Zenon, MwmSetAssumption DEF File

\* Types of what a registry holds.
LEMMA RegistryTypes ==
  ASSUME NEW f, NEW st, NEW mi, Registry(f, st, mi), NEW c \in Country
  PROVE  /\ mi[c] \in Seq(Info)
         /\ Len(mi[c]) \in Nat
         /\ \A k \in 1..Len(mi[c]) : /\ mi[c][k] \in Info
                                     /\ f[mi[c][k]] \in File
                                     /\ f[mi[c][k]].version \in Nat
<1>1. mi[c] \in Seq(Info)
  BY DEF Registry
<1>2. Len(mi[c]) \in Nat /\ \A k \in 1..Len(mi[c]) : mi[c][k] \in Info
  BY <1>1, LenProperties
<1>3. \A k \in 1..Len(mi[c]) : f[mi[c][k]] \in File
  BY <1>2 DEF Registry
<1> QED
  BY <1>1, <1>2, <1>3, FileFields

\* The infos of a country are pairwise different.
LEMMA RegistryDistinct ==
  ASSUME NEW f, NEW st, NEW mi, Registry(f, st, mi), NEW c \in Country,
         NEW k \in 1..Len(mi[c]), NEW l \in 1..Len(mi[c]), mi[c][k] = mi[c][l]
  PROVE  k = l
<1>1. Len(mi[c]) \in Nat /\ f[mi[c][k]].version \in Nat
  BY RegistryTypes
<1>2. ~(k < l) /\ ~(l < k)
  BY <1>1 DEF Registry
<1> QED
  BY <1>1, <1>2

(***************************************************************************)
(* What DeregisterImpl does to the registry: it stays ordered, only the    *)
(* status of i changes, and when i was the last map of its country, every  *)
(* map left there is marked and no newer than i.                           *)
(***************************************************************************)
LEMMA DeregisterKeepsRegistry ==
  ASSUME Registry(file, status, m_info),
         NEW i \in Info, status[i] # "DEREGISTERED", NEW refs \in Nat
  PROVE  LET d == DeregisterImpl(i, refs)
             c == file[i].country
         IN  /\ Registry(file, d.status, d.m_info)
             /\ d.status = [status EXCEPT ![i] = IF refs = 0 THEN "DEREGISTERED"
                                                ELSE "MARKED_TO_DEREGISTER"]
             /\ d.events \in Seq(Event)
             /\ (m_info[c] # <<>> /\ i = Last(m_info[c])) =>
                  \A k \in 1..Len(d.m_info[c]) :
                    /\ d.status[d.m_info[c][k]] = "MARKED_TO_DEREGISTER"
                    /\ file[d.m_info[c][k]].version <= file[i].version
<1> DEFINE d == DeregisterImpl(i, refs)
           c == file[i].country
           s == m_info[c]
<1>1. file[i] \in File /\ c \in Country
  BY FileFields DEF Registry
<1>2. /\ s \in Seq(Info) /\ Len(s) \in Nat
      /\ \A k \in 1..Len(s) : s[k] \in Info /\ file[s[k]] \in File
                              /\ file[s[k]].version \in Nat
  BY SMTT(40), <1>1, RegistryTypes
<1>3. CASE refs # 0
  <2>1. /\ d.status = [status EXCEPT ![i] = "MARKED_TO_DEREGISTER"]
        /\ d.m_info = m_info /\ d.events = <<>>
    BY <1>3 DEF DeregisterImpl
  <2>2. Registry(file, [status EXCEPT ![i] = "MARKED_TO_DEREGISTER"], m_info)
    BY SMTT(40), <1>2, RegistryTypes DEF Registry, Status
  <2>3. ASSUME s # <<>>, i = Last(s), NEW k \in 1..Len(s)
        PROVE  /\ [status EXCEPT ![i] = "MARKED_TO_DEREGISTER"][s[k]]
                     = "MARKED_TO_DEREGISTER"
               /\ file[s[k]].version <= file[i].version
    <3>1. i = s[Len(s)] /\ Len(s) \in 1..Len(s)
      BY <1>2, <2>3 DEF Last
    <3>2. CASE k = Len(s)
      BY <1>2, <3>1, <3>2 DEF Registry
    <3>3. CASE k # Len(s)
      BY SMTT(40), <1>1, <1>2, <3>1, <3>3 DEF Registry
    <3> QED
      BY <3>2, <3>3
  <2> QED
    BY <1>3, <2>1, <2>2, <2>3
<1>4. CASE refs = 0
  <2> DEFINE st == [status EXCEPT ![i] = "DEREGISTERED"]
             r  == RemoveFirst(s, i)
             mi == [m_info EXCEPT ![c] = r]
  <2>1. /\ d.status = st /\ d.m_info = mi
        /\ d.events = <<[type |-> "DEREGISTERED", file |-> file[i]]>>
    BY <1>4 DEF DeregisterImpl
  <2>2. d.events \in Seq(Event)
    BY <1>1, <2>1 DEF Event
  <2>3. /\ r \in Seq(Info) /\ Len(r) \in Nat
        /\ \A k \in 1..Len(r) : \E m \in 1..Len(s) : r[k] = s[m] /\ s[m] # i
        /\ \A k, l \in 1..Len(r) : k < l =>
             \E m, n \in 1..Len(s) : m < n /\ r[k] = s[m] /\ r[l] = s[n]
        /\ (s # <<>> /\ i = Last(s)) =>
             \A k \in 1..Len(r) : \E m \in 1..Len(s) : m < Len(s) /\ r[k] = s[m]
    <3>1. CASE \A k \in 1..Len(s) : s[k] # i
      <4>1. r = s
        BY SMTT(40), <3>1, RemoveAbsent
      <4>2. ~(s # <<>> /\ i = Last(s))
        BY <1>2, <3>1 DEF Last
      <4> HIDE DEF r, s
      <4> QED
        BY <1>2, <3>1, <4>1, <4>2
    <3>2. ASSUME NEW p \in 1..Len(s), s[p] = i
          PROVE  <2>3
      <4>1. \A k \in 1..Len(s) : s[k] = s[p] => k = p
        BY <1>1, RegistryDistinct
      <4>2. /\ r \in Seq(Info) /\ Len(r) = Len(s) - 1
            /\ \A k \in 1..(Len(s) - 1) : r[k] = IF k < p THEN s[k] ELSE s[k + 1]
        <5> HIDE DEF s
        <5>1. r = RemoveFirst(s, s[p])
          BY <3>2
        <5> QED
          BY Zenon, <1>2, <3>2, <4>1, <5>1, RemoveUnique
      <4>3. s # <<>> /\ i = Last(s) => p = Len(s)
        BY <1>2, <3>2, <4>1 DEF Last
      <4> HIDE DEF r, s
      <4> HIDE DEF st, mi, d, c
      <4>4. ASSUME NEW k \in 1..Len(r)
            PROVE  \E m \in 1..Len(s) : r[k] = s[m] /\ s[m] # i
        <5>1. CASE k < p
          <6>1. k \in 1..Len(s) /\ k # p /\ r[k] = s[k]
            BY <1>2, <3>2, <4>2, <5>1
          <6> QED
            BY <3>2, <4>1, <6>1
        <5>2. CASE ~(k < p)
          <6>1. k + 1 \in 1..Len(s) /\ k + 1 # p /\ r[k] = s[k + 1]
            BY <1>2, <3>2, <4>2, <5>2
          <6> QED
            BY <3>2, <4>1, <6>1
        <5> QED
          BY <5>1, <5>2
      <4>5. ASSUME NEW k \in 1..Len(r), NEW l \in 1..Len(r), k < l
            PROVE  \E m, n \in 1..Len(s) : m < n /\ r[k] = s[m] /\ r[l] = s[n]
        <5>1. CASE l < p
          <6>1. k \in 1..Len(s) /\ l \in 1..Len(s) /\ r[k] = s[k] /\ r[l] = s[l]
            BY SMTT(40), <1>2, <4>2, <4>5, <5>1
          <6> QED
            BY <4>5, <6>1
        <5>2. CASE k < p /\ ~(l < p)
          <6>1. /\ k \in 1..Len(s) /\ l + 1 \in 1..Len(s) /\ k < l + 1
                /\ r[k] = s[k] /\ r[l] = s[l + 1]
            BY <1>2, <4>2, <4>5, <5>2
          <6> QED
            BY <6>1
        <5>3. CASE ~(k < p)
          <6>1. /\ k + 1 \in 1..Len(s) /\ l + 1 \in 1..Len(s) /\ k + 1 < l + 1
                /\ r[k] = s[k + 1] /\ r[l] = s[l + 1]
            BY <1>2, <4>2, <4>5, <5>3
          <6> QED
            BY <6>1
        <5> QED
          BY <5>1, <5>2, <5>3
      <4>6. ASSUME s # <<>>, i = Last(s), NEW k \in 1..Len(r)
            PROVE  \E m \in 1..Len(s) : m < Len(s) /\ r[k] = s[m]
        BY <1>2, <4>2, <4>3, <4>6
      <4> QED
        BY <1>2, <4>2, <4>4, <4>5, <4>6
    <3> QED
      BY Zenon, <3>1, <3>2
  <2> HIDE DEF r
  <2>4. /\ mi \in [Country -> Seq(Info)] /\ mi[c] = r
        /\ \A c2 \in Country : c2 # c => mi[c2] = m_info[c2]
    BY <1>1, <2>3 DEF Registry
  <2>5. ASSUME NEW c2 \in Country, NEW k \in 1..Len(mi[c2])
        PROVE  /\ mi[c2][k] \in Info /\ mi[c2][k] # i
               /\ status[mi[c2][k]] # "DEREGISTERED"
               /\ file[mi[c2][k]].country = c2
    <3>1. CASE c2 = c
      <4>1. PICK m \in 1..Len(s) : mi[c2][k] = s[m] /\ s[m] # i
        BY SMTT(40), <2>3, <2>4, <2>5, <3>1
      <4> QED
        BY <1>1, <1>2, <3>1, <4>1 DEF Registry
    <3>2. CASE c2 # c
      BY SMTT(40), <1>1, <2>4, <2>5, <3>2, RegistryTypes DEF Registry
    <3> QED
      BY SMTT(40), <3>1, <3>2
  <2>6. ASSUME NEW c2 \in Country, NEW k \in 1..Len(mi[c2]), NEW l \in 1..Len(mi[c2]),
               k < l
        PROVE  /\ file[mi[c2][k]].version < file[mi[c2][l]].version
               /\ status[mi[c2][k]] = "MARKED_TO_DEREGISTER"
    <3>1. CASE c2 = c
      <4>1. PICK m \in 1..Len(s), n \in 1..Len(s) :
              m < n /\ mi[c2][k] = s[m] /\ mi[c2][l] = s[n]
        <5> HIDE DEF s, mi, c
        <5>1. mi[c2] = r
          BY Zenon, <2>4, <3>1
        <5>2. k \in 1..Len(r) /\ l \in 1..Len(r)
          BY Zenon, <2>6, <5>1
        <5> QED
          BY ZenonT(40), <2>3, <2>6, <5>1, <5>2
      <4> QED
        BY <1>1, <3>1, <4>1 DEF Registry
    <3>2. CASE c2 # c
      BY <2>4, <2>6, <3>2 DEF Registry
    <3> QED
      BY <3>1, <3>2
  <2>7. st \in [Info -> Status] /\ \A j \in Info : j # i => st[j] = status[j]
    BY DEF Registry, Status
  <2>8. Registry(file, st, mi)
    <3> HIDE DEF mi
    <3>1. \A j \in Info : st[j] # "DEREGISTERED" => file[j] \in File
      BY <2>7, <1>1 DEF Registry
    <3>2. \A c2 \in Country : \A k \in 1..Len(mi[c2]) :
            st[mi[c2][k]] # "DEREGISTERED" /\ file[mi[c2][k]].country = c2
      BY <2>5, <2>7
    <3>3. \A c2 \in Country : \A k, l \in 1..Len(mi[c2]) :
            k < l => /\ file[mi[c2][k]].version < file[mi[c2][l]].version
                     /\ st[mi[c2][k]] = "MARKED_TO_DEREGISTER"
      BY <2>5, <2>6, <2>7
    <3> QED
      BY <2>4, <2>7, <3>1, <3>2, <3>3 DEF Registry
  <2>9. ASSUME s # <<>>, i = Last(s), NEW k \in 1..Len(r)
        PROVE  /\ st[r[k]] = "MARKED_TO_DEREGISTER"
               /\ file[r[k]].version <= file[i].version
    <3>1. PICK m \in 1..Len(s) : m < Len(s) /\ r[k] = s[m]
      BY Zenon, <2>3, <2>9
    <3>2. i = s[Len(s)] /\ Len(s) \in 1..Len(s)
      BY <1>2, <2>9 DEF Last
    <3>3. status[s[m]] = "MARKED_TO_DEREGISTER" /\ file[s[m]].version < file[i].version
      BY SMTT(40), <1>1, <3>1, <3>2 DEF Registry
    <3>4. s[m] # i
      BY SMTT(40), <1>1, <3>1, <3>2, RegistryDistinct, <1>2
    <3>5. file[i].version \in Nat /\ file[s[m]].version \in Nat /\ s[m] \in Info
      BY <1>1, <1>2, FileFields
    <3> HIDE DEF st, s
    <3> QED
      BY <2>7, <3>1, <3>3, <3>4, <3>5
  <2> QED
    BY Zenon, <1>4, <2>1, <2>2, <2>4, <2>8, <2>9
<1> QED
  BY Zenon, <1>3, <1>4

\* Pushing a newly created info at the end of a country whose maps are all
\* marked and older keeps the registry ordered.
LEMMA PushKeepsRegistry ==
  ASSUME NEW f, NEW st, NEW mi, Registry(f, st, mi),
         NEW g \in File, NEW j \in Info, f[j] = NoFile,
         \A k \in 1..Len(mi[g.country]) :
           /\ st[mi[g.country][k]] = "MARKED_TO_DEREGISTER"
           /\ f[mi[g.country][k]].version < g.version
  PROVE  Registry([f EXCEPT ![j] = g], [st EXCEPT ![j] = "REGISTERED"],
                  [mi EXCEPT ![g.country] = Append(@, j)])
<1> DEFINE c  == g.country
           s  == mi[c]
           f2 == [f EXCEPT ![j] = g]
           st2 == [st EXCEPT ![j] = "REGISTERED"]
           r  == Append(s, j)
           mi2 == [mi EXCEPT ![c] = r]
<1>1. c \in Country /\ g.version \in Nat
  BY FileFields
<1>2. s \in Seq(Info) /\ Len(s) \in Nat
  BY <1>1, RegistryTypes
<1>3. /\ r \in Seq(Info) /\ Len(r) = Len(s) + 1
      /\ \A k \in 1..Len(s) : r[k] = s[k]
      /\ r[Len(s) + 1] = j
  BY <1>2, AppendProperties
<1>4. /\ f2 \in [Info -> File \cup {NoFile}] /\ st2 \in [Info -> Status]
      /\ f2[j] = g /\ st2[j] = "REGISTERED"
      /\ \A i \in Info : i # j => f2[i] = f[i] /\ st2[i] = st[i]
  BY DEF Registry, Status
<1>5. /\ mi2 \in [Country -> Seq(Info)] /\ mi2[c] = r
      /\ \A c2 \in Country : c2 # c => mi2[c2] = mi[c2]
  BY <1>1, <1>3 DEF Registry
<1>6. ASSUME NEW c2 \in Country, NEW k \in 1..Len(mi[c2])
      PROVE  mi[c2][k] \in Info /\ mi[c2][k] # j
  BY RegistryTypes, MwmSetAssumption
<1> HIDE DEF f2, st2, mi2, r
<1>7. ASSUME NEW c2 \in Country, NEW k \in 1..Len(mi2[c2])
      PROVE  st2[mi2[c2][k]] # "DEREGISTERED" /\ f2[mi2[c2][k]].country = c2
  <2>1. CASE c2 = c /\ k = Len(s) + 1
    BY SMTT(40), <1>3, <1>4, <1>5, <2>1
  <2>2. CASE ~(c2 = c /\ k = Len(s) + 1)
    <3>1. k \in 1..Len(mi[c2]) /\ mi2[c2][k] = mi[c2][k]
      BY SMTT(40), <1>2, <1>3, <1>5, <1>7, <2>2
    <3> QED
      BY <1>4, <1>6, <3>1 DEF Registry
  <2> QED
    BY SMTT(40), <2>1, <2>2
<1>8. ASSUME NEW c2 \in Country, NEW k \in 1..Len(mi2[c2]), NEW l \in 1..Len(mi2[c2]),
             k < l
      PROVE  /\ f2[mi2[c2][k]].version < f2[mi2[c2][l]].version
             /\ st2[mi2[c2][k]] = "MARKED_TO_DEREGISTER"
  <2>0. k \in 1..Len(mi[c2]) /\ mi2[c2][k] = mi[c2][k]
    <3>1. CASE c2 = c
      BY <1>2, <1>3, <1>5, <1>8, <3>1
    <3>2. CASE c2 # c
      BY <1>5, <1>8, <3>2
    <3> QED
      BY <3>1, <3>2
  <2>1. CASE c2 = c /\ l = Len(s) + 1
    <3>1. mi2[c2][l] = j /\ f2[mi2[c2][l]] = g
      BY <1>3, <1>4, <1>5, <2>1
    <3>2. mi[c2][k] \in Info /\ mi[c2][k] # j
      BY <1>6, <2>0
    <3>3. f2[mi2[c2][k]] = f[mi[c2][k]] /\ st2[mi2[c2][k]] = st[mi[c2][k]]
      BY <1>4, <2>0, <3>2
    <3>4. f[mi[c2][k]].version < g.version /\ st[mi[c2][k]] = "MARKED_TO_DEREGISTER"
      BY <2>0, <2>1
    <3> QED
      BY <3>1, <3>3, <3>4
  <2>2. CASE ~(c2 = c /\ l = Len(s) + 1)
    <3>1. l \in 1..Len(mi[c2]) /\ mi2[c2][l] = mi[c2][l]
      <4>1. CASE c2 = c
        BY <1>2, <1>3, <1>5, <1>8, <2>2, <4>1
      <4>2. CASE c2 # c
        BY <1>5, <1>8, <4>2
      <4> QED
        BY <4>1, <4>2
    <3> QED
      BY SMTT(40), <1>4, <1>6, <1>8, <2>0, <3>1 DEF Registry
  <2> QED
    BY <2>1, <2>2
<1>9. \A i \in Info : st2[i] # "DEREGISTERED" => f2[i] \in File
  BY <1>4 DEF Registry
<1>10. Registry(f2, st2, mi2)
  BY <1>4, <1>5, <1>7, <1>8, <1>9 DEF Registry
<1> QED
  BY <1>10 DEF f2, st2, mi2, r

----------------------------------------------------------------------------
(* Handles *)

\* Filling an empty place adds one handle to i and none to the others.
LEMMA FillHandle ==
  ASSUME TypeOK, NEW h \in Handle, NEW i \in Info, handle[h] = NoInfo,
         handle' = [handle EXCEPT ![h] = i], NEW j \in Info
  PROVE  Cardinality(HandlesOf(j)') =
           IF j = i THEN Cardinality(HandlesOf(j)) + 1 ELSE Cardinality(HandlesOf(j))
<1>1. IsFiniteSet(HandlesOf(j)) /\ h \notin HandlesOf(j)
  BY FS_Subset, MwmSetAssumption DEF HandlesOf
<1>2. HandlesOf(j)' = IF j = i THEN HandlesOf(j) \cup {h} ELSE HandlesOf(j)
  BY MwmSetAssumption DEF HandlesOf, TypeOK
<1> QED
  BY <1>1, <1>2, FS_AddElement

\* Emptying a place that locks i takes one handle from i and none from the
\* others.
LEMMA EmptyHandle ==
  ASSUME TypeOK, NEW h \in Handle, NEW i \in Info, handle[h] = i,
         handle' = [handle EXCEPT ![h] = NoInfo], NEW j \in Info
  PROVE  /\ Cardinality(HandlesOf(i)) > 0
         /\ Cardinality(HandlesOf(j)) \in Nat
         /\ Cardinality(HandlesOf(j)') =
              IF j = i THEN Cardinality(HandlesOf(j)) - 1 ELSE Cardinality(HandlesOf(j))
<1>1. /\ IsFiniteSet(HandlesOf(j)) /\ IsFiniteSet(HandlesOf(i))
      /\ h \in HandlesOf(j) <=> j = i
      /\ h \in HandlesOf(i)
  BY FS_Subset, MwmSetAssumption DEF HandlesOf
<1>2. HandlesOf(j)' = HandlesOf(j) \ {h}
  BY MwmSetAssumption DEF HandlesOf, TypeOK
<1>3. Cardinality(HandlesOf(i)) > 0
  BY <1>1, FS_EmptySet, FS_CardinalityType
<1> QED
  BY <1>1, <1>2, <1>3, FS_RemoveElement, FS_CardinalityType

----------------------------------------------------------------------------
(* The invariant *)

\* An empty registry satisfies the invariant.
THEOREM InitIInv == Init => IInv
<1> SUFFICES ASSUME Init PROVE IInv
  OBVIOUS
<1>1. TypeOK
  BY DEF Init, TypeOK, Status
<1>2. Registry(file, status, m_info)
  BY DEF Init, Registry, Status
<1>3. RefsCountHandles
  <2>1. \A i \in Info : HandlesOf(i) = {}
    BY MwmSetAssumption DEF Init, HandlesOf
  <2> QED
    BY Zenon, <2>1, FS_EmptySet DEF Init, RefsCountHandles
<1>4. HandlesPinMaps /\ MarkedIsLocked
  BY DEF Init, HandlesPinMaps, MarkedIsLocked
<1> QED
  BY <1>1, <1>2, <1>3, <1>4 DEF IInv

\* The last map of a country, when there is one.
LEMMA LastOfCountry ==
  ASSUME IInv, NEW c \in Country, IsAlive(GetMwmIdByCountryFileImpl(c))
  PROVE  LET i == GetMwmIdByCountryFileImpl(c)
         IN  /\ i \in Info /\ status[i] # "DEREGISTERED"
             /\ file[i] \in File /\ file[i].country = c
             /\ m_info[c] # <<>> /\ i = Last(m_info[c])
<1>1. m_info[c] \in Seq(Info) /\ Len(m_info[c]) \in Nat
  BY RegistryTypes DEF IInv
<1>2. m_info[c] # <<>> /\ GetMwmIdByCountryFileImpl(c) = Last(m_info[c])
  BY DEF GetMwmIdByCountryFileImpl, IsAlive
<1>3. Last(m_info[c]) = m_info[c][Len(m_info[c])] /\ Len(m_info[c]) \in 1..Len(m_info[c])
  BY <1>1, <1>2, EmptySeq DEF Last
<1>4. Last(m_info[c]) \in Info /\ file[Last(m_info[c])] \in File
  BY <1>3, RegistryTypes DEF IInv
<1> QED
  BY <1>2, <1>3, <1>4 DEF IInv, Registry

\* An info that is not created is neither registered nor locked.
LEMMA FreshIsUnlocked ==
  ASSUME IInv, NEW j \in Info, ~Created(j)
  PROVE  status[j] = "DEREGISTERED" /\ \A h \in Handle : handle[h] # j
<1>1. status[j] = "DEREGISTERED"
  BY MwmSetAssumption DEF IInv, Registry, Created
<1> QED
  BY <1>1, MwmSetAssumption DEF IInv, HandlesPinMaps, IsAlive, TypeOK

\* An info whose counter is 0 is locked by no handle.
LEMMA ZeroRefsIsUnlocked ==
  ASSUME IInv, NEW i \in Info, numRefs[i] = 0
  PROVE  \A h \in Handle : handle[h] # i
<1>1. IsFiniteSet(HandlesOf(i)) /\ Cardinality(HandlesOf(i)) = 0
  BY FS_Subset, MwmSetAssumption DEF HandlesOf, IInv, RefsCountHandles
<1>2. HandlesOf(i) = {}
  BY <1>1, FS_EmptySet
<1> QED
  BY <1>2 DEF HandlesOf

\* The types of the log: only what ProcessEvent and the operations put there.
LEMMA LogType ==
  ASSUME TypeOK, NEW t \in Thread, NEW events \in Seq(Event), Log(t, events)
  PROVE  pending' \in [Thread -> Seq(Event)]
BY DEF TypeOK, Log

(***************************************************************************)
(* A step that deregisters i and changes no handle, whether or not a new   *)
(* info is registered in the same step.                                    *)
(***************************************************************************)
LEMMA DeregisterKeepsHandles ==
  ASSUME IInv, NEW i \in Info, status[i] # "DEREGISTERED",
         LET d == DeregisterImpl(i, numRefs[i])
         IN  \/ status' = d.status
             \/ \E j \in Info : ~Created(j) /\ status' = [d.status EXCEPT ![j] = "REGISTERED"],
         UNCHANGED <<numRefs, handle>>
  PROVE  RefsCountHandles' /\ HandlesPinMaps' /\ MarkedIsLocked'
<1> DEFINE new == IF numRefs[i] = 0 THEN "DEREGISTERED" ELSE "MARKED_TO_DEREGISTER"
           d == DeregisterImpl(i, numRefs[i])
<1>1. status \in [Info -> Status] /\ numRefs \in [Info -> Nat]
      /\ handle \in [Handle -> Info \cup {NoInfo}]
  BY DEF IInv, TypeOK
<1>2. d.status = [status EXCEPT ![i] = new]
  BY Zenon, <1>1, DeregisterKeepsRegistry DEF IInv
<1>3. \A k \in Info : \/ status'[k] = [status EXCEPT ![i] = new][k]
                        \/ status'[k] = "REGISTERED"
  BY <1>1, <1>2
<1> HIDE DEF d
<1>4. RefsCountHandles'
  BY DEF IInv, RefsCountHandles, HandlesOf
<1>5. HandlesPinMaps'
  <2> SUFFICES ASSUME NEW h \in Handle, handle[h] # NoInfo
               PROVE  status'[handle[h]] # "DEREGISTERED"
    BY DEF HandlesPinMaps, IsAlive
  <2>1. handle[h] \in Info /\ status[handle[h]] # "DEREGISTERED"
    BY <1>1 DEF IInv, HandlesPinMaps, IsAlive
  <2>2. handle[h] = i => numRefs[i] # 0
    BY ZeroRefsIsUnlocked
  <2> QED
    BY <1>1, <1>3, <2>1, <2>2
<1>6. MarkedIsLocked'
  <2> SUFFICES ASSUME NEW k \in Info, status'[k] = "MARKED_TO_DEREGISTER"
               PROVE  numRefs[k] > 0
    BY DEF MarkedIsLocked
  <2>1. CASE k = i
    BY <1>1, <1>3, <2>1
  <2>2. CASE k # i
    BY <1>1, <1>3, <2>2 DEF IInv, MarkedIsLocked
  <2> QED
    BY <2>1, <2>2
<1> QED
  BY <1>4, <1>5, <1>6

\* Registration of a country's first map.
LEMMA RegisterFirstKeepsIInv ==
  ASSUME IInv, NEW t \in Thread, NEW f \in File, RegisterFirst(t, f)
  PROVE  IInv'
<1>1. PICK j \in Info : /\ ~Created(j)
                        /\ file' = [file EXCEPT ![j] = f]
                        /\ status' = [status EXCEPT ![j] = "REGISTERED"]
                        /\ m_info' = [m_info EXCEPT ![f.country] = Append(@, j)]
  BY Zenon DEF RegisterFirst
<1>2. UNCHANGED <<numRefs, handle, view>>
      /\ Log(t, <<[type |-> "REGISTERED", file |-> f]>>)
  BY DEF RegisterFirst
<1>3. f.country \in Country /\ file[j] = NoFile
  BY <1>1, FileFields DEF Created
<1>4. Len(m_info[f.country]) = 0
  <2>1. m_info[f.country] \in Seq(Info)
    BY <1>3, RegistryTypes DEF IInv
  <2>2. CASE m_info[f.country] # <<>>
    <3>1. /\ GetMwmIdByCountryFileImpl(f.country)
               = m_info[f.country][Len(m_info[f.country])]
          /\ Len(m_info[f.country]) \in 1..Len(m_info[f.country])
      BY SMTT(40), <2>1, <2>2, EmptySeq DEF GetMwmIdByCountryFileImpl, Last
    <3>2. IsAlive(GetMwmIdByCountryFileImpl(f.country))
      BY <1>3, <3>1, RegistryTypes, MwmSetAssumption DEF IInv, Registry, IsAlive
    <3> QED
      BY <3>2 DEF RegisterFirst
  <2> QED
    BY <2>2, EmptySeq
<1>5. Registry(file, status, m_info)'
  <2>1. 1..Len(m_info[f.country]) = {}
    BY <1>4
  <2> QED
    BY Zenon, <1>1, <1>3, <2>1, PushKeepsRegistry DEF IInv
<1>6. <<[type |-> "REGISTERED", file |-> f]>> \in Seq(Event)
  BY SMTT(40) DEF Event
<1>7. TypeOK'
  BY Zenon, <1>2, <1>5, <1>6, LogType DEF IInv, TypeOK, Registry
<1>8. RefsCountHandles'
  BY <1>2 DEF IInv, RefsCountHandles, HandlesOf
<1>9. HandlesPinMaps'
  BY <1>1, <1>2, FreshIsUnlocked DEF IInv, HandlesPinMaps, IsAlive, TypeOK
<1>10. MarkedIsLocked'
  BY <1>1, <1>2 DEF IInv, MarkedIsLocked, TypeOK
<1> QED
  BY <1>5, <1>7, <1>8, <1>9, <1>10 DEF IInv

\* Registration of a newer map: success, null from CreateInfo, exception.
LEMMA RegisterNewerKeepsIInv ==
  ASSUME IInv, NEW t \in Thread, NEW f \in File, RegisterNewer(t, f)
  PROVE  IInv'
<1> DEFINE c   == f.country
           old == GetMwmIdByCountryFileImpl(c)
           d   == DeregisterImpl(old, numRefs[old])
<1>1. c \in Country /\ f.version \in Nat
  BY FileFields
<1>2. /\ old \in Info /\ status[old] # "DEREGISTERED"
      /\ file[old] \in File /\ file[old].country = c
      /\ m_info[c] # <<>> /\ old = Last(m_info[c])
      /\ file[old].version < f.version
  BY Zenon, <1>1, LastOfCountry DEF RegisterNewer
<1>3. numRefs[old] \in Nat
  BY <1>2 DEF IInv, TypeOK
<1> HIDE DEF old
<1>4. /\ Registry(file, d.status, d.m_info)
      /\ d.events \in Seq(Event)
      /\ \A k \in 1..Len(d.m_info[c]) :
           /\ d.status[d.m_info[c][k]] = "MARKED_TO_DEREGISTER"
           /\ file[d.m_info[c][k]].version <= file[old].version
  <2> HIDE DEF c
  <2>1. /\ Registry(file, d.status, d.m_info)
        /\ d.events \in Seq(Event)
        /\ (m_info[file[old].country] # <<>> /\ old = Last(m_info[file[old].country])) =>
             \A k \in 1..Len(d.m_info[file[old].country]) :
               /\ d.status[d.m_info[file[old].country][k]] = "MARKED_TO_DEREGISTER"
               /\ file[d.m_info[file[old].country][k]].version <= file[old].version
    BY Zenon, <1>2, <1>3, DeregisterKeepsRegistry DEF IInv
  <2> QED
    BY Zenon, <1>2, <2>1
<1>5. UNCHANGED <<numRefs, handle, view>>
  BY Zenon DEF RegisterNewer
<1>6. CASE /\ \E j \in Info :
                /\ ~Created(j)
                /\ file' = [file EXCEPT ![j] = f]
                /\ status' = [d.status EXCEPT ![j] = "REGISTERED"]
                /\ m_info' = [d.m_info EXCEPT ![c] = Append(@, j)]
           /\ Log(t, <<[type |-> "UPDATED", file |-> f, oldFile |-> file[old]]>>)
  <2>1. PICK j \in Info : /\ ~Created(j)
                          /\ file' = [file EXCEPT ![j] = f]
                          /\ status' = [d.status EXCEPT ![j] = "REGISTERED"]
                          /\ m_info' = [d.m_info EXCEPT ![c] = Append(@, j)]
    BY Zenon, <1>6
  <2> HIDE DEF d
  <2>2. \A k \in 1..Len(d.m_info[c]) : file[d.m_info[c][k]].version < f.version
    <3>1. file[old].version \in Nat
      BY <1>2, FileFields
    <3> QED
      BY SMTT(40), <1>1, <1>2, <1>4, <3>1, RegistryTypes
  <2>3. Registry(file, status, m_info)'
    BY Zenon, <1>4, <2>1, <2>2, PushKeepsRegistry DEF Created
  <2>4. <<[type |-> "UPDATED", file |-> f, oldFile |-> file[old]]>> \in Seq(Event)
    BY <1>2 DEF Event
  <2>5. TypeOK'
    BY Zenon, <1>5, <1>6, <2>3, <2>4, LogType DEF IInv, TypeOK, Registry
  <2>6. RefsCountHandles' /\ HandlesPinMaps' /\ MarkedIsLocked'
    BY Zenon, <1>2, <1>5, <2>1, DeregisterKeepsHandles DEF d
  <2> QED
    BY SMTT(40), <2>3, <2>5, <2>6 DEF IInv
<1>7. CASE /\ status' = d.status /\ m_info' = d.m_info /\ UNCHANGED file
           /\ Log(t, d.events) \/ UNCHANGED pending
  <2>1. RefsCountHandles' /\ HandlesPinMaps' /\ MarkedIsLocked'
    BY ZenonT(40), <1>2, <1>5, <1>7, DeregisterKeepsHandles
  <2> HIDE DEF d
  <2>2. Registry(file, status, m_info)'
    BY SMTT(40), <1>4, <1>7
  <2>3. pending' \in [Thread -> Seq(Event)]
    BY SMTT(40), <1>4, <1>7, LogType DEF IInv, TypeOK
  <2>4. TypeOK'
    BY <1>5, <2>2, <2>3 DEF IInv, TypeOK, Registry
  <2> QED
    BY <2>1, <2>2, <2>4 DEF IInv
<1> QED
  BY Zenon, <1>6, <1>7 DEF RegisterNewer, old

\* Registration of the version that is already there.
LEMMA RegisterSameKeepsIInv ==
  ASSUME IInv, NEW t \in Thread, NEW f \in File, RegisterSame(t, f)
  PROVE  IInv'
<1> DEFINE c  == f.country
           id == GetMwmIdByCountryFileImpl(c)
           s  == m_info[c]
<1>1. c \in Country
  BY SMTT(40), FileFields
<1>2. /\ id \in Info /\ status[id] # "DEREGISTERED"
      /\ file[id] \in File /\ file[id].country = c
      /\ s # <<>> /\ id = Last(s)
  BY <1>1, LastOfCountry DEF RegisterSame
<1>3. /\ status' = [status EXCEPT ![id] = "REGISTERED"]
      /\ Log(t, <<[type |-> "REGISTERED", file |-> file[id]]>>)
      /\ UNCHANGED <<file, numRefs, m_info, handle, view>>
  BY ZenonT(40) DEF RegisterSame
<1> HIDE DEF id
<1>4. s \in Seq(Info) /\ Len(s) \in Nat /\ id = s[Len(s)] /\ Len(s) \in 1..Len(s)
  BY <1>1, <1>2, RegistryTypes, EmptySeq DEF IInv, Last
<1>5. ASSUME NEW c2 \in Country, NEW k \in 1..Len(m_info[c2]), NEW l \in 1..Len(m_info[c2]),
             k < l
      PROVE  m_info[c2][k] # id
  <2>1. CASE c2 = c
    BY <1>4, <1>5, <2>1, RegistryDistinct DEF IInv
  <2>2. CASE c2 # c
    BY SMTT(40), <1>2, <2>2 DEF IInv, Registry
  <2> QED
    BY <2>1, <2>2
<1>6. Registry(file, status, m_info)'
  <2>1. status' \in [Info -> Status] /\ \A i \in Info : i # id => status'[i] = status[i]
    BY <1>2, <1>3 DEF IInv, TypeOK, Status
  <2>2. \A i \in Info : status'[i] # "DEREGISTERED" => file[i] \in File
    BY SMTT(40), <1>2, <2>1 DEF IInv, Registry
  <2>3. \A c2 \in Country : \A k \in 1..Len(m_info[c2]) :
          status'[m_info[c2][k]] # "DEREGISTERED" /\ file[m_info[c2][k]].country = c2
    <3>1. status'[id] = "REGISTERED"
      BY SMTT(40), <1>2, <1>3 DEF IInv, TypeOK
    <3> QED
      BY <2>1, <3>1, RegistryTypes DEF IInv, Registry
  <2>4. ASSUME NEW c2 \in Country, NEW k \in 1..Len(m_info[c2]), NEW l \in 1..Len(m_info[c2]),
               k < l
        PROVE  /\ file[m_info[c2][k]].version < file[m_info[c2][l]].version
               /\ status'[m_info[c2][k]] = "MARKED_TO_DEREGISTER"
    BY SMTT(40), <1>5, <2>1, <2>4, RegistryTypes DEF IInv, Registry
  <2> QED
    BY SMTT(40), <1>3, <2>1, <2>2, <2>3, <2>4 DEF IInv, Registry
<1>7. <<[type |-> "REGISTERED", file |-> file[id]]>> \in Seq(Event)
  BY SMTT(40), <1>2 DEF Event
<1>8. TypeOK'
  BY Zenon, <1>3, <1>6, <1>7, LogType DEF IInv, TypeOK, Registry
<1>9. RefsCountHandles'
  BY Zenon, <1>3 DEF IInv, RefsCountHandles, HandlesOf
<1>10. HandlesPinMaps'
  BY <1>2, <1>3 DEF IInv, HandlesPinMaps, IsAlive, TypeOK
<1>11. MarkedIsLocked'
  BY <1>2, <1>3 DEF IInv, MarkedIsLocked, TypeOK
<1> QED
  BY <1>6, <1>8, <1>9, <1>10, <1>11 DEF IInv

\* Deregistration by a client: at once, or marked while handles remain.
LEMMA DeregisterKeepsIInv ==
  ASSUME IInv, NEW t \in Thread, NEW c \in Country, Deregister(t, c)
  PROVE  IInv'
<1> DEFINE id == GetMwmIdByCountryFileImpl(c)
           d  == DeregisterImpl(id, numRefs[id])
<1>1. id \in Info /\ status[id] # "DEREGISTERED" /\ numRefs[id] \in Nat
  BY LastOfCountry DEF Deregister, IInv, TypeOK
<1>2. /\ status' = d.status /\ m_info' = d.m_info /\ Log(t, d.events)
      /\ UNCHANGED <<file, numRefs, handle, view>>
  BY SMTT(40) DEF Deregister
<1> HIDE DEF id
<1>3. RefsCountHandles' /\ HandlesPinMaps' /\ MarkedIsLocked'
  BY <1>1, <1>2, DeregisterKeepsHandles
<1>4. Registry(file, d.status, d.m_info) /\ d.events \in Seq(Event)
  BY Zenon, <1>1, DeregisterKeepsRegistry DEF IInv
<1> HIDE DEF d
<1>5. Registry(file, status, m_info)'
  BY <1>2, <1>4
<1>6. TypeOK'
  BY ZenonT(40), <1>2, <1>4, <1>5, LogType DEF IInv, TypeOK, Registry
<1> QED
  BY SMTT(40), <1>3, <1>5, <1>6 DEF IInv

\* Locking a map: a cached or a new value, too many files, an exception.
LEMMA GetMwmHandleKeepsIInv ==
  ASSUME IInv, NEW t \in Thread, NEW h \in Handle, NEW i \in Info, GetMwmHandle(t, h, i)
  PROVE  IInv'
<1> DEFINE d == DeregisterImpl(i, numRefs[i])
<1>1. /\ handle[h] = NoInfo /\ status[i] # "DEREGISTERED" /\ numRefs[i] \in Nat
      /\ UNCHANGED <<file, view>>
  BY DEF GetMwmHandle, IsAlive, IInv, TypeOK
<1>2. CASE /\ numRefs' = [numRefs EXCEPT ![i] = @ + 1]
           /\ handle' = [handle EXCEPT ![h] = i]
           /\ UNCHANGED <<status, m_info, pending>>
  <2>1. TypeOK'
    BY <1>1, <1>2 DEF IInv, TypeOK
  <2>2. Registry(file, status, m_info)'
    BY <1>1, <1>2 DEF IInv
  <2>3. RefsCountHandles'
    <3> SUFFICES ASSUME NEW j \in Info
                 PROVE  numRefs'[j] = Cardinality(HandlesOf(j)')
      BY DEF RefsCountHandles, HandlesOf
    <3>1. Cardinality(HandlesOf(j)') =
            IF j = i THEN Cardinality(HandlesOf(j)) + 1 ELSE Cardinality(HandlesOf(j))
      BY Zenon, <1>1, <1>2, FillHandle DEF IInv
    <3> QED
      BY <1>2, <3>1 DEF IInv, RefsCountHandles, TypeOK
  <2>4. HandlesPinMaps'
    BY <1>1, <1>2, MwmSetAssumption DEF IInv, HandlesPinMaps, IsAlive, TypeOK
  <2>5. MarkedIsLocked'
    BY <1>2 DEF IInv, MarkedIsLocked, TypeOK
  <2> QED
    BY <2>1, <2>2, <2>3, <2>4, <2>5 DEF IInv
<1>3. CASE UNCHANGED <<status, numRefs, m_info, handle, pending>>
  BY <1>1, <1>3 DEF IInv, TypeOK, RefsCountHandles, HandlesOf, HandlesPinMaps, IsAlive,
                    MarkedIsLocked
<1>4. CASE /\ status' = d.status /\ m_info' = d.m_info /\ Log(t, d.events)
           /\ UNCHANGED <<numRefs, handle>>
  <2>1. RefsCountHandles' /\ HandlesPinMaps' /\ MarkedIsLocked'
    BY <1>1, <1>4, DeregisterKeepsHandles
  <2>2. Registry(file, d.status, d.m_info) /\ d.events \in Seq(Event)
    BY ZenonT(40), <1>1, DeregisterKeepsRegistry DEF IInv
  <2> HIDE DEF d
  <2>3. Registry(file, status, m_info)'
    BY <1>1, <1>4, <2>2
  <2>4. TypeOK'
    BY Zenon, <1>1, <1>4, <2>2, <2>3, LogType DEF IInv, TypeOK, Registry
  <2> QED
    BY SMTT(40), <2>1, <2>3, <2>4 DEF IInv
<1> QED
  BY SMTT(40), <1>2, <1>3, <1>4 DEF GetMwmHandle

\* Releasing a handle: the last one of a marked map deregisters it.
LEMMA ReleaseHandleKeepsIInv ==
  ASSUME IInv, NEW t \in Thread, NEW h \in Handle, ReleaseHandle(t, h)
  PROVE  IInv'
<1>0. PICK i \in Info : i = handle[h]
  BY ZenonT(40) DEF ReleaseHandle, IInv, TypeOK
<1> DEFINE refs == numRefs[i] - 1
           dereg == refs = 0 /\ status[i] = "MARKED_TO_DEREGISTER"
           d    == IF dereg THEN DeregisterImpl(i, refs) ELSE NotDeregistered
<1>1. i \in Info /\ status[i] # "DEREGISTERED" /\ numRefs[i] \in Nat
  BY <1>0 DEF ReleaseHandle, IInv, TypeOK, HandlesPinMaps, IsAlive
<1>2. /\ handle' = [handle EXCEPT ![h] = NoInfo]
      /\ numRefs' = [numRefs EXCEPT ![i] = refs]
      /\ status' = d.status /\ m_info' = d.m_info /\ Log(t, d.events)
      /\ UNCHANGED <<file, view>>
  BY ZenonT(40), <1>0, <1>1, MwmSetAssumption DEF ReleaseHandle, IsAlive
<1>3. \A j \in Info :
        /\ Cardinality(HandlesOf(i)) > 0
        /\ Cardinality(HandlesOf(j)') =
             IF j = i THEN Cardinality(HandlesOf(j)) - 1 ELSE Cardinality(HandlesOf(j))
  BY ZenonT(40), <1>0, <1>1, <1>2, EmptyHandle DEF IInv
<1>4. refs \in Nat
  BY <1>1, <1>3 DEF IInv, RefsCountHandles
<1>5. /\ Registry(file, d.status, d.m_info) /\ d.events \in Seq(Event)
      /\ d.status = IF dereg THEN [status EXCEPT ![i] = "DEREGISTERED"] ELSE status
  <2>1. CASE dereg
    BY ZenonT(40), <1>1, <1>4, <2>1, DeregisterKeepsRegistry DEF IInv
  <2>2. CASE ~dereg
    BY SMTT(40), <2>2 DEF NotDeregistered, IInv
  <2> QED
    BY Zenon, <2>1, <2>2
<1> HIDE DEF d
<1>6. Registry(file, status, m_info)'
  BY <1>2, <1>5
<1>7. TypeOK'
  BY Zenon, <1>2, <1>4, <1>5, <1>6, LogType DEF IInv, TypeOK, Registry
<1>8. RefsCountHandles'
  BY Zenon, <1>2, <1>3 DEF IInv, RefsCountHandles, TypeOK, HandlesOf
<1>9. HandlesPinMaps'
  <2> SUFFICES ASSUME NEW g \in Handle, handle'[g] # NoInfo
               PROVE  status'[handle'[g]] # "DEREGISTERED"
    BY DEF HandlesPinMaps, IsAlive
  <2>1. g # h /\ handle'[g] = handle[g] /\ handle[g] \in Info
        /\ status[handle[g]] # "DEREGISTERED"
    BY SMTT(40), <1>2 DEF IInv, TypeOK, HandlesPinMaps, IsAlive
  <2>2. CASE dereg /\ handle[g] = i
    <3>1. Cardinality(HandlesOf(i)') = 0
      BY SMTT(40), <1>1, <1>3, <2>2 DEF IInv, RefsCountHandles
    <3>2. g \in HandlesOf(i)'
      BY <2>1, <2>2 DEF HandlesOf
    <3>3. IsFiniteSet(HandlesOf(i)')
      BY FS_Subset, MwmSetAssumption DEF HandlesOf
    <3> QED
      BY SMTT(40), <3>1, <3>2, <3>3, FS_EmptySet
  <2>3. CASE ~(dereg /\ handle[g] = i)
    BY Zenon, <1>1, <1>2, <1>5, <2>1, <2>3 DEF IInv, TypeOK
  <2> QED
    BY Zenon, <2>2, <2>3
<1>10. MarkedIsLocked'
  <2> SUFFICES ASSUME NEW j \in Info, status'[j] = "MARKED_TO_DEREGISTER"
               PROVE  numRefs'[j] > 0
    BY SMTT(40) DEF MarkedIsLocked
  <2>1. status[j] = "MARKED_TO_DEREGISTER" /\ (j = i => ~dereg)
    BY SMTT(40), <1>1, <1>2, <1>5 DEF IInv, TypeOK
  <2>2. numRefs[j] > 0 /\ numRefs'[j] = IF j = i THEN refs ELSE numRefs[j]
    BY SMTT(40), <1>1, <1>2, <2>1 DEF IInv, MarkedIsLocked, TypeOK
  <2>3. CASE j = i
    <3>1. refs # 0
      BY SMTT(40), <2>1, <2>3
    <3>2. numRefs'[j] = refs
      BY <2>2, <2>3
    <3> HIDE DEF refs
    <3> QED
      BY SMTT(40), <1>4, <3>1, <3>2
  <2>4. CASE j # i
    BY <2>2, <2>4
  <2> QED
    BY <2>3, <2>4
<1> QED
  BY <1>6, <1>7, <1>8, <1>9, <1>10 DEF IInv

\* Clear empties the registry and the cache; counters and handles stay.
LEMMA ClearKeepsIInv ==
  ASSUME IInv, NEW t \in Thread, Clear(t)
  PROVE  IInv'
<1>1. m_info' \in [Country -> Seq(Info)] /\ \A c \in Country : 1..Len(m_info'[c]) = {}
  BY DEF Clear
<1>2. UNCHANGED <<file, status, numRefs, handle, pending, view>>
  BY SMTT(40) DEF Clear
<1>3. Registry(file, status, m_info)'
  BY ZenonT(40), <1>1, <1>2 DEF IInv, Registry
<1> QED
  BY <1>1, <1>2, <1>3 DEF IInv, TypeOK, RefsCountHandles, HandlesOf, HandlesPinMaps, IsAlive,
                          MarkedIsLocked

\* Delivering an event changes the log and the observer's view only.
LEMMA ProcessEventKeepsIInv ==
  ASSUME IInv, NEW t \in Thread, ProcessEvent(t)
  PROVE  IInv'
<1>1. UNCHANGED <<file, status, numRefs, m_info, handle>>
  BY DEF ProcessEvent
<1>2. pending[t] \in Seq(Event) /\ pending[t] # <<>>
  BY SMTT(40) DEF ProcessEvent, IInv, TypeOK
<1>3. Head(pending[t]) \in Event /\ Tail(pending[t]) \in Seq(Event)
  BY <1>2, HeadTailProperties
<1>4. Head(pending[t]).file \in File
  BY <1>3 DEF Event
<1>5. view' \subseteq File
  <2>1. Head(pending[t]).type \in {"REGISTERED", "DEREGISTERED", "UPDATED"}
    BY <1>3 DEF Event
  <2> QED
    BY <1>4, <2>1 DEF ProcessEvent, IInv, TypeOK
<1>6. pending' \in [Thread -> Seq(Event)]
  BY <1>3 DEF ProcessEvent, IInv, TypeOK
<1>7. TypeOK'
  BY <1>1, <1>5, <1>6 DEF IInv, TypeOK
<1> QED
  BY <1>1, <1>7 DEF IInv, RefsCountHandles, HandlesOf, HandlesPinMaps, IsAlive, MarkedIsLocked

\* Every step of the registry keeps the invariant.
LEMMA NextKeepsIInv == IInv /\ [Next]_vars => IInv'
<1> SUFFICES ASSUME IInv, [Next]_vars PROVE IInv'
  OBVIOUS
<1>1. ASSUME NEW t \in Thread, NEW f \in File,
             RegisterFirst(t, f) \/ RegisterNewer(t, f) \/ RegisterSame(t, f)
      PROVE  IInv'
  BY <1>1, RegisterFirstKeepsIInv, RegisterNewerKeepsIInv, RegisterSameKeepsIInv
<1>2. ASSUME NEW t \in Thread, NEW c \in Country, Deregister(t, c)
      PROVE  IInv'
  BY <1>2, DeregisterKeepsIInv
<1>3. ASSUME NEW t \in Thread, NEW h \in Handle, NEW i \in Info, GetMwmHandle(t, h, i)
      PROVE  IInv'
  BY <1>3, GetMwmHandleKeepsIInv
<1>4. ASSUME NEW t \in Thread, NEW h \in Handle, ReleaseHandle(t, h)
      PROVE  IInv'
  BY <1>4, ReleaseHandleKeepsIInv
<1>5. ASSUME NEW t \in Thread, Clear(t)
      PROVE  IInv'
  BY <1>5, ClearKeepsIInv
<1>6. ASSUME NEW t \in Thread, ClearCache(t)
      PROVE  IInv'
  BY <1>6 DEF ClearCache, IInv, TypeOK, RefsCountHandles, HandlesOf, HandlesPinMaps, IsAlive,
              MarkedIsLocked
<1>7. ASSUME NEW t \in Thread, ProcessEvent(t)
      PROVE  IInv'
  BY <1>7, ProcessEventKeepsIInv
<1>8. CASE UNCHANGED vars
  BY <1>8 DEF vars, IInv, TypeOK, RefsCountHandles, HandlesOf, HandlesPinMaps, IsAlive,
              MarkedIsLocked
<1> QED
  BY <1>1, <1>2, <1>3, <1>4, <1>5, <1>6, <1>7, <1>8 DEF Next

----------------------------------------------------------------------------
(* The theorems *)

\* The inductive invariant holds of every behaviour of the registry.
THEOREM MwmSetInvariant == Spec => []IInv
BY InitIInv, NextKeepsIInv, PTL DEF Spec

\* Every variable but the cache keeps its type.
THEOREM MwmSetTypeCorrect == Spec => []TypeOK
<1>1. IInv => TypeOK
  BY DEF IInv
<1> QED
  BY <1>1, MwmSetInvariant, PTL

\* m_numRefs is exactly the number of live handles of a map.
THEOREM MwmSetCountsHandles == Spec => []RefsCountHandles
<1>1. IInv => RefsCountHandles
  BY DEF IInv
<1> QED
  BY <1>1, MwmSetInvariant, PTL

\* No map is deregistered while a handle locks it: the assertion at the head
\* of UnlockValueImpl never fails.
THEOREM MwmSetHandlesPinMaps == Spec => []HandlesPinMaps
<1>1. IInv => HandlesPinMaps
  BY DEF IInv
<1> QED
  BY <1>1, MwmSetInvariant, PTL

\* A map stays marked only as long as some handle locks it.
THEOREM MwmSetMarkedIsLocked == Spec => []MarkedIsLocked
<1>1. IInv => MarkedIsLocked
  BY DEF IInv
<1> QED
  BY <1>1, MwmSetInvariant, PTL

\* The maps of a country are alive, ordered by version, and all but the last
\* are marked.
THEOREM MwmSetRegistryOrdered == Spec => []RegistryOrdered
<1>1. IInv => RegistryOrdered
  <2> SUFFICES ASSUME IInv PROVE RegistryOrdered
    BY Zenon
  <2>1. ASSUME NEW c \in Country, NEW k \in 1..Len(m_info[c])
        PROVE  /\ IsAlive(m_info[c][k])
               /\ file[m_info[c][k]] \in File /\ file[m_info[c][k]].country = c
    BY RegistryTypes, MwmSetAssumption DEF IInv, Registry, IsAlive
  <2>2. ASSUME NEW c \in Country, NEW k \in 1..Len(m_info[c]), NEW l \in 1..Len(m_info[c]),
               k < l
        PROVE  /\ file[m_info[c][k]].version < file[m_info[c][l]].version
               /\ status[m_info[c][k]] = "MARKED_TO_DEREGISTER"
    BY <2>2 DEF IInv, Registry
  <2> QED
    BY <2>1, <2>2 DEF RegistryOrdered
<1> QED
  BY <1>1, MwmSetInvariant, PTL

\* IsLoaded, which looks at the last map only, is right.
THEOREM MwmSetLoadedIffRegistered == Spec => []LoadedIffRegistered
<1>1. IInv => LoadedIffRegistered
  <2> SUFFICES ASSUME IInv, NEW c \in Country
               PROVE  IsLoaded(c) <=>
                        \E k \in 1..Len(m_info[c]) : status[m_info[c][k]] = "REGISTERED"
    BY DEF LoadedIffRegistered
  <2>1. m_info[c] \in Seq(Info) /\ Len(m_info[c]) \in Nat
        /\ \A k \in 1..Len(m_info[c]) : m_info[c][k] \in Info
    BY RegistryTypes DEF IInv
  <2>2. CASE m_info[c] = <<>>
    <3>1. ~IsLoaded(c)
      BY <2>2 DEF IsLoaded, GetMwmIdByCountryFileImpl, IsAlive
    <3> QED
      BY <2>2, <3>1
  <2>3. CASE m_info[c] # <<>>
    <3>1. /\ GetMwmIdByCountryFileImpl(c) = m_info[c][Len(m_info[c])]
          /\ Len(m_info[c]) \in 1..Len(m_info[c])
      BY <2>1, <2>3, EmptySeq DEF GetMwmIdByCountryFileImpl, Last
    <3>2. IsLoaded(c) <=> status[m_info[c][Len(m_info[c])]] = "REGISTERED"
      BY <2>1, <3>1, MwmSetAssumption DEF IsLoaded, IsAlive
    <3>3. \A k \in 1..Len(m_info[c]) :
            k # Len(m_info[c]) => status[m_info[c][k]] = "MARKED_TO_DEREGISTER"
      BY <2>1, <3>1 DEF IInv, Registry
    <3> QED
      BY <3>1, <3>2, <3>3
  <2> QED
    BY <2>2, <2>3
<1> QED
  BY <1>1, MwmSetInvariant, PTL

\* A deregistered map never comes back to life, whatever ids clients kept.
THEOREM MwmSetDeregisteredIsFinal == Spec => DeregisteredIsFinal
<1> DEFINE Final == \A i \in Info : Created(i) /\ ~IsAlive(i) => ~IsAlive(i)'
<1>1. IInv /\ [Next]_vars => [Final]_vars
  <2> SUFFICES ASSUME IInv, Next, NEW i \in Info, Created(i), status[i] = "DEREGISTERED"
               PROVE  status'[i] = "DEREGISTERED"
    BY MwmSetAssumption DEF IsAlive
  <2>0. status \in [Info -> Status] /\ numRefs \in [Info -> Nat]
    BY DEF IInv, TypeOK
  <2>1. ASSUME NEW j \in Info, status[j] # "DEREGISTERED", NEW refs \in Nat
        PROVE  LET st == DeregisterImpl(j, refs).status
               IN  st \in [Info -> Status] /\ st[i] = "DEREGISTERED"
    <3>1. DeregisterImpl(j, refs).status =
            [status EXCEPT ![j] = IF refs = 0 THEN "DEREGISTERED" ELSE "MARKED_TO_DEREGISTER"]
      BY Zenon, <2>1, DeregisterKeepsRegistry DEF IInv
    <3> QED
      BY SMTT(40), <2>0, <2>1, <3>1 DEF Status
  <2>2. ASSUME NEW t \in Thread, NEW f \in File, RegisterFirst(t, f)
        PROVE  status'[i] = "DEREGISTERED"
    BY <2>0, <2>2 DEF RegisterFirst
  <2>3. ASSUME NEW t \in Thread, NEW f \in File, RegisterNewer(t, f)
        PROVE  status'[i] = "DEREGISTERED"
    <3> DEFINE old == GetMwmIdByCountryFileImpl(f.country)
               st  == DeregisterImpl(old, numRefs[old]).status
    <3>1. old \in Info /\ status[old] # "DEREGISTERED" /\ numRefs[old] \in Nat
      BY Zenon, <2>0, <2>3, FileFields, LastOfCountry DEF RegisterNewer
    <3>2. \/ status' = st
          \/ \E j \in Info : ~Created(j) /\ status' = [st EXCEPT ![j] = "REGISTERED"]
      BY ZenonT(40), <2>3 DEF RegisterNewer
    <3> HIDE DEF old
    <3>3. st \in [Info -> Status] /\ st[i] = "DEREGISTERED"
      BY SMTT(40), <2>1, <3>1
    <3> HIDE DEF st
    <3> QED
      BY <3>2, <3>3
  <2>4. ASSUME NEW t \in Thread, NEW f \in File, RegisterSame(t, f)
        PROVE  status'[i] = "DEREGISTERED"
    BY SMTT(40), <2>0, <2>4, FileFields, LastOfCountry DEF RegisterSame
  <2>5. ASSUME NEW t \in Thread, NEW c \in Country, Deregister(t, c)
        PROVE  status'[i] = "DEREGISTERED"
    <3> DEFINE id == GetMwmIdByCountryFileImpl(c)
    <3>1. id \in Info /\ status[id] # "DEREGISTERED" /\ numRefs[id] \in Nat
      BY <2>0, <2>5, LastOfCountry DEF Deregister
    <3>2. status' = DeregisterImpl(id, numRefs[id]).status
      BY SMTT(40), <2>5 DEF Deregister
    <3> HIDE DEF id
    <3> QED
      BY SMTT(40), <2>1, <3>1, <3>2
  <2>6. ASSUME NEW t \in Thread, NEW h \in Handle, NEW j \in Info, GetMwmHandle(t, h, j)
        PROVE  status'[i] = "DEREGISTERED"
    <3>1. status[j] # "DEREGISTERED" /\ numRefs[j] \in Nat
      BY ZenonT(40), <2>0, <2>6 DEF GetMwmHandle, IsAlive
    <3>2. status' = status \/ status' = DeregisterImpl(j, numRefs[j]).status
      BY SMTT(40), <2>6 DEF GetMwmHandle
    <3> QED
      BY <2>1, <3>1, <3>2
  <2>7. ASSUME NEW t \in Thread, NEW h \in Handle, ReleaseHandle(t, h)
        PROVE  status'[i] = "DEREGISTERED"
    <3> DEFINE j == handle[h]
    <3>1. j \in Info /\ status[j] # "DEREGISTERED"
      BY Zenon, <2>7 DEF ReleaseHandle, IInv, TypeOK, HandlesPinMaps, IsAlive
    <3>2. status' = status \/ status' = DeregisterImpl(j, 0).status
      BY Zenon, <2>7 DEF ReleaseHandle, NotDeregistered
    <3> HIDE DEF j
    <3> QED
      BY <2>1, <3>1, <3>2
  <2>8. ASSUME NEW t \in Thread, Clear(t) \/ ClearCache(t) \/ ProcessEvent(t)
        PROVE  status'[i] = "DEREGISTERED"
    BY <2>8 DEF Clear, ClearCache, ProcessEvent
  <2> QED
    BY SMTT(40), <2>2, <2>3, <2>4, <2>5, <2>6, <2>7, <2>8 DEF Next
<1> QED
  BY <1>1, MwmSetInvariant, PTL DEF Spec, DeregisteredIsFinal

=============================================================================
