--------------------------- MODULE ServicesProofs ---------------------------
(***************************************************************************)
(* The two services that every other service calls: srv_center lets the    *)
(* services of a name take turns and so implements module ServiceRing, and *)
(* srv_logger gives every line its file and closes the files of past days; *)
(* for any number of services, appenders, coroutines and days.             *)
(***************************************************************************)
EXTENDS ServiceCenter, Logger, TLAPS, SequenceTheorems, FiniteSetTheorems,
        FunctionTheorems, WellFoundedInduction

-----------------------------------------------------------------------------
(* srv_center *)

\* Where the list has the service handed out k lookups ago: it moves back place by place
\* until it stands last, and is then the first again.
Place(k, n) == IF k = n THEN 1 ELSE k + 1

LatestBehind ==
    \A k \in 1 .. Len(one_services) :
        k <= Len(recent) =>
            recent[Len(recent) + 1 - k] = one_services[Place(k, Len(one_services))]

\* Until somebody registers, nobody is handed out.
NobodyYet == one_services = <<>> => last = NoHandle /\ recent = <<>>

CenterInv == TypeOK /\ LatestBehind /\ NobodyYet /\ TakesTurns

LEMMA RotateProperties ==
    ASSUME NEW S, NEW s \in Seq(S), Len(s) > 1
    PROVE  /\ Rotate(s) \in Seq(S) /\ Len(Rotate(s)) = Len(s)
           /\ Rotate(s)[1] = s[Len(s)]
           /\ \A i \in 2 .. Len(s) : Rotate(s)[i] = s[i - 1]
<1> DEFINE t == SubSeq(s, 1, Len(s) - 1)
<1>1. t \in Seq(S) /\ Len(t) = Len(s) - 1 /\ \A i \in 1 .. Len(s) - 1 : t[i] = s[i]
  BY SubSeqProperties
<1>2. <<s[Len(s)]>> \in Seq(S) /\ Len(<<s[Len(s)]>>) = 1 /\ <<s[Len(s)]>>[1] = s[Len(s)]
  OBVIOUS
<1> HIDE DEF t
<1>3. <<s[Len(s)]>> \o t \in Seq(S) /\ Len(<<s[Len(s)]>> \o t) = Len(s)
      /\ \A i \in 1 .. Len(s) :
            (<<s[Len(s)]>> \o t)[i] = IF i <= 1 THEN <<s[Len(s)]>>[i] ELSE t[i - 1]
  BY <1>1, <1>2, ConcatProperties
<1> QED
  BY <1>1, <1>2, <1>3 DEF Rotate, t

\* What a lookup that finds somebody appends to `recent'.
Lookup == LET r == Append(recent, one_services[1])
          IN  IF Len(r) > Window THEN Tail(r) ELSE r

\* The window slides, which moves no two lookups with respect to each other.
LEMMA LookupProperties ==
    ASSUME TypeOK, Len(one_services) > 0
    PROVE  /\ Lookup \in Seq(Handles)
           /\ \E m \in 0 .. 1 :
                 /\ Len(Lookup) = Len(recent) + 1 - m
                 /\ \A i \in 1 .. Len(Lookup) :
                       Lookup[i] = IF i + m = Len(recent) + 1 THEN one_services[1]
                                   ELSE recent[i + m]
<1> DEFINE r == Append(recent, one_services[1])
<1>1. one_services[1] \in Handles /\ recent \in Seq(Handles)
  BY DEF TypeOK
<1>2. /\ r \in Seq(Handles) /\ Len(r) = Len(recent) + 1
      /\ \A i \in 1 .. Len(recent) : r[i] = recent[i]
      /\ r[Len(recent) + 1] = one_services[1]
  BY <1>1, AppendProperties
<1> HIDE DEF r
<1>3. /\ Tail(r) \in Seq(Handles) /\ Len(Tail(r)) = Len(r) - 1
      /\ \A i \in 1 .. Len(Tail(r)) : Tail(r)[i] = r[i + 1]
  BY <1>1, <1>2, HeadTailProperties, EmptySeq
<1>4. Lookup = IF Len(r) > Window THEN Tail(r) ELSE r
  BY DEF Lookup, r
<1>5. CASE Len(r) > Window
  <2>1. Lookup = Tail(r)
    BY <1>4, <1>5
  <2>2. \A i \in 1 .. Len(recent) :
           Tail(r)[i] = IF i + 1 = Len(recent) + 1 THEN one_services[1] ELSE recent[i + 1]
    BY <1>1, <1>2, <1>3
  <2> QED
    BY <1>1, <1>2, <1>3, <2>1, <2>2
<1>6. CASE ~(Len(r) > Window)
  <2>1. Lookup = r
    BY <1>4, <1>6
  <2> QED
    BY <1>1, <1>2, <2>1
<1> QED
  BY <1>5, <1>6

\* Of two sequences that have the same at places that stand for each other one has as many
\* places with h as the other.
LEMMA SameTimes ==
    ASSUME NEW s, NEW t, NEW h, NEW P, NEW Q, IsFiniteSet(P), NEW f \in [P -> Q],
           \A k, l \in P : f[k] = f[l] => k = l,
           \A m \in Q : \E k \in P : f[k] = m,
           \A k \in P : s[k] = t[f[k]]
    PROVE  Times(h, s, P) = Times(h, t, Q)
<1> DEFINE A == {k \in P : s[k] = h}
           B == {k \in Q : t[k] = h}
           g == [k \in A |-> f[k]]
<1>1. g \in [A -> B]
  OBVIOUS
<1>2. \A k, l \in A : g[k] = g[l] => k = l
  OBVIOUS
<1>3. ASSUME NEW m \in B PROVE \E k \in A : g[k] = m
  <2>1. PICK k \in P : f[k] = m
    OBVIOUS
  <2>2. k \in A
    BY <2>1
  <2> QED
    BY <2>1, <2>2
<1>4. IsFiniteSet(A)
  BY FS_Subset
<1>5. \A m \in B : \E k \in A : g[k] = m
  BY <1>3
<1> HIDE DEF A, B, g
<1>6. g \in Bijection(A, B)
  BY <1>1, <1>2, <1>5, Fun_IsBij
<1>7. ExistsBijection(A, B)
  BY <1>6 DEF ExistsBijection
<1>8. Cardinality(A) = Cardinality(B)
  BY <1>4, <1>7, FS_Bijection
<1> QED
  BY <1>8 DEF A, B, Times

LEMMA CenterInit == Init => CenterInv
<1> SUFFICES ASSUME Init PROVE CenterInv
  OBVIOUS
<1>1. one_services = <<>> /\ recent = <<>> /\ Len(one_services) = 0 /\ Len(recent) = 0
  BY DEF Init
<1> QED
  BY <1>1 DEF Init, CenterInv, TypeOK, LatestBehind, NobodyYet, TakesTurns

LEMMA CenterStart ==
    ASSUME CenterInv, NEW c \in Callers, NEW type \in NewTypes \cup UniqueTypes,
           NEW h \in Handles, start_service(c, type, h)
    PROVE  CenterInv'
<1>1. one_services' = one_services /\ last' = last /\ recent' = recent
  BY DEF start_service
<1>2. starting' = [starting EXCEPT ![c] = h]
      /\ (unique' = unique \/ unique' = [unique EXCEPT ![type] = h])
  BY DEF start_service, newservice, uniqueservice
<1>3. TypeOK'
  BY <1>1, <1>2 DEF CenterInv, TypeOK
<1>4. LatestBehind' /\ NobodyYet' /\ TakesTurns'
  BY <1>1 DEF CenterInv, LatestBehind, NobodyYet, TakesTurns
<1> QED
  BY <1>3, <1>4 DEF CenterInv

LEMMA CenterStarted ==
    ASSUME CenterInv, NEW c \in Callers, start_service_done(c)
    PROVE  CenterInv' /\ starting[c] \in Handles
<1>1. /\ one_services \in Seq(Handles) /\ starting[c] \in Handles
      /\ starting' = [starting EXCEPT ![c] = NoHandle]
      /\ one_services' = Append(one_services, starting[c])
      /\ recent' = <<>> /\ last' = last /\ unique' = unique
  BY DEF CenterInv, TypeOK, start_service_done
<1>2. one_services' \in Seq(Handles) /\ Len(one_services') = Len(one_services) + 1
      /\ Len(one_services) \in Nat /\ one_services' # <<>>
  BY <1>1, AppendProperties
<1>3. Len(recent') = 0
  BY <1>1
<1>4. TypeOK'
  BY <1>1, <1>2 DEF CenterInv, TypeOK
<1>5. LatestBehind' /\ NobodyYet' /\ TakesTurns'
  BY <1>2, <1>3 DEF LatestBehind, NobodyYet, TakesTurns
<1> QED
  BY <1>1, <1>4, <1>5 DEF CenterInv

LEMMA CenterLookup == ASSUME CenterInv, getOneServer PROVE CenterInv'
<1> DEFINE s == one_services
<1>0. PICK n \in Nat : n = Len(s)
  BY DEF CenterInv, TypeOK
<1>1. s \in Seq(Handles) /\ recent \in Seq(Handles) /\ Len(s) = n
  BY <1>0 DEF CenterInv, TypeOK
<1>2. CASE s = <<>>
  <2>1. /\ one_services' = one_services /\ recent' = recent /\ last' = NoHandle
        /\ unique' = unique /\ starting' = starting
    BY <1>2 DEF getOneServer
  <2> QED
    BY <1>2, <2>1 DEF CenterInv, TypeOK, LatestBehind, NobodyYet, TakesTurns
<1>3. CASE s # <<>>
  <2>1. n > 0
    BY <1>1, <1>3
  <2>2. /\ recent' = Lookup /\ starting' = starting /\ unique' = unique
        /\ last' = s[1] /\ s[1] \in Handles
    BY <1>1, <1>3, <2>1 DEF getOneServer, Lookup
  <2>3. s' \in Seq(Handles) /\ Len(s') = n
        /\ \A i \in 1 .. n : s'[i] = IF i = 1 THEN s[n] ELSE s[i - 1]
    <3>1. CASE n > 1
      <4>1. s' = Rotate(s)
        BY <1>0, <3>1 DEF getOneServer
      <4>2. /\ Rotate(s) \in Seq(Handles) /\ Len(Rotate(s)) = n /\ Rotate(s)[1] = s[n]
            /\ \A i \in 2 .. n : Rotate(s)[i] = s[i - 1]
        BY <1>0, <1>1, <3>1, RotateProperties
      <4>3. \A i \in 1 .. n : i = 1 \/ i \in 2 .. n
        BY <1>1
      <4> QED
        BY <4>1, <4>2, <4>3
    <3>2. CASE n = 1
      <4>1. s' = s
        BY <1>0, <3>2 DEF getOneServer
      <4>2. \A i \in 1 .. n : i = 1
        BY <3>2
      <4> QED
        BY <1>1, <3>2, <4>1, <4>2
    <3> QED
      BY <1>1, <2>1, <3>1, <3>2
  <2>4. PICK m \in 0 .. 1 :
           /\ Len(recent') = Len(recent) + 1 - m
           /\ \A i \in 1 .. Len(recent') :
                 recent'[i] = IF i + m = Len(recent) + 1 THEN s[1] ELSE recent[i + m]
    BY <1>0, <2>1, <2>2, LookupProperties DEF CenterInv
  <2>5. TypeOK'
    BY <1>1, <2>1, <2>2, <2>3, LookupProperties DEF CenterInv, TypeOK
  <2>6. PICK q \in Nat, q1 \in Nat : q = Len(recent) /\ q1 = Len(recent') /\ q1 = q + 1 - m
    BY <1>1, <2>4, <2>5 DEF TypeOK
  <2>7. \A i \in 1 .. q1 : recent'[i] = IF i + m = q + 1 THEN s[1] ELSE recent[i + m]
    BY <2>4, <2>6
  <2>8. ASSUME NEW k \in 1 .. n, k <= q1
        PROVE  recent'[q1 + 1 - k] = s'[Place(k, n)]
    <3>1. CASE k = 1
      <4>1. recent'[q1] = s[1]
        BY <2>6, <2>7, <2>8, <3>1
      <4>2. s'[Place(1, n)] = s[1]
        BY <2>1, <2>3 DEF Place
      <4> QED
        BY <2>6, <3>1, <4>1, <4>2
    <3>2. CASE k > 1
      <4>1. q1 + 1 - k \in 1 .. q1 /\ (q1 + 1 - k) + m = q + 1 - (k - 1)
            /\ (q1 + 1 - k) + m # q + 1
        BY <2>6, <2>8, <3>2
      <4>2. recent'[q1 + 1 - k] = recent[q + 1 - (k - 1)]
        BY <2>7, <4>1
      <4>3. k - 1 \in 1 .. n /\ k - 1 <= q
        BY <2>6, <2>8, <3>2
      <4>4. recent[q + 1 - (k - 1)] = s[Place(k - 1, n)]
        BY <1>0, <2>6, <4>3 DEF CenterInv, LatestBehind
      <4>5. s'[Place(k, n)] = s[Place(k - 1, n)]
        BY <2>1, <2>3, <3>2 DEF Place
      <4> QED
        BY <4>2, <4>4, <4>5
    <3> QED
      BY <3>1, <3>2
  <2>9. LatestBehind'
    BY <2>3, <2>6, <2>8 DEF LatestBehind
  <2>10. TakesTurns'
    <3> SUFFICES ASSUME NEW i \in 1 .. q1, NEW h \in Handles, i + n <= q1 + 1
                 PROVE  Times(h, recent', i .. i + n - 1) = Times(h, s', 1 .. n)
      BY <2>3, <2>6 DEF TakesTurns
    <3>1. CASE i + n = q1 + 1
      <4> DEFINE f == [j \in i .. i + n - 1 |-> Place(q1 + 1 - j, n)]
      <4>1. \A j \in i .. i + n - 1 : q1 + 1 - j \in 1 .. n /\ q1 + 1 - j <= q1
        BY <2>6, <3>1
      <4>2. /\ f \in [i .. i + n - 1 -> 1 .. n]
            /\ \A j, l \in i .. i + n - 1 : f[j] = f[l] => j = l
            /\ \A p \in 1 .. n : \E j \in i .. i + n - 1 : f[j] = p
        <5>1. f \in [i .. i + n - 1 -> 1 .. n]
          BY <2>1, <4>1 DEF Place
        <5>2. ASSUME NEW j \in i .. i + n - 1, NEW l \in i .. i + n - 1, f[j] = f[l]
              PROVE  j = l
          BY <2>1, <2>6, <4>1, <5>2 DEF Place
        <5>3. ASSUME NEW p \in 1 .. n PROVE \E j \in i .. i + n - 1 : f[j] = p
          <6>1. CASE p = 1
            <7>1. q1 + 1 - n \in i .. i + n - 1 /\ f[q1 + 1 - n] = 1
              BY <2>1, <2>6, <3>1 DEF Place
            <7> QED
              BY <6>1, <7>1
          <6>2. CASE p > 1
            <7>1. q1 + 2 - p \in i .. i + n - 1 /\ f[q1 + 2 - p] = p
              BY <2>1, <2>6, <3>1, <6>2 DEF Place
            <7> QED
              BY <7>1
          <6> QED
            BY <6>1, <6>2
        <5> QED
          BY <5>1, <5>2, <5>3
      <4>3. \A j \in i .. i + n - 1 : recent'[j] = s'[f[j]]
        <5>1. ASSUME NEW j \in i .. i + n - 1 PROVE recent'[j] = s'[f[j]]
          <6>1. recent'[q1 + 1 - (q1 + 1 - j)] = s'[Place(q1 + 1 - j, n)]
            BY <2>8, <4>1
          <6> QED
            BY <2>6, <6>1
        <5> QED
          BY <5>1
      <4> HIDE DEF f
      <4>4. IsFiniteSet(i .. i + n - 1)
        BY FS_Interval
      <4>8. ASSUME NEW s1, NEW t1, NEW P, NEW Q,
                  s1 = recent', t1 = s', P = i .. i + n - 1, Q = 1 .. n
           PROVE  Times(h, s1, P) = Times(h, t1, Q)
        <5>1. /\ IsFiniteSet(P) /\ f \in [P -> Q]
              /\ \A j, l \in P : f[j] = f[l] => j = l
              /\ \A p \in Q : \E j \in P : f[j] = p
              /\ \A j \in P : s1[j] = t1[f[j]]
          BY <4>2, <4>3, <4>4, <4>8, Zenon
        <5> QED
          BY <5>1, SameTimes
      <4> QED
        BY <4>8, Zenon
    <3>2. CASE i + n <= q1
      <4>1. i + m \in 1 .. q /\ (i + m) + n <= q + 1
        BY <2>1, <2>6, <3>2
      <4>2. Times(h, recent', i .. i + n - 1) = Times(h, recent, i + m .. (i + m) + n - 1)
        <5> DEFINE f == [j \in i .. i + n - 1 |-> j + m]
        <5>1. f \in [i .. i + n - 1 -> i + m .. (i + m) + n - 1]
          BY <2>1
        <5>2. \A j, l \in i .. i + n - 1 : f[j] = f[l] => j = l
          OBVIOUS
        <5>3. \A p \in i + m .. (i + m) + n - 1 :
                 p - m \in i .. i + n - 1 /\ f[p - m] = p
          BY <2>1
        <5>4. \A p \in i + m .. (i + m) + n - 1 : \E j \in i .. i + n - 1 : f[j] = p
          <6>1. ASSUME NEW p \in i + m .. (i + m) + n - 1
                PROVE  \E j \in i .. i + n - 1 : f[j] = p
            BY <5>3
          <6> QED
            BY <6>1
        <5>5. ASSUME NEW j \in i .. i + n - 1 PROVE recent'[j] = recent[f[j]]
          <6>1. j \in 1 .. q1 /\ j + m # q + 1 /\ f[j] = j + m
            BY <2>1, <2>6, <3>2
          <6> QED
            BY <2>7, <6>1
        <5> HIDE DEF f
        <5>6. IsFiniteSet(i .. i + n - 1)
          BY FS_Interval
        <5>8. ASSUME NEW s1, NEW t1, NEW P, NEW Q,
                    s1 = recent', t1 = recent, P = i .. i + n - 1, Q = i + m .. (i + m) + n - 1
             PROVE  Times(h, s1, P) = Times(h, t1, Q)
          <6>1. /\ IsFiniteSet(P) /\ f \in [P -> Q]
                /\ \A j, l \in P : f[j] = f[l] => j = l
                /\ \A p \in Q : \E j \in P : f[j] = p
                /\ \A j \in P : s1[j] = t1[f[j]]
            BY <5>1, <5>2, <5>4, <5>5, <5>6, <5>8, Zenon
          <6> QED
            BY <6>1, SameTimes
        <5> QED
          BY <5>8, Zenon
      <4>3. Times(h, recent, i + m .. (i + m) + n - 1) = Times(h, s, 1 .. n)
        BY <1>0, <2>6, <4>1 DEF CenterInv, TakesTurns
      <4>4. Times(h, s', 1 .. n) = Times(h, s, 1 .. n)
        <5> DEFINE f == [j \in 1 .. n |-> IF j = 1 THEN n ELSE j - 1]
        <5>1. f \in [1 .. n -> 1 .. n]
          BY <2>1
        <5>2. \A j, l \in 1 .. n : f[j] = f[l] => j = l
          OBVIOUS
        <5>3. \A p \in 1 .. n : \E j \in 1 .. n : f[j] = p
          <6>1. ASSUME NEW p \in 1 .. n PROVE \E j \in 1 .. n : f[j] = p
            <7>1. CASE p = n
              <8>1. 1 \in 1 .. n /\ f[1] = n
                BY <2>1
              <8> QED
                BY <7>1, <8>1
            <7>2. CASE p < n
              <8>1. p + 1 \in 1 .. n /\ f[p + 1] = p
                BY <7>2
              <8> QED
                BY <8>1
            <7> QED
              BY <7>1, <7>2
          <6> QED
            BY <6>1
        <5>4. \A j \in 1 .. n : s'[j] = s[f[j]]
          BY <2>3
        <5> HIDE DEF f
        <5>5. IsFiniteSet(1 .. n)
          BY FS_Interval
        <5>8. ASSUME NEW s1, NEW t1, NEW P, NEW Q,
                    s1 = s', t1 = s, P = 1 .. n, Q = 1 .. n
             PROVE  Times(h, s1, P) = Times(h, t1, Q)
          <6>1. /\ IsFiniteSet(P) /\ f \in [P -> Q]
                /\ \A j, l \in P : f[j] = f[l] => j = l
                /\ \A p \in Q : \E j \in P : f[j] = p
                /\ \A j \in P : s1[j] = t1[f[j]]
            BY <5>1, <5>2, <5>3, <5>4, <5>5, <5>8, Zenon
          <6> QED
            BY <6>1, SameTimes
        <5> QED
          BY <5>8, Zenon
      <4> QED
        BY <4>2, <4>3, <4>4
    <3> QED
      BY <2>6, <3>1, <3>2
  <2> QED
    BY <2>1, <2>3, <2>5, <2>9, <2>10 DEF CenterInv, NobodyYet
<1> QED
  BY <1>2, <1>3

LEMMA CenterNext == CenterInv /\ [Next]_vars => CenterInv'
<1> SUFFICES ASSUME CenterInv, [Next]_vars PROVE CenterInv'
  OBVIOUS
<1>1. CASE UNCHANGED vars
  BY <1>1 DEF vars, CenterInv, TypeOK, LatestBehind, NobodyYet, TakesTurns
<1> QED
  BY <1>1, CenterStart, CenterStarted, CenterLookup DEF Next

LEMMA CenterInvariant == Spec => []CenterInv
BY CenterInit, CenterNext, PTL DEF Spec

\* getOneServer lets the listed services take turns, also those start_service listed again
\* because uniqueservice returned a service known already: it moves the last of the list
\* to the front, and those just handed out stand behind it.
THEOREM ServicesTakeTurns == Spec => []TakesTurns
<1>1. CenterInv => TakesTurns
  BY DEF CenterInv
<1> QED
  BY <1>1, CenterInvariant, PTL

-----------------------------------------------------------------------------
(* srv_center implements ServiceRing *)

\* The order of the ring, read off a list of services.
RingOf(s) == [i \in 1 .. Len(s) |-> IF i = 1 THEN s[1] ELSE s[Len(s) + 2 - i]]

LEMMA RingOfProperties ==
    ASSUME NEW S, NEW s \in Seq(S)
    PROVE  /\ RingOf(s) \in Seq(S) /\ Len(RingOf(s)) = Len(s)
           /\ \A i \in 1 .. Len(s) : RingOf(s)[i] = IF i = 1 THEN s[1] ELSE s[Len(s) + 2 - i]
<1>1. \A i \in 1 .. Len(s) : (IF i = 1 THEN s[1] ELSE s[Len(s) + 2 - i]) \in S
  OBVIOUS
<1>2. RingOf(s) \in [1 .. Len(s) -> S]
  BY <1>1 DEF RingOf
<1> QED
  BY <1>2 DEF RingOf

\* A registration puts the new service next but one.
LEMMA RingOfAppend ==
    ASSUME NEW S, NEW s \in Seq(S), NEW h \in S
    PROVE  RingOf(Append(s, h)) =
             IF s = <<>> THEN <<h>> ELSE <<Head(RingOf(s)), h>> \o Tail(RingOf(s))
<1> DEFINE r == RingOf(s)
           a == Append(s, h)
           t == RingOf(a)
<1>0. PICK n \in Nat : n = Len(s)
  OBVIOUS
<1>1. r \in Seq(S) /\ Len(r) = n
      /\ \A i \in 1 .. n : r[i] = IF i = 1 THEN s[1] ELSE s[n + 2 - i]
  BY <1>0, RingOfProperties
<1>2. a \in Seq(S) /\ Len(a) = n + 1 /\ (\A i \in 1 .. n : a[i] = s[i]) /\ a[n + 1] = h
  BY <1>0, AppendProperties
<1> HIDE DEF a
<1>3. /\ t \in Seq(S) /\ Len(t) = n + 1
      /\ \A i \in 1 .. n + 1 : t[i] = IF i = 1 THEN a[1] ELSE a[(n + 1) + 2 - i]
  BY <1>2, RingOfProperties
<1> HIDE DEF r, t
<1>4. CASE s = <<>>
  <2>1. n = 0
    BY <1>0, <1>4
  <2>2. t[1] = h
    BY <1>2, <1>3, <2>1
  <2> QED
    BY <1>3, <1>4, <2>1, <2>2 DEF t, a
<1>5. CASE s # <<>>
  <2>1. n > 0
    BY <1>0, <1>5, EmptySeq
  <2>2. r # <<>> /\ Head(r) = s[1] /\ Head(r) \in S
        /\ Tail(r) \in Seq(S) /\ Len(Tail(r)) = n - 1
        /\ \A i \in 1 .. n - 1 : Tail(r)[i] = r[i + 1]
    BY <1>1, <2>1, HeadTailProperties, EmptySeq
  <2> DEFINE u == <<Head(r), h>>
             v == Tail(r)
             w == u \o v
  <2>3. u \in Seq(S) /\ Len(u) = 2 /\ u[1] = s[1] /\ u[2] = h
    BY <2>2
  <2>4. v \in Seq(S) /\ Len(v) = n - 1 /\ \A i \in 1 .. n - 1 : v[i] = r[i + 1]
    BY <2>2
  <2> HIDE DEF u, v
  <2>5. /\ w \in Seq(S) /\ Len(w) = Len(u) + Len(v)
        /\ \A i \in 1 .. Len(u) + Len(v) : w[i] = IF i <= Len(u) THEN u[i] ELSE v[i - Len(u)]
    BY <2>3, <2>4, ConcatProperties
  <2> HIDE DEF w
  <2>6. Len(w) = n + 1 /\ \A i \in 1 .. n + 1 : w[i] = IF i <= 2 THEN u[i] ELSE v[i - 2]
    BY <2>3, <2>4, <2>5
  <2>7. ASSUME NEW i \in 1 .. n + 1 PROVE t[i] = w[i]
    <3>1. CASE i = 1
      <4>1. t[1] = a[1] /\ a[1] = s[1]
        BY <1>2, <1>3, <2>1
      <4>2. w[1] = u[1]
        BY <2>6
      <4> QED
        BY <2>3, <3>1, <4>1, <4>2
    <3>2. CASE i = 2
      <4>1. t[2] = a[n + 1]
        BY <1>3, <2>1
      <4>2. w[2] = u[2]
        BY <2>1, <2>6
      <4> QED
        BY <1>2, <2>3, <3>2, <4>1, <4>2
    <3>3. CASE i > 2
      <4>1. t[i] = a[n + 3 - i] /\ a[n + 3 - i] = s[n + 3 - i]
        BY <1>2, <1>3, <3>3
      <4>2. w[i] = v[i - 2] /\ v[i - 2] = r[i - 1]
        BY <2>4, <2>6, <3>3
      <4>3. r[i - 1] = s[n + 3 - i]
        BY <1>1, <3>3
      <4> QED
        BY <4>1, <4>2, <4>3
    <3>4. i = 1 \/ i = 2 \/ i > 2
      OBVIOUS
    <3> QED
      BY <3>1, <3>2, <3>3, <3>4
  <2>8. t = w
    BY <1>3, <2>5, <2>6, <2>7, SeqEqual
  <2> QED
    BY <1>5, <2>8 DEF r, a, t, u, v, w
<1> QED
  BY <1>4, <1>5

\* A lookup takes the first of the ring to its end.
LEMMA RingOfRotate ==
    ASSUME NEW S, NEW s \in Seq(S), s # <<>>
    PROVE  /\ RingOf(s) # <<>> /\ Head(RingOf(s)) = s[1]
           /\ RingOf(IF Len(s) > 1 THEN Rotate(s) ELSE s) =
                Append(Tail(RingOf(s)), Head(RingOf(s)))
<1>0. PICK n \in Nat : n = Len(s)
  OBVIOUS
<1> DEFINE r == RingOf(s)
           z == IF n > 1 THEN Rotate(s) ELSE s
           t == RingOf(z)
<1>1. n > 0 /\ r \in Seq(S) /\ Len(r) = n
      /\ \A i \in 1 .. n : r[i] = IF i = 1 THEN s[1] ELSE s[n + 2 - i]
  BY <1>0, RingOfProperties, EmptySeq
<1>2. z \in Seq(S) /\ Len(z) = n /\ \A i \in 1 .. n : z[i] = IF i = 1 THEN s[n] ELSE s[i - 1]
  <2>1. CASE n > 1
    <3>1. /\ Rotate(s) \in Seq(S) /\ Len(Rotate(s)) = n /\ Rotate(s)[1] = s[n]
          /\ \A i \in 2 .. n : Rotate(s)[i] = s[i - 1]
      BY <1>0, <2>1, RotateProperties
    <3>2. \A i \in 1 .. n : i = 1 \/ i \in 2 .. n
      BY <1>1
    <3> QED
      BY <2>1, <3>1, <3>2
  <2>2. CASE n = 1
    <3>1. \A i \in 1 .. n : i = 1
      BY <2>2
    <3>2. z = s
      BY <1>0, <2>2
    <3> QED
      BY <1>0, <2>2, <3>1, <3>2
  <2> QED
    BY <1>1, <2>1, <2>2
<1>3. /\ t \in Seq(S) /\ Len(t) = n
      /\ \A i \in 1 .. n : t[i] = IF i = 1 THEN z[1] ELSE z[n + 2 - i]
  BY <1>2, RingOfProperties
<1> HIDE DEF r, z, t
<1>4. r # <<>> /\ Head(r) = s[1] /\ Head(r) \in S
      /\ Tail(r) \in Seq(S) /\ Len(Tail(r)) = n - 1
      /\ \A i \in 1 .. n - 1 : Tail(r)[i] = r[i + 1]
  BY <1>1, HeadTailProperties, EmptySeq
<1> DEFINE v == Append(Tail(r), Head(r))
<1>5. /\ v \in Seq(S) /\ Len(v) = n
      /\ \A i \in 1 .. n - 1 : v[i] = r[i + 1]
      /\ v[n] = s[1]
  BY <1>1, <1>4, AppendProperties
<1> HIDE DEF v
<1>6. ASSUME NEW i \in 1 .. n PROVE t[i] = v[i]
  <2>1. CASE n = 1
    <3>1. i = 1
      BY <2>1
    <3> QED
      BY <1>2, <1>3, <1>5, <2>1, <3>1
  <2>2. CASE n > 1 /\ i = 1
    <3>1. t[i] = s[n]
      BY <1>1, <1>2, <1>3, <2>2
    <3>2. v[i] = r[2] /\ r[2] = s[n]
      BY <1>1, <1>5, <2>2
    <3> QED
      BY <3>1, <3>2
  <2>3. CASE n > 1 /\ i = n
    <3>1. t[i] = z[2] /\ z[2] = s[1]
      BY <1>1, <1>2, <1>3, <2>3
    <3> QED
      BY <1>5, <2>3, <3>1
  <2>4. CASE i > 1 /\ i < n
    <3>1. n + 2 - i \in 1 .. n /\ n + 2 - i # 1 /\ (n + 2 - i) - 1 = n + 2 - (i + 1)
      BY <1>1, <2>4
    <3>2. t[i] = z[n + 2 - i] /\ z[n + 2 - i] = s[n + 2 - (i + 1)]
      BY <1>2, <1>3, <2>4, <3>1
    <3>3. v[i] = r[i + 1] /\ r[i + 1] = s[n + 2 - (i + 1)]
      BY <1>1, <1>5, <2>4
    <3> QED
      BY <3>2, <3>3
  <2> QED
    BY <1>1, <2>1, <2>2, <2>3, <2>4
<1>7. t = v
  BY <1>3, <1>5, <1>6, SeqEqual
<1> QED
  BY <1>0, <1>4, <1>7 DEF r, z, t, v

LEMMA RingInit == Init => Ring!Init
<1> SUFFICES ASSUME Init PROVE Ring!Init
  OBVIOUS
<1>1. one_services \in Seq(Handles) /\ Len(one_services) = 0 /\ InTurn = RingOf(one_services)
  BY DEF Init, InTurn, RingOf
<1>2. InTurn \in Seq(Handles) /\ Len(InTurn) = 0
  BY <1>1, RingOfProperties
<1> QED
  BY <1>2 DEF Init, Ring!Init

LEMMA RingStep == CenterInv /\ [Next]_vars => [Ring!Next]_<<InTurn, last>>
<1> SUFFICES ASSUME CenterInv, [Next]_vars PROVE [Ring!Next]_<<InTurn, last>>
  OBVIOUS
<1>1. one_services \in Seq(Handles)
  BY DEF CenterInv, TypeOK
<1>2. InTurn = RingOf(one_services) /\ InTurn' = RingOf(one_services')
  BY DEF InTurn, RingOf
<1>3. CASE one_services' = one_services /\ last' = last
  BY <1>3 DEF InTurn
<1>4. ASSUME NEW c \in Callers, start_service_done(c) PROVE Ring!Next
  <2>1. PICK h \in Handles : one_services' = Append(one_services, h) /\ last' = last
    BY <1>4, CenterStarted DEF start_service_done
  <2>2. (InTurn = <<>>) <=> (one_services = <<>>)
    BY <1>1, <1>2, RingOfProperties, EmptySeq
  <2>3. InTurn' = IF InTurn = <<>> THEN <<h>> ELSE <<Head(InTurn), h>> \o Tail(InTurn)
    BY <1>1, <1>2, <2>1, <2>2, RingOfAppend
  <2> QED
    BY <2>1, <2>3 DEF Ring!Next, Ring!Join
<1>5. CASE getOneServer
  <2>1. CASE one_services = <<>>
    BY <1>3, <1>5, <2>1 DEF getOneServer, CenterInv, NobodyYet
  <2>2. CASE one_services # <<>>
    <3>1. last' = one_services[1]
          /\ one_services' = IF Len(one_services) > 1 THEN Rotate(one_services) ELSE one_services
      BY <1>5, <2>2 DEF getOneServer
    <3>2. InTurn # <<>> /\ Head(InTurn) = one_services[1]
          /\ InTurn' = Append(Tail(InTurn), Head(InTurn))
      BY <1>1, <1>2, <2>2, <3>1, RingOfRotate
    <3> QED
      BY <3>1, <3>2 DEF Ring!Next, Ring!Pick
  <2> QED
    BY <2>1, <2>2
<1> QED
  BY <1>3, <1>4, <1>5 DEF Next, vars, start_service

\* srv_center implements ServiceRing: the list, which getOneServer rotates and to whose
\* end start_service appends, is a ring in which the services take turns.
THEOREM CenterImplementsRing == Spec => ImplementsRing
<1>1. Init => Ring!Init
  BY RingInit
<1>2. CenterInv /\ [Next]_vars => [Ring!Next]_<<InTurn, last>>
  BY RingStep
<1> QED
  BY <1>1, <1>2, CenterInvariant, PTL DEF Spec, ImplementsRing, Ring!Spec

-----------------------------------------------------------------------------
(* srv_logger: the invariant of its messages *)

Opens == {i \in 1 .. Len(inbox) : inbox[i].cmd = "open"}

\* Whoever asked for a file waits for it.
Asked == \A i \in Opens : waiting[inbox[i].from] = inbox[i].file

\* A reply reaches the service of the coroutine that asked; the handle in it is that of
\* the file asked for, unless the file has been closed meanwhile.
Answered ==
    \A a \in Appenders : \A i \in 1 .. Len(replies[a]) :
        LET r == replies[a][i] IN
        /\ AppenderOf[r.to] = a /\ waiting[r.to] # None
        /\ r.handle # None => files[r.handle] \in {None, waiting[r.to]}

\* A coroutine asks for one file at a time.
AskedOnce ==
    /\ \A i, j \in Opens : inbox[i].from = inbox[j].from => i = j
    /\ \A i \in Opens, a \in Appenders : \A k \in 1 .. Len(replies[a]) :
          replies[a][k].to # inbox[i].from
    /\ \A a \in Appenders : \A i, k \in 1 .. Len(replies[a]) :
          replies[a][i].to = replies[a][k].to => i = k

FileOfHandle == \A d \in Days : LOGGER[d] # None => files[LOGGER[d]] = d

\* An appender's handle is that of the file of its date, unless that has been closed.
HandleOfLog ==
    \A a \in Appenders :
        log[a].handle # None =>
            log[a].filename # None /\ files[log[a].handle] \in {None, log[a].date}

DatesPast ==
    /\ \A c \in Coroutines : waiting[c] <= log[AppenderOf[c]].filename
    /\ \A a \in Appenders : log[a].filename <= today

LogInv ==
    /\ LogTypeOK /\ Asked /\ Answered /\ AskedOnce
    /\ FileOfHandle /\ HandleOfLog /\ DatesPast /\ LineInItsFile

LEMMA DayFacts ==
    /\ Days \subseteq Nat /\ None \notin Days /\ 1 \in Days
    /\ LogHandles \subseteq Nat /\ None \notin LogHandles
BY LoggerAssumption DEF Days, LogHandles, None

LEMMA MinChosen ==
    ASSUME NEW S, S \subseteq Nat, S # {}
    PROVE  Min(S) \in S
<1>1. PICK x \in S : \A y \in S : ~ (<<y, x>> \in OpToRel(<, Nat))
  BY NatLessThanWellFounded, WFMin
<1>2. ASSUME NEW y \in S PROVE x <= y
  <2>1. <<y, x>> \in Nat \X Nat /\ <<y, x>> \notin OpToRel(<, Nat)
    BY <1>1
  <2>2. ~ (y < x)
    BY <2>1 DEF OpToRel
  <2> QED
    BY <2>2
<1> QED
  BY <1>2 DEF Min

\* The head of the inbox is taken off.
LEMMA ReceivedFacts ==
    ASSUME LogTypeOK, NEW cmd, Received(cmd)
    PROVE  /\ Len(inbox) \in Nat /\ Len(inbox) > 0
           /\ Head(inbox) = inbox[1] /\ inbox[1] \in Request /\ inbox[1].cmd = cmd
           /\ inbox' \in Seq(Request) /\ Len(inbox') = Len(inbox) - 1
           /\ \A i \in 1 .. Len(inbox') : inbox'[i] = inbox[i + 1]
<1>1. inbox \in Seq(Request) /\ inbox # <<>> /\ inbox' = Tail(inbox)
  BY DEF LogTypeOK, Received
<1>2. Len(inbox) \in Nat /\ Len(inbox) > 0
  BY <1>1, EmptySeq
<1>3. /\ Head(inbox) = inbox[1] /\ inbox[1] \in Request
      /\ inbox' \in Seq(Request) /\ Len(inbox') = Len(inbox) - 1
      /\ \A i \in 1 .. Len(inbox') : inbox'[i] = inbox[i + 1]
  BY <1>1, <1>2, HeadTailProperties
<1> QED
  BY <1>2, <1>3 DEF Received

LEMMA OpensTail ==
    ASSUME LogTypeOK, NEW cmd, Received(cmd), NEW i \in Opens'
    PROVE  i + 1 \in Opens /\ inbox'[i] = inbox[i + 1]
BY ReceivedFacts DEF Opens

\* A request for a file, at the head of the inbox.
LEMMA OpenHead ==
    ASSUME LogTypeOK, Asked, Received("open")
    PROVE  /\ 1 \in Opens /\ Head(inbox) = inbox[1]
           /\ inbox[1].file \in Days /\ inbox[1].from \in Coroutines
           /\ AppenderOf[inbox[1].from] \in Appenders
           /\ waiting[inbox[1].from] = inbox[1].file
<1>1. 1 \in Opens /\ Head(inbox) = inbox[1] /\ inbox[1] \in Request /\ inbox[1].cmd = "open"
  BY ReceivedFacts DEF Opens
<1>2. inbox[1].file \in Days /\ inbox[1].from \in Coroutines
  BY <1>1 DEF Request
<1> QED
  BY <1>1, <1>2, LoggerAssumption DEF Asked

LEMMA OpenTypes ==
    ASSUME LogTypeOK, NEW i \in Opens
    PROVE  inbox[i].file \in Days /\ inbox[i].from \in Coroutines
<1>1. inbox[i] \in Request /\ inbox[i].cmd = "open"
  BY DEF LogTypeOK, Opens
<1> QED
  BY <1>1 DEF Request

LEMMA FilenameType ==
    ASSUME LogInv, NEW a \in Appenders
    PROVE  log[a].filename \in Nat
<1>1. log[a].filename \in Days \cup {None}
  BY DEF LogInv, LogTypeOK
<1>2. None \in Nat
  BY DEF None
<1> QED
  BY <1>1, <1>2, DayFacts

LEMMA ReplyTypes ==
    ASSUME LogInv, NEW a \in Appenders, NEW i \in 1 .. Len(replies[a])
    PROVE  /\ replies[a][i].to \in Coroutines
           /\ replies[a][i].handle \in LogHandles \cup {None}
<1>1. replies[a] \in Seq(Reply)
  BY DEF LogInv, LogTypeOK
<1>2. replies[a][i] \in Reply
  BY <1>1
<1> QED
  BY <1>2 DEF Reply

\* A message is taken off the inbox, and no reply comes or goes.
LEMMA TailKeeps ==
    ASSUME LogInv, NEW cmd, Received(cmd), waiting' = waiting, replies' = replies
    PROVE  Asked' /\ AskedOnce'
<1>1. Asked'
  BY OpensTail DEF LogInv, Asked
<1>2. \A i \in Opens' : i \in Int /\ i + 1 \in Opens /\ inbox'[i] = inbox[i + 1]
  BY OpensTail DEF LogInv, Opens
<1>3. ASSUME NEW i \in Opens', NEW j \in Opens', inbox'[i].from = inbox'[j].from
      PROVE  i = j
  <2>1. i + 1 = j + 1
    BY <1>2, <1>3 DEF LogInv, AskedOnce
  <2> QED
    BY <1>2, <2>1
<1>4. AskedOnce'
  BY <1>2, <1>3 DEF LogInv, AskedOnce
<1> QED
  BY <1>1, <1>4

\* Where a coroutine that finds the date changed leaves the inbox.
LEMMA AppendTo ==
    ASSUME NEW S, NEW q \in Seq(S), NEW x \in S, NEW n \in Nat, n = Len(q)
    PROVE  /\ Append(q, x) \in Seq(S) /\ Len(Append(q, x)) = n + 1
           /\ \A i \in 1 .. n : Append(q, x)[i] = q[i]
           /\ Append(q, x)[n + 1] = x
BY AppendProperties

LEMMA ChangedInbox ==
    ASSUME LogInv, NEW c \in Coroutines, change_date(c)
    PROVE  LET l == log[AppenderOf[c]] IN
           /\ inbox' \in Seq(Request)
           /\ \E k \in 0 .. 1 :
                 /\ Len(inbox') = Len(inbox) + k + 1
                 /\ \A i \in 1 .. Len(inbox) : inbox'[i] = inbox[i]
                 /\ inbox'[Len(inbox) + k + 1] = [cmd |-> "open", file |-> today, from |-> c]
                 /\ l.handle # None =>
                       k = 1 /\ inbox'[Len(inbox) + 1] = [cmd |-> "close", file |-> l.filename]
                 /\ l.handle = None => k = 0
<1> DEFINE l == log[AppenderOf[c]]
           o == [cmd |-> "open", file |-> today, from |-> c]
           x == [cmd |-> "close", file |-> l.filename]
<1>1. inbox \in Seq(Request) /\ o \in Request /\ AppenderOf[c] \in Appenders
  BY LoggerAssumption DEF LogInv, LogTypeOK, Request
<1>6. inbox' = inbox \o CloseOld(l) \o <<o>>
  BY DEF change_date
<1>2. l.handle # None => x \in Request
  BY <1>1 DEF LogInv, LogTypeOK, HandleOfLog, Request
<1>3. PICK n \in Nat : n = Len(inbox)
  BY <1>1
<1> HIDE DEF o, x
<1>4. CASE l.handle = None
  <2>1. inbox' = Append(inbox, o)
    <3>1. CloseOld(l) = <<>> /\ inbox \o <<>> = inbox
      BY <1>1, <1>4, ConcatEmptySeq DEF CloseOld
    <3> QED
      BY <1>1, <1>6, <3>1, AppendIsConcat
  <2>2. /\ inbox' \in Seq(Request) /\ Len(inbox') = n + 1
        /\ \A i \in 1 .. n : inbox'[i] = inbox[i]
        /\ inbox'[n + 1] = o
    BY <1>1, <1>3, <2>1, AppendTo
  <2> QED
    BY <1>3, <1>4, <2>2 DEF o
<1>5. CASE l.handle # None
  <2> DEFINE m == Append(inbox, x)
  <2>1. inbox' = Append(m, o) /\ m \in Seq(Request)
    <3>1. CloseOld(l) = <<x>> /\ inbox \o <<x>> = m /\ m \in Seq(Request)
      BY <1>1, <1>2, <1>5, AppendIsConcat, AppendProperties DEF CloseOld, x
    <3> QED
      BY <1>1, <1>6, <3>1, AppendIsConcat
  <2>2. /\ Len(m) = n + 1
        /\ \A i \in 1 .. n : m[i] = inbox[i]
        /\ m[n + 1] = x
    BY <1>1, <1>2, <1>3, <1>5, AppendProperties
  <2> HIDE DEF m
  <2>3. /\ inbox' \in Seq(Request) /\ Len(inbox') = n + 2
        /\ \A i \in 1 .. n + 1 : inbox'[i] = m[i]
        /\ inbox'[n + 2] = o
    <3>1. (n + 1) + 1 = n + 2 /\ n + 1 \in Nat
      OBVIOUS
    <3> QED
      BY <1>1, <2>1, <2>2, <3>1, AppendTo
  <2>4. (\A i \in 1 .. n : inbox'[i] = inbox[i]) /\ inbox'[n + 1] = x
    BY <2>2, <2>3
  <2> QED
    BY <1>3, <1>5, <2>3, <2>4 DEF o, x
<1> QED
  BY <1>4, <1>5

\* Old requests and the new one.
LEMMA OpensChanged ==
    ASSUME LogInv, NEW c \in Coroutines, change_date(c), NEW i \in Opens'
    PROVE  \/ i \in Opens /\ inbox'[i] = inbox[i]
           \/ i = Len(inbox') /\ inbox'[i].from = c /\ inbox'[i].file = today
<1> DEFINE n == Len(inbox)
<1>1. PICK k \in 0 .. 1 :
         /\ Len(inbox') = n + k + 1
         /\ \A j \in 1 .. n : inbox'[j] = inbox[j]
         /\ inbox'[n + k + 1] = [cmd |-> "open", file |-> today, from |-> c]
         /\ log[AppenderOf[c]].handle # None =>
               k = 1 /\ inbox'[n + 1] = [cmd |-> "close", file |-> log[AppenderOf[c]].filename]
         /\ log[AppenderOf[c]].handle = None => k = 0
  BY ChangedInbox
<1>2. n \in Nat /\ i \in 1 .. Len(inbox') /\ inbox'[i].cmd = "open"
  BY DEF LogInv, LogTypeOK, Opens
<1>3. CASE i \in 1 .. n
  BY <1>1, <1>2, <1>3 DEF Opens
<1>4. CASE i = n + k + 1
  BY <1>1, <1>4
<1>5. CASE i = n + 1 /\ k = 1
  BY <1>1, <1>2, <1>5
<1>6. i \in 1 .. n \/ i = n + k + 1 \/ (i = n + 1 /\ k = 1)
  BY <1>1, <1>2
<1> QED
  BY <1>3, <1>4, <1>5, <1>6

\* Nobody who does not wait has asked or is answered.
LEMMA NotWaiting ==
    ASSUME LogInv, NEW c \in Coroutines, waiting[c] = None
    PROVE  /\ \A i \in Opens : inbox[i].from # c
           /\ \A a \in Appenders : \A i \in 1 .. Len(replies[a]) : replies[a][i].to # c
BY OpenTypes, DayFacts DEF LogInv, Asked, Answered

LEMMA ChangeLog ==
    ASSUME LogInv, NEW c \in Coroutines, change_date(c)
    PROVE  LogInv'
<1> DEFINE a == AppenderOf[c]
           l == log[a]
<1>1. /\ waiting[c] = None /\ a \in Appenders /\ today \in Days
      /\ waiting' = [waiting EXCEPT ![c] = today]
      /\ log' = [log EXCEPT ![a] = [l EXCEPT !.filename = today]]
      /\ today' = today /\ replies' = replies /\ LOGGER' = LOGGER /\ files' = files
      /\ mail' = mail
  BY LoggerAssumption DEF change_date, NewFile, LogInv, LogTypeOK
<1>2. /\ \A x \in Coroutines : waiting'[x] = IF x = c THEN today ELSE waiting[x]
      /\ \A b \in Appenders :
            log'[b].handle = log[b].handle /\ log'[b].date = log[b].date
            /\ log'[b].filename = IF b = a THEN today ELSE log[b].filename
  BY <1>1 DEF LogInv, LogTypeOK
<1>3. LogTypeOK'
  <2>1. inbox' \in Seq(Request)
    BY ChangedInbox
  <2>2. abandoned' \subseteq Days
    <3>1. OpensUnderWay(a) \subseteq Days
      BY DEF LogInv, LogTypeOK, OpensUnderWay
    <3> QED
      BY <3>1 DEF change_date, LogInv, LogTypeOK
  <2>3. waiting' \in [Coroutines -> Days \cup {None}]
    BY <1>1 DEF LogInv, LogTypeOK
  <2>4. log' \in [Appenders -> [handle: LogHandles \cup {None}, filename: Days \cup {None},
                                date: Days \cup {None}]]
    <3>1. l \in [handle: LogHandles \cup {None}, filename: Days \cup {None},
                  date: Days \cup {None}]
      BY <1>1 DEF LogInv, LogTypeOK
    <3> HIDE DEF l
    <3>2. [l EXCEPT !.filename = today] \in
             [handle: LogHandles \cup {None}, filename: Days \cup {None}, date: Days \cup {None}]
      BY <1>1, <3>1
    <3> QED
      BY <1>1, <3>2 DEF LogInv, LogTypeOK
  <2> QED
    BY <1>1, <2>1, <2>2, <2>3, <2>4 DEF LogInv, LogTypeOK
<1>4. Asked'
  <2> SUFFICES ASSUME NEW i \in Opens' PROVE waiting'[inbox'[i].from] = inbox'[i].file
    BY DEF Asked
  <2>1. CASE i \in Opens /\ inbox'[i] = inbox[i]
    BY <1>1, <1>2, <2>1, NotWaiting, OpenTypes DEF LogInv, Asked
  <2>2. CASE inbox'[i].from = c /\ inbox'[i].file = today
    BY <1>2, <2>2
  <2> QED
    BY <2>1, <2>2, OpensChanged
<1>5. Answered'
  <2> SUFFICES ASSUME NEW b \in Appenders, NEW i \in 1 .. Len(replies[b])
               PROVE  LET r == replies[b][i] IN
                      /\ AppenderOf[r.to] = b /\ waiting'[r.to] # None
                      /\ r.handle # None => files[r.handle] \in {None, waiting'[r.to]}
    BY <1>1 DEF Answered
  <2>1. replies[b][i].to # c /\ replies[b][i].to \in Coroutines
    BY <1>1, NotWaiting, ReplyTypes
  <2> QED
    BY <1>2, <2>1 DEF LogInv, Answered
<1>6. AskedOnce'
  <2>1. ASSUME NEW i \in Opens', NEW j \in Opens', inbox'[i].from = inbox'[j].from PROVE i = j
    <3>1. \/ i \in Opens /\ inbox'[i] = inbox[i]
          \/ i = Len(inbox') /\ inbox'[i].from = c /\ inbox'[i].file = today
      BY OpensChanged
    <3>2. \/ j \in Opens /\ inbox'[j] = inbox[j]
          \/ j = Len(inbox') /\ inbox'[j].from = c /\ inbox'[j].file = today
      BY OpensChanged
    <3> QED
      BY <1>1, <2>1, <3>1, <3>2, NotWaiting DEF LogInv, AskedOnce
  <2>2. ASSUME NEW i \in Opens', NEW b \in Appenders, NEW k \in 1 .. Len(replies[b])
        PROVE  replies[b][k].to # inbox'[i].from
    <3>1. \/ i \in Opens /\ inbox'[i] = inbox[i]
          \/ i = Len(inbox') /\ inbox'[i].from = c /\ inbox'[i].file = today
      BY OpensChanged
    <3> QED
      BY <1>1, <3>1, NotWaiting DEF LogInv, AskedOnce
  <2> QED
    BY <1>1, <2>1, <2>2 DEF LogInv, AskedOnce
<1>7. FileOfHandle' /\ LineInItsFile'
  BY <1>1 DEF LogInv, FileOfHandle, LineInItsFile
<1>8. HandleOfLog'
  BY <1>1, <1>2, DayFacts DEF LogInv, HandleOfLog
<1>9. DatesPast'
  <2>1. ASSUME NEW x \in Coroutines PROVE waiting'[x] <= log'[AppenderOf[x]].filename
    <3>1. AppenderOf[x] \in Appenders
      BY LoggerAssumption
    <3>2. waiting[x] \in Nat /\ log[AppenderOf[x]].filename \in Nat /\ today \in Nat
      BY <1>1, <3>1, DayFacts DEF LogInv, LogTypeOK, None
    <3>3. waiting[x] <= log[AppenderOf[x]].filename /\ log[AppenderOf[x]].filename <= today
      BY <3>1 DEF LogInv, DatesPast
    <3> QED
      BY <1>2, <3>1, <3>2, <3>3
  <2>2. \A b \in Appenders : log'[b].filename <= today
    BY <1>1, <1>2, DayFacts DEF LogInv, DatesPast
  <2> QED
    BY <1>1, <2>1, <2>2 DEF DatesPast
<1> QED
  BY <1>3, <1>4, <1>5, <1>6, <1>7, <1>8, <1>9 DEF LogInv

\* A line is lost or reaches the file of its day.
LEMMA SentLine ==
    ASSUME LogInv, NEW h \in LogHandles \cup {None}, NEW d \in Days, d <= today,
           h # None => files[h] \in {None, d}
    PROVE  LET m == Sent(h, [day |-> d, stamp |-> today]) IN
           /\ m \in [LogHandles -> SUBSET Line]
           /\ \A k \in LogHandles : \A line \in m[k] :
                 files[k] = line.day /\ line.day <= line.stamp
<1> DEFINE n == [day |-> d, stamp |-> today]
<1>1. n \in Line /\ mail \in [LogHandles -> SUBSET Line]
  BY DEF LogInv, LogTypeOK, Line
<1>2. \A k \in LogHandles : \A line \in mail[k] : files[k] = line.day /\ line.day <= line.stamp
  BY DEF LogInv, LineInItsFile
<1>3. CASE h # None /\ files[h] # None
  <2>1. Sent(h, n) = [mail EXCEPT ![h] = @ \cup {n}] /\ h \in LogHandles /\ files[h] = d
    BY <1>3 DEF Sent
  <2>2. n.day = d /\ n.stamp = today
    OBVIOUS
  <2> HIDE DEF n
  <2>3. Sent(h, n) \in [LogHandles -> SUBSET Line]
    BY <1>1, <2>1
  <2>4. \A k \in LogHandles : Sent(h, n)[k] = IF k = h THEN mail[k] \cup {n} ELSE mail[k]
    BY <1>1, <2>1
  <2> QED
    BY <1>2, <2>1, <2>2, <2>3, <2>4 DEF n
<1>4. CASE ~(h # None /\ files[h] # None)
  BY <1>1, <1>2, <1>4 DEF Sent
<1> QED
  BY <1>3, <1>4

LEMMA AppendLog ==
    ASSUME LogInv, NEW c \in Coroutines, append_line(c)
    PROVE  LogInv'
<1> DEFINE l == log[AppenderOf[c]]
<1>1. /\ AppenderOf[c] \in Appenders /\ l.handle \in LogHandles \cup {None} /\ l.date = today
      /\ today \in Days /\ today <= today
      /\ mail' = Sent(l.handle, [day |-> today, stamp |-> today])
      /\ UNCHANGED <<today, log, waiting, inbox, replies, LOGGER, files, abandoned>>
  BY LoggerAssumption, DayFacts DEF append_line, LogInv, LogTypeOK
<1>2. l.handle # None => files[l.handle] \in {None, today}
  BY <1>1 DEF LogInv, HandleOfLog
<1>3. /\ mail' \in [LogHandles -> SUBSET Line]
      /\ \A k \in LogHandles : \A line \in mail'[k] :
            files[k] = line.day /\ line.day <= line.stamp
  BY <1>1, <1>2, SentLine
<1>4. LogTypeOK' /\ LineInItsFile'
  BY <1>1, <1>3 DEF LogInv, LogTypeOK, LineInItsFile
<1>5. Asked' /\ Answered' /\ AskedOnce' /\ FileOfHandle' /\ HandleOfLog' /\ DatesPast'
  BY <1>1 DEF LogInv, Asked, Opens, Answered, AskedOnce, FileOfHandle, HandleOfLog, DatesPast
<1> QED
  BY <1>4, <1>5 DEF LogInv

\* The reply at the head goes to c, and to no other coroutine.
LEMMA ReplyHead ==
    ASSUME LogInv, NEW c \in Coroutines, date_changed(c)
    PROVE  LET a == AppenderOf[c]
               r == Head(replies[a])
           IN  /\ a \in Appenders /\ Len(replies[a]) \in Nat /\ Len(replies[a]) > 0
               /\ r = replies[a][1] /\ r.to = c /\ r.handle \in LogHandles \cup {None}
               /\ waiting[c] \in Days
               /\ r.handle # None => files[r.handle] \in {None, waiting[c]}
               /\ replies' \in [Appenders -> Seq(Reply)]
               /\ Len(replies'[a]) = Len(replies[a]) - 1
               /\ \A i \in 1 .. Len(replies'[a]) : replies'[a][i] = replies[a][i + 1]
               /\ \A b \in Appenders \ {a} : replies'[b] = replies[b]
               /\ \A i \in Opens : inbox[i].from # c
               /\ \A b \in Appenders : \A i \in 1 .. Len(replies'[b]) : replies'[b][i].to # c
<1> DEFINE a == AppenderOf[c]
           q == replies[a]
<1>1. a \in Appenders /\ q \in Seq(Reply) /\ q # <<>> /\ Head(q).to = c
      /\ replies \in [Appenders -> Seq(Reply)] /\ replies' = [replies EXCEPT ![a] = Tail(q)]
  BY LoggerAssumption DEF LogInv, LogTypeOK, date_changed
<1>2. Len(q) \in Nat /\ Len(q) > 0
  BY <1>1, EmptySeq
<1>3. Head(q) = q[1] /\ Tail(q) \in Seq(Reply) /\ Len(Tail(q)) = Len(q) - 1
      /\ \A i \in 1 .. Len(Tail(q)) : Tail(q)[i] = q[i + 1]
  BY <1>1, <1>2, HeadTailProperties
<1>4. replies' \in [Appenders -> Seq(Reply)] /\ replies'[a] = Tail(q)
      /\ \A b \in Appenders \ {a} : replies'[b] = replies[b]
  BY <1>1, <1>3
<1>5. 1 \in 1 .. Len(q)
  BY <1>2
<1>6. q[1].to = c /\ q[1].handle \in LogHandles \cup {None}
      /\ waiting[c] # None /\ (q[1].handle # None => files[q[1].handle] \in {None, waiting[c]})
  BY <1>1, <1>3, <1>5, ReplyTypes DEF LogInv, Answered
<1>7. waiting[c] \in Days
  BY <1>6 DEF LogInv, LogTypeOK
<1>8. \A i \in Opens : inbox[i].from # c
  BY <1>1, <1>5, <1>6 DEF LogInv, AskedOnce
<1>9. ASSUME NEW b \in Appenders, NEW i \in 1 .. Len(replies'[b]) PROVE replies'[b][i].to # c
  <2>1. CASE b = a
    <3>2. replies'[b] = Tail(q) /\ i \in 1 .. Len(Tail(q))
      BY <1>4, <2>1
    <3>1. i + 1 \in 1 .. Len(q) /\ i + 1 # 1 /\ replies'[b][i] = q[i + 1]
      BY <1>2, <1>3, <3>2
    <3> QED
      BY <1>1, <1>5, <1>6, <3>1 DEF LogInv, AskedOnce
  <2>2. CASE b # a
    BY <1>4, <2>2 DEF LogInv, Answered
  <2> QED
    BY <2>1, <2>2
<1> QED
  BY <1>1, <1>2, <1>3, <1>4, <1>6, <1>7, <1>8, <1>9

LEMMA ChangedLog ==
    ASSUME LogInv, NEW c \in Coroutines, date_changed(c)
    PROVE  LogInv'
<1> DEFINE a == AppenderOf[c]
           r == Head(replies[a])
           w == waiting[c]
<1>1. /\ a \in Appenders /\ r.handle \in LogHandles \cup {None} /\ w \in Days
      /\ r.handle # None => files[r.handle] \in {None, w}
      /\ replies' \in [Appenders -> Seq(Reply)]
      /\ Len(replies[a]) \in Nat /\ Len(replies'[a]) = Len(replies[a]) - 1
      /\ \A i \in 1 .. Len(replies'[a]) : replies'[a][i] = replies[a][i + 1]
      /\ \A b \in Appenders \ {a} : replies'[b] = replies[b]
      /\ \A i \in Opens : inbox[i].from # c
      /\ \A b \in Appenders : \A i \in 1 .. Len(replies'[b]) : replies'[b][i].to # c
  BY ReplyHead
<1>2. /\ waiting' = [waiting EXCEPT ![c] = None]
      /\ log' = [log EXCEPT ![a].handle = r.handle, ![a].date = w]
      /\ mail' = Sent(r.handle, [day |-> w, stamp |-> today])
      /\ UNCHANGED <<today, inbox, LOGGER, files, abandoned>>
  BY DEF date_changed
<1>3. w <= log[a].filename /\ log[a].filename <= today /\ w <= today
      /\ today \in Nat /\ w \in Nat /\ log[a].filename \in Nat
  <2>0. today \in Days /\ w \in Days /\ log[a].filename \in Days \cup {None}
    BY <1>1 DEF LogInv, LogTypeOK
  <2>3. Days \subseteq Nat /\ None \in Nat
    BY DayFacts DEF None
  <2>1. today \in Nat /\ w \in Nat /\ log[a].filename \in Nat
    BY <2>0, <2>3
  <2>2. w <= log[a].filename /\ log[a].filename <= today
    BY <1>1 DEF LogInv, DatesPast
  <2> QED
    BY <2>1, <2>2
<1>4. /\ \A x \in Coroutines : waiting'[x] = IF x = c THEN None ELSE waiting[x]
      /\ \A b \in Appenders :
            /\ log'[b].filename = log[b].filename
            /\ log'[b].handle = IF b = a THEN r.handle ELSE log[b].handle
            /\ log'[b].date = IF b = a THEN w ELSE log[b].date
      /\ log' \in [Appenders -> [handle: LogHandles \cup {None}, filename: Days \cup {None},
                                 date: Days \cup {None}]]
      /\ waiting' \in [Coroutines -> Days \cup {None}]
  <2>1. log \in [Appenders -> [handle: LogHandles \cup {None}, filename: Days \cup {None},
                               date: Days \cup {None}]]
        /\ waiting \in [Coroutines -> Days \cup {None}]
    BY DEF LogInv, LogTypeOK
  <2> HIDE DEF a, r, w
  <2>2. /\ \A x \in Coroutines : waiting'[x] = IF x = c THEN None ELSE waiting[x]
        /\ waiting' \in [Coroutines -> Days \cup {None}]
    BY <1>2, <2>1
  <2> DEFINE l == [log[a] EXCEPT !.handle = r.handle, !.date = w]
  <2>3. /\ l \in [handle: LogHandles \cup {None}, filename: Days \cup {None},
                  date: Days \cup {None}]
        /\ l.filename = log[a].filename /\ l.handle = r.handle /\ l.date = w
    BY <1>1, <2>1
  <2>4. log' = [log EXCEPT ![a] = l]
    BY <1>2
  <2> HIDE DEF l
  <2> QED
    BY <1>1, <2>1, <2>2, <2>3, <2>4
<1>5. /\ mail' \in [LogHandles -> SUBSET Line]
      /\ \A k \in LogHandles : \A line \in mail'[k] :
            files[k] = line.day /\ line.day <= line.stamp
  BY <1>1, <1>2, <1>3, SentLine
<1> HIDE DEF a, r, w
<1>6. LogTypeOK' /\ LineInItsFile'
  BY <1>1, <1>2, <1>4, <1>5 DEF LogInv, LogTypeOK, LineInItsFile
<1>7. Asked'
  BY <1>1, <1>2, <1>4, OpenTypes DEF LogInv, Asked, Opens
<1>8. ASSUME NEW b \in Appenders, NEW i \in 1 .. Len(replies'[b])
      PROVE  \E k \in 1 .. Len(replies[b]) :
                replies'[b][i] = replies[b][k] /\ k = IF b = a THEN i + 1 ELSE i
  BY <1>1
<1>9. Answered'
  <2> SUFFICES ASSUME NEW b \in Appenders, NEW i \in 1 .. Len(replies'[b])
               PROVE  LET x == replies'[b][i] IN
                      /\ AppenderOf[x.to] = b /\ waiting'[x.to] # None
                      /\ x.handle # None => files[x.handle] \in {None, waiting'[x.to]}
    BY <1>2 DEF Answered
  <2>1. PICK k \in 1 .. Len(replies[b]) : replies'[b][i] = replies[b][k]
    BY <1>8
  <2>2. replies[b][k].to \in Coroutines /\ replies[b][k].to # c
    BY <1>1, <2>1, ReplyTypes
  <2> QED
    BY <1>4, <2>1, <2>2 DEF LogInv, Answered
<1>10. AskedOnce'
  <2>1. Opens' = Opens
    BY <1>2 DEF Opens
  <2>2. ASSUME NEW b \in Appenders, NEW i \in 1 .. Len(replies'[b]),
               NEW j \in 1 .. Len(replies'[b]), replies'[b][i].to = replies'[b][j].to
        PROVE  i = j
    <3>1. PICK k \in 1 .. Len(replies[b]) :
             replies'[b][i] = replies[b][k] /\ k = IF b = a THEN i + 1 ELSE i
      BY <1>8
    <3>2. PICK m \in 1 .. Len(replies[b]) :
             replies'[b][j] = replies[b][m] /\ m = IF b = a THEN j + 1 ELSE j
      BY <1>8
    <3>3. k = m
      BY <2>2, <3>1, <3>2 DEF LogInv, AskedOnce
    <3> QED
      BY <3>1, <3>2, <3>3
  <2>3. ASSUME NEW i \in Opens, NEW b \in Appenders, NEW j \in 1 .. Len(replies'[b])
        PROVE  replies'[b][j].to # inbox[i].from
    BY <1>8 DEF LogInv, AskedOnce
  <2> QED
    BY <1>2, <2>1, <2>2, <2>3 DEF LogInv, AskedOnce
<1>11. FileOfHandle'
  BY <1>2 DEF LogInv, FileOfHandle
<1>12. HandleOfLog'
  <2>1. log[a].filename # None
    BY <1>1, <1>3 DEF Days, None
  <2> QED
    BY <1>1, <1>2, <1>4, <2>1 DEF LogInv, HandleOfLog
<1>13. DatesPast'
  <2>1. \A b \in Appenders : log[b].filename \in Nat
    BY FilenameType
  <2> QED
    BY <1>2, <1>4, <2>1, LoggerAssumption DEF LogInv, DatesPast, None
<1> QED
  BY <1>6, <1>7, <1>9, <1>10, <1>11, <1>12, <1>13 DEF LogInv

\* A request is answered: the rest of the invariant has to be shown of the files.
LEMMA AnswerLog ==
    ASSUME LogInv, Received("open"), NEW h \in LogHandles \cup {None}, Answer(h),
           UNCHANGED <<today, log, waiting, abandoned>>,
           files' \in [LogHandles -> Days \cup {None}],
           h # None => files'[h] \in {None, inbox[1].file},
           \A k \in LogHandles \cap Known : files'[k] = files[k]
    PROVE  /\ inbox' \in Seq(Request) /\ replies' \in [Appenders -> Seq(Reply)]
           /\ Asked' /\ Answered' /\ AskedOnce' /\ HandleOfLog' /\ DatesPast'
<1> DEFINE c == inbox[1].from
           a == AppenderOf[c]
           n == [to |-> c, handle |-> h]
<1>1. /\ 1 \in Opens /\ c \in Coroutines /\ a \in Appenders /\ inbox[1].file \in Days
      /\ waiting[c] = inbox[1].file
      /\ replies' = [replies EXCEPT ![a] = Append(@, n)]
  BY OpenHead DEF LogInv, Answer
<1>2. n \in Reply /\ n.to = c /\ n.handle = h /\ replies \in [Appenders -> Seq(Reply)]
  BY <1>1 DEF Reply, LogInv, LogTypeOK
<1>3. inbox' \in Seq(Request)
      /\ \A i \in Opens' : i \in Int /\ i > 0 /\ i + 1 \in Opens /\ inbox'[i] = inbox[i + 1]
  BY ReceivedFacts, OpensTail DEF LogInv, Opens
<1> HIDE DEF n, c
<1>4. PICK m \in Nat : m = Len(replies[a])
  BY <1>1, <1>2
<1>5. /\ replies' \in [Appenders -> Seq(Reply)]
      /\ Len(replies'[a]) = m + 1
      /\ \A i \in 1 .. m : replies'[a][i] = replies[a][i]
      /\ replies'[a][m + 1] = n
      /\ \A b \in Appenders \ {a} : replies'[b] = replies[b]
  <2>1. Append(replies[a], n) \in Seq(Reply) /\ Len(Append(replies[a], n)) = m + 1
        /\ (\A i \in 1 .. m : Append(replies[a], n)[i] = replies[a][i])
        /\ Append(replies[a], n)[m + 1] = n
    BY <1>1, <1>2, <1>4, AppendTo
  <2> QED
    BY <1>1, <1>2, <2>1
<1>6. ASSUME NEW b \in Appenders, NEW i \in 1 .. Len(replies'[b])
      PROVE  \/ i \in 1 .. Len(replies[b]) /\ replies'[b][i] = replies[b][i]
             \/ b = a /\ i = m + 1 /\ replies'[b][i] = n
  BY <1>4, <1>5
<1>7. \A i \in Opens' : inbox'[i].from # c
  <2> SUFFICES ASSUME NEW i \in Opens' PROVE inbox'[i].from # c
    OBVIOUS
  <2>1. i + 1 \in Opens /\ i + 1 # 1 /\ inbox'[i] = inbox[i + 1]
    BY <1>3
  <2> QED
    BY <1>1, <2>1 DEF LogInv, AskedOnce, c
<1>8. \A b \in Appenders : \A i \in 1 .. Len(replies[b]) : replies[b][i].to # c
  BY <1>1 DEF LogInv, AskedOnce, c
<1>9. Asked'
  BY <1>3 DEF LogInv, Asked
<1>10. Answered'
  <2> SUFFICES ASSUME NEW b \in Appenders, NEW i \in 1 .. Len(replies'[b])
               PROVE  LET x == replies'[b][i] IN
                      /\ AppenderOf[x.to] = b /\ waiting[x.to] # None
                      /\ x.handle # None => files'[x.handle] \in {None, waiting[x.to]}
    BY DEF Answered
  <2>1. CASE i \in 1 .. Len(replies[b]) /\ replies'[b][i] = replies[b][i]
    <3>1. replies[b][i].handle \in Known /\ replies[b][i].handle \in LogHandles \cup {None}
      BY <2>1, ReplyTypes DEF Known
    <3> QED
      BY <2>1, <3>1 DEF LogInv, Answered
  <2>2. CASE b = a /\ replies'[b][i] = n
    BY <1>1, <1>2, <2>2, DayFacts
  <2> QED
    BY <1>6, <2>1, <2>2
<1>11. AskedOnce'
  <2>1. ASSUME NEW i \in Opens', NEW j \in Opens', inbox'[i].from = inbox'[j].from PROVE i = j
    <3>1. i + 1 = j + 1
      BY <1>3, <2>1 DEF LogInv, AskedOnce
    <3> QED
      BY <1>3, <3>1
  <2>2. ASSUME NEW i \in Opens', NEW b \in Appenders, NEW k \in 1 .. Len(replies'[b])
        PROVE  replies'[b][k].to # inbox'[i].from
    <3>1. CASE k \in 1 .. Len(replies[b]) /\ replies'[b][k] = replies[b][k]
      BY <1>3, <3>1 DEF LogInv, AskedOnce
    <3>2. CASE replies'[b][k] = n
      BY <1>2, <1>7, <3>2
    <3> QED
      BY <1>6, <3>1, <3>2
  <2>3. ASSUME NEW b \in Appenders, NEW i \in 1 .. Len(replies'[b]),
               NEW k \in 1 .. Len(replies'[b]), replies'[b][i].to = replies'[b][k].to
        PROVE  i = k
    <3> DEFINE Old(x) == x \in 1 .. Len(replies[b]) /\ replies'[b][x] = replies[b][x]
               New(x) == b = a /\ x = m + 1 /\ replies'[b][x] = n
    <3>1. (Old(i) \/ New(i)) /\ (Old(k) \/ New(k))
      BY <1>6
    <3>2. ASSUME NEW x \in {i, k}, NEW y \in {i, k}, Old(x), New(y) PROVE FALSE
      <4>1. replies'[b][x].to # c
        BY <1>8, <3>2
      <4>2. replies'[b][y].to = c
        BY <1>2, <3>2
      <4> QED
        BY <2>3, <4>1, <4>2
    <3>3. CASE Old(i) /\ Old(k)
      <4>1. replies[b][i].to = replies[b][k].to
        BY <2>3, <3>3
      <4> QED
        BY <3>3, <4>1 DEF LogInv, AskedOnce
    <3>4. CASE New(i) /\ New(k)
      BY <3>4
    <3> QED
      BY <3>1, <3>2, <3>3, <3>4
  <2> QED
    BY <2>1, <2>2, <2>3 DEF AskedOnce
<1>12. HandleOfLog'
  <2> SUFFICES ASSUME NEW b \in Appenders, log[b].handle # None
               PROVE  log[b].filename # None /\ files'[log[b].handle] \in {None, log[b].date}
    BY DEF HandleOfLog
  <2>1. log[b].handle \in LogHandles \cap Known
    BY DEF LogInv, LogTypeOK, Known
  <2> QED
    BY <2>1 DEF LogInv, HandleOfLog
<1>13. DatesPast'
  BY DEF LogInv, DatesPast
<1> QED
  BY <1>3, <1>5, <1>9, <1>10, <1>11, <1>12, <1>13

LEMMA ServeLog == ASSUME LogInv, Serve PROVE LogInv'
<1>1. CASE open_known
  <2> DEFINE h == LOGGER[Head(inbox).file]
  <2>1. /\ Received("open") /\ Answer(h) /\ h # None
        /\ UNCHANGED <<today, log, waiting, LOGGER, files, mail, abandoned>>
    BY <1>1 DEF open_known
  <2>2. Head(inbox).file \in Days /\ Head(inbox) = inbox[1]
    BY <2>1, OpenHead DEF LogInv
  <2>3. h \in LogHandles \cup {None} /\ files[h] = inbox[1].file
        /\ files' \in [LogHandles -> Days \cup {None}]
    BY <2>1, <2>2 DEF LogInv, LogTypeOK, FileOfHandle
  <2> HIDE DEF h
  <2>4. /\ inbox' \in Seq(Request) /\ replies' \in [Appenders -> Seq(Reply)]
        /\ Asked' /\ Answered' /\ AskedOnce' /\ HandleOfLog' /\ DatesPast'
    BY <2>1, <2>3, AnswerLog
  <2>5. LogTypeOK' /\ FileOfHandle' /\ LineInItsFile'
    BY <2>1, <2>4 DEF LogInv, LogTypeOK, FileOfHandle, LineInItsFile
  <2> QED
    BY <2>4, <2>5 DEF LogInv
<1>2. CASE jmlogger_init
  <2> DEFINE f == Head(inbox).file
             h == Min(Fresh)
  <2>1. /\ Received("open") /\ Answer(h) /\ LOGGER[f] = None /\ Fresh # {}
        /\ LOGGER' = [LOGGER EXCEPT ![f] = h] /\ files' = [files EXCEPT ![h] = f]
        /\ UNCHANGED <<today, log, waiting, mail, abandoned>>
    BY <1>2 DEF jmlogger_init
  <2>2. f \in Days /\ f = inbox[1].file
    BY <2>1, OpenHead DEF LogInv
  <2>3. h \in LogHandles /\ files[h] = None /\ h \notin Known
    <3>1. Fresh \subseteq Nat
      BY DayFacts DEF Fresh
    <3>2. h \in Fresh
      BY <2>1, <3>1, MinChosen
    <3> QED
      BY <3>2 DEF Fresh
  <2> HIDE DEF f, h
  <2>4. /\ files' \in [LogHandles -> Days \cup {None}]
        /\ LOGGER' \in [Days -> LogHandles \cup {None}]
        /\ \A k \in LogHandles : files'[k] = IF k = h THEN f ELSE files[k]
        /\ \A d \in Days : LOGGER'[d] = IF d = f THEN h ELSE LOGGER[d]
    BY <2>1, <2>2, <2>3 DEF LogInv, LogTypeOK
  <2>5. /\ inbox' \in Seq(Request) /\ replies' \in [Appenders -> Seq(Reply)]
        /\ Asked' /\ Answered' /\ AskedOnce' /\ HandleOfLog' /\ DatesPast'
    BY <2>1, <2>2, <2>3, <2>4, AnswerLog
  <2>6. LogTypeOK'
    BY <2>1, <2>4, <2>5 DEF LogInv, LogTypeOK
  <2>7. FileOfHandle'
    <3> SUFFICES ASSUME NEW d \in Days, LOGGER'[d] # None PROVE files'[LOGGER'[d]] = d
      BY DEF FileOfHandle
    <3>1. CASE d = f
      BY <2>3, <2>4, <3>1
    <3>2. CASE d # f
      <4>1. LOGGER'[d] = LOGGER[d] /\ LOGGER[d] \in LogHandles /\ files[LOGGER[d]] = d
        BY <2>4, <3>2 DEF LogInv, LogTypeOK, FileOfHandle
      <4> QED
        BY <2>3, <2>4, <4>1, DayFacts
    <3> QED
      BY <3>1, <3>2
  <2>8. LineInItsFile'
    <3> SUFFICES ASSUME NEW k \in LogHandles, NEW line \in mail[k]
                 PROVE  files'[k] = line.day /\ line.day <= line.stamp
      BY <2>1 DEF LineInItsFile
    <3>1. files[k] = line.day /\ line.day <= line.stamp
      BY DEF LogInv, LineInItsFile
    <3>2. line.day # None
      BY DayFacts DEF LogInv, LogTypeOK, Line
    <3> QED
      BY <2>3, <2>4, <3>1, <3>2
  <2> QED
    BY <2>5, <2>6, <2>7, <2>8 DEF LogInv
<1>3. CASE jmlogger_init_failed
  <2>1. /\ Received("open") /\ Answer(None)
        /\ UNCHANGED <<today, log, waiting, LOGGER, files, mail, abandoned>>
    BY <1>3 DEF jmlogger_init_failed
  <2>2. files' \in [LogHandles -> Days \cup {None}]
    BY <2>1 DEF LogInv, LogTypeOK
  <2>3. /\ inbox' \in Seq(Request) /\ replies' \in [Appenders -> Seq(Reply)]
        /\ Asked' /\ Answered' /\ AskedOnce' /\ HandleOfLog' /\ DatesPast'
    BY <2>1, <2>2, AnswerLog
  <2>4. LogTypeOK' /\ FileOfHandle' /\ LineInItsFile'
    BY <2>1, <2>3 DEF LogInv, LogTypeOK, FileOfHandle, LineInItsFile
  <2> QED
    BY <2>3, <2>4 DEF LogInv
<1>4. CASE close
  <2> DEFINE f == Head(inbox).file
             h == LOGGER[f]
  <2>1. /\ Received("close") /\ h # None
        /\ files' = [files EXCEPT ![h] = None] /\ mail' = [mail EXCEPT ![h] = {}]
        /\ LOGGER' = [LOGGER EXCEPT ![f] = None]
        /\ UNCHANGED <<today, log, waiting, replies, abandoned>>
    BY <1>4 DEF close, Killed
  <2>2. f \in Days
    <3>1. Head(inbox) \in Request
      BY <2>1, ReceivedFacts DEF LogInv
    <3> QED
      BY <3>1 DEF Request
  <2>3. h \in LogHandles /\ files[h] = f
    BY <2>1, <2>2 DEF LogInv, LogTypeOK, FileOfHandle
  <2> HIDE DEF f, h
  <2>4. /\ files' \in [LogHandles -> Days \cup {None}]
        /\ LOGGER' \in [Days -> LogHandles \cup {None}]
        /\ mail' \in [LogHandles -> SUBSET Line]
        /\ \A k \in LogHandles : files'[k] = IF k = h THEN None ELSE files[k]
        /\ \A k \in LogHandles : mail'[k] = IF k = h THEN {} ELSE mail[k]
        /\ \A d \in Days : LOGGER'[d] = IF d = f THEN None ELSE LOGGER[d]
    BY <2>1, <2>2, <2>3 DEF LogInv, LogTypeOK
  <2>5. inbox' \in Seq(Request)
    BY <2>1, ReceivedFacts DEF LogInv
  <2>6. LogTypeOK'
    BY <2>1, <2>4, <2>5 DEF LogInv, LogTypeOK
  <2>7. Asked' /\ AskedOnce'
    BY <2>1, TailKeeps
  <2>8. Answered'
    <3> SUFFICES ASSUME NEW a \in Appenders, NEW i \in 1 .. Len(replies[a])
                 PROVE  LET r == replies[a][i] IN
                        /\ AppenderOf[r.to] = a /\ waiting[r.to] # None
                        /\ r.handle # None => files'[r.handle] \in {None, waiting[r.to]}
      BY <2>1 DEF Answered
    <3>1. replies[a][i].handle \in LogHandles \cup {None}
      BY ReplyTypes
    <3> QED
      BY <2>4, <3>1 DEF LogInv, Answered
  <2>9. FileOfHandle' /\ LineInItsFile'
    <3>1. ASSUME NEW d \in Days, LOGGER'[d] # None PROVE files'[LOGGER'[d]] = d
      <4>1. d # f /\ LOGGER'[d] = LOGGER[d] /\ LOGGER[d] \in LogHandles
            /\ files[LOGGER[d]] = d
        BY <2>4, <3>1 DEF LogInv, LogTypeOK, FileOfHandle
      <4> QED
        BY <2>3, <2>4, <4>1
    <3>2. LineInItsFile'
      BY <2>4 DEF LogInv, LineInItsFile
    <3> QED
      BY <3>1, <3>2 DEF FileOfHandle
  <2>10. HandleOfLog' /\ DatesPast'
    <3>1. HandleOfLog'
      BY <2>1, <2>4 DEF LogInv, LogTypeOK, HandleOfLog
    <3> QED
      BY <2>1, <3>1 DEF LogInv, DatesPast
  <2> QED
    BY <2>6, <2>7, <2>8, <2>9, <2>10 DEF LogInv
<1>5. CASE close_unknown
  <2>1. Received("close")
        /\ UNCHANGED <<today, log, waiting, replies, LOGGER, files, mail, abandoned>>
    BY <1>5 DEF close_unknown
  <2>2. Asked' /\ AskedOnce' /\ inbox' \in Seq(Request)
    BY <2>1, TailKeeps, ReceivedFacts DEF LogInv
  <2>3. LogTypeOK' /\ Answered' /\ FileOfHandle' /\ HandleOfLog' /\ DatesPast' /\ LineInItsFile'
    BY <2>1, <2>2 DEF LogInv, LogTypeOK, Answered, FileOfHandle, HandleOfLog, DatesPast,
                      LineInItsFile
  <2> QED
    BY <2>2, <2>3 DEF LogInv
<1> QED
  BY <1>1, <1>2, <1>3, <1>4, <1>5 DEF Serve

LEMMA QuietLog ==
    ASSUME LogInv, midnight \/ (\E h \in LogHandles : _logger(h)) \/ UNCHANGED logVars
    PROVE  LogInv'
<1>1. CASE midnight
  <2>1. today' = today + 1 /\ today \in Days /\ today < LastDay
        /\ UNCHANGED <<log, waiting, inbox, replies, LOGGER, files, mail, abandoned>>
    BY <1>1 DEF midnight, LogInv, LogTypeOK
  <2>2. today' \in Days
    BY <2>1, LoggerAssumption DEF Days
  <2>3. DatesPast'
    BY <2>1, FilenameType, DayFacts DEF LogInv, DatesPast
  <2>4. LogTypeOK' /\ Asked' /\ Answered' /\ AskedOnce' /\ FileOfHandle' /\ HandleOfLog'
        /\ LineInItsFile'
    BY <2>1, <2>2 DEF LogInv, LogTypeOK, Asked, Opens, Answered, AskedOnce, FileOfHandle,
                      HandleOfLog, LineInItsFile
  <2> QED
    BY <2>3, <2>4 DEF LogInv
<1>2. ASSUME NEW h \in LogHandles, _logger(h) PROVE LogInv'
  <2>1. /\ \E line \in mail[h] : mail' = [mail EXCEPT ![h] = @ \ {line}]
        /\ UNCHANGED <<today, log, waiting, inbox, replies, LOGGER, files, abandoned>>
    BY <1>2 DEF _logger
  <2>2. mail' \in [LogHandles -> SUBSET Line] /\ \A k \in LogHandles : mail'[k] \subseteq mail[k]
    BY <2>1 DEF LogInv, LogTypeOK
  <2>3. LogTypeOK' /\ Asked' /\ Answered' /\ AskedOnce' /\ FileOfHandle' /\ HandleOfLog'
        /\ DatesPast'
    BY <2>1, <2>2 DEF LogInv, LogTypeOK, Asked, Opens, Answered, AskedOnce, FileOfHandle,
                      HandleOfLog, DatesPast
  <2>4. LineInItsFile'
    BY <2>1, <2>2 DEF LogInv, LineInItsFile
  <2> QED
    BY <2>3, <2>4 DEF LogInv
<1>3. CASE UNCHANGED logVars
  BY <1>3 DEF logVars, LogInv, LogTypeOK, Asked, Opens, Answered, AskedOnce, FileOfHandle,
              HandleOfLog, DatesPast, LineInItsFile
<1> QED
  BY <1>1, <1>2, <1>3

LEMMA LogInitial == LogInit => LogInv
<1> SUFFICES ASSUME LogInit PROVE LogInv
  OBVIOUS
<1>1. /\ today = 1 /\ inbox = <<>> /\ abandoned = {}
      /\ \A a \in Appenders : replies[a] = <<>> /\ log[a].handle = None /\ log[a].filename = None
      /\ \A d \in Days : LOGGER[d] = None
      /\ \A h \in LogHandles : mail[h] = {}
      /\ \A c \in Coroutines : waiting[c] = None
  BY DEF LogInit
<1>2. LogTypeOK
  BY DayFacts DEF LogInit, LogTypeOK
<1>3. Opens = {}
  BY <1>1 DEF Opens
<1>4. DatesPast
  BY <1>1, LoggerAssumption DEF DatesPast, None
<1> QED
  BY <1>1, <1>2, <1>3, <1>4
  DEF LogInv, Asked, Answered, AskedOnce, FileOfHandle, HandleOfLog, LineInItsFile

LEMMA LogInvariant == LogSpec => []LogInv
<1>1. LogInv /\ [LogNext]_logVars => LogInv'
  BY AppendLog, ChangeLog, ChangedLog, ServeLog, QuietLog DEF LogNext
<1> QED
  BY <1>1, LogInitial, PTL DEF LogSpec

\* A line waits to be written at the file of the day it was logged on: while a coroutine
\* waits for the new file the others of its service log with the old handle and date, and
\* the handle that a reply brings is that of the day that was asked for.
THEOREM LinesInTheirFiles == LogSpec => []LineInItsFile
<1>1. LogInv => LineInItsFile
  BY DEF LogInv
<1> QED
  BY <1>1, LogInvariant, PTL

-----------------------------------------------------------------------------
(* srv_logger: who closes a file *)

Asks(i) == AppenderOf[inbox[i].from]

\* A `close' of the file of d is behind message i.
CloseBehind(d, i) ==
    \E j \in 1 .. Len(inbox) : j > i /\ inbox[j] = [cmd |-> "close", file |-> d]

\* An appender never goes back to an earlier day.
AskedInOrder ==
    \A i, j \in Opens : i <= j /\ Asks(i) = Asks(j) => inbox[i].file <= inbox[j].file

\* Whoever still asks for a file will close it, has sent the `close', or has given it up.
OpenCovered ==
    \A i \in Opens :
        \/ log[Asks(i)].filename = inbox[i].file
        \/ CloseBehind(inbox[i].file, i)
        \/ inbox[i].file \in abandoned

LastReply(a) == replies[a][Len(replies[a])]

\* The handle that the appender will have when all replies have come.
Latest(a) == IF replies[a] = <<>> THEN log[a].handle ELSE LastReply(a).handle

\* Appender a has the file of day d, or a reply that brings it, and will ask for no other.
Holds(a, d) ==
    /\ log[a].filename = d /\ Latest(a) # None
    /\ replies[a] # <<>> => waiting[LastReply(a).to] = d
    /\ \A i \in Opens : Asks(i) = a => inbox[i].file = d

Held ==
    \A d \in Days :
        LOGGER[d] # None =>
            (\E a \in Appenders : Holds(a, d)) \/ CloseBehind(d, 0) \/ d \in abandoned

CloseInv == AskedInOrder /\ OpenCovered /\ Held

LEMMA LastReplyTo ==
    ASSUME LogInv, NEW a \in Appenders, replies[a] # <<>>
    PROVE  /\ Len(replies[a]) \in 1 .. Len(replies[a])
           /\ LastReply(a).to \in Coroutines /\ AppenderOf[LastReply(a).to] = a
<1>1. replies[a] \in Seq(Reply)
  BY DEF LogInv, LogTypeOK
<1>2. Len(replies[a]) \in 1 .. Len(replies[a])
  BY <1>1, EmptySeq
<1> QED
  BY <1>2, ReplyTypes DEF LogInv, Answered, LastReply

\* What a request is for is not later than the name that its appender keeps.
LEMMA OpenFile ==
    ASSUME LogInv, NEW i \in Opens
    PROVE  /\ Asks(i) \in Appenders /\ inbox[i].file \in Nat
           /\ inbox[i].file = waiting[inbox[i].from]
           /\ inbox[i].file <= log[Asks(i)].filename
           /\ log[Asks(i)].filename <= today
BY OpenTypes, DayFacts, LoggerAssumption DEF LogInv, Asked, Asks, DatesPast

LEMMA ChangeClose ==
    ASSUME LogInv, CloseInv, NEW c \in Coroutines, change_date(c)
    PROVE  CloseInv'
<1> DEFINE a == AppenderOf[c]
           l == log[a]
           n == Len(inbox)
<1>1. /\ waiting[c] = None /\ a \in Appenders /\ today \in Days /\ today \in Nat
      /\ waiting' = [waiting EXCEPT ![c] = today]
      /\ log' = [log EXCEPT ![a] = [l EXCEPT !.filename = today]]
      /\ replies' = replies /\ LOGGER' = LOGGER
      /\ abandoned' = abandoned \cup
            (IF l.handle = None /\ l.filename \in OpensUnderWay(a) \ {today}
               THEN {l.filename} ELSE {})
  BY LoggerAssumption, DayFacts DEF change_date, NewFile, LogInv, LogTypeOK
<1>2. /\ \A x \in Coroutines : waiting'[x] = IF x = c THEN today ELSE waiting[x]
      /\ \A b \in Appenders :
            log'[b].handle = log[b].handle
            /\ log'[b].filename = IF b = a THEN today ELSE log[b].filename
  BY <1>1 DEF LogInv, LogTypeOK
<1>3. PICK k \in 0 .. 1 :
         /\ Len(inbox') = n + k + 1
         /\ \A j \in 1 .. n : inbox'[j] = inbox[j]
         /\ l.handle # None =>
               k = 1 /\ inbox'[n + 1] = [cmd |-> "close", file |-> l.filename]
  BY ChangedInbox
<1>4. n \in Nat
  BY DEF LogInv, LogTypeOK
<1>5. ASSUME NEW i \in Opens'
      PROVE  \/ i \in Opens /\ i <= n /\ inbox'[i] = inbox[i] /\ Asks(i)' = Asks(i)
             \/ i = Len(inbox') /\ inbox'[i].file = today /\ Asks(i)' = a
  BY OpensChanged DEF Opens, Asks
<1>6. ASSUME NEW d \in Days, NEW i \in 0 .. n, CloseBehind(d, i) PROVE CloseBehind(d, i)'
  <2>1. PICK j \in 1 .. n : j > i /\ inbox[j] = [cmd |-> "close", file |-> d]
    BY <1>6 DEF CloseBehind
  <2>2. j \in 1 .. Len(inbox') /\ inbox'[j] = inbox[j]
    BY <1>3, <1>4
  <2> QED
    BY <2>1, <2>2 DEF CloseBehind
<1>7. ASSUME l.handle # None, NEW d \in Days, d = l.filename, NEW i \in 0 .. n
      PROVE  CloseBehind(d, i)'
  <2>1. n + 1 \in 1 .. Len(inbox') /\ n + 1 > i
    BY <1>3, <1>4, <1>7
  <2> QED
    BY <1>3, <1>7, <2>1 DEF CloseBehind
<1>8. ASSUME NEW x \in Coroutines, AppenderOf[x] = a, waiting[x] = l.filename,
             l.filename # None, l.filename # today, l.handle = None
      PROVE  l.filename \in abandoned'
  BY <1>1, <1>8 DEF OpensUnderWay
<1> HIDE DEF a, l, n
<1>9. AskedInOrder'
  <2> SUFFICES ASSUME NEW i \in Opens', NEW j \in Opens', i <= j, Asks(i)' = Asks(j)'
               PROVE  inbox'[i].file <= inbox'[j].file
    BY DEF AskedInOrder
  <2>1. CASE i \in Opens /\ inbox'[i] = inbox[i] /\ Asks(i)' = Asks(i)
    <3>1. CASE j \in Opens /\ inbox'[j] = inbox[j] /\ Asks(j)' = Asks(j)
      BY <2>1, <3>1 DEF CloseInv, AskedInOrder
    <3>2. CASE inbox'[j].file = today
      <4>1. /\ Asks(i) \in Appenders /\ inbox[i].file \in Nat
            /\ inbox[i].file <= log[Asks(i)].filename /\ log[Asks(i)].filename <= today
        BY <2>1, OpenFile
      <4> QED
        BY <1>1, <2>1, <3>2, <4>1, FilenameType
    <3> QED
      BY <1>5, <3>1, <3>2
  <2>2. CASE i = Len(inbox') /\ inbox'[i].file = today
    <3>1. j = i
      <4>1. j <= Len(inbox') /\ j \in Nat
        BY <1>3, <1>4 DEF Opens
      <4> QED
        BY <1>3, <1>4, <2>2, <4>1
    <3> QED
      BY <1>1, <2>2, <3>1
  <2> QED
    BY <1>5, <2>1, <2>2
<1>10. OpenCovered'
  <2> SUFFICES ASSUME NEW i \in Opens', NEW d \in Days, d = inbox'[i].file
               PROVE  log'[Asks(i)'].filename = d \/ CloseBehind(d, i)' \/ d \in abandoned'
    <3>1. ASSUME NEW i \in Opens' PROVE inbox'[i].file \in Days
      BY <1>1, <1>5, OpenTypes DEF LogInv
    <3> QED
      BY <3>1 DEF OpenCovered, CloseBehind
  <2>1. CASE inbox'[i].file = today /\ Asks(i)' = a
    BY <1>1, <1>2, <2>1
  <2>2. CASE i \in Opens /\ i <= n /\ inbox'[i] = inbox[i] /\ Asks(i)' = Asks(i)
    <3>1. /\ inbox[i].file = d /\ inbox[i].from \in Coroutines
          /\ Asks(i) \in Appenders /\ waiting[inbox[i].from] = d
      BY <2>2, OpenTypes, OpenFile DEF LogInv
    <3>2. i \in 0 .. n
      BY <1>4, <2>2 DEF Opens, n
    <3>3. CASE CloseBehind(d, i)
      BY <1>6, <3>2, <3>3
    <3>4. CASE d \in abandoned
      BY <1>1, <3>4
    <3>5. CASE log[Asks(i)].filename = d /\ (Asks(i) # a \/ d = today)
      BY <1>2, <2>2, <3>1, <3>5
    <3>6. CASE Asks(i) = a /\ l.filename = d /\ d # today
      <4>1. CASE l.handle = None
        BY <1>8, <3>1, <3>6, <4>1, DayFacts DEF Asks
      <4>2. CASE l.handle # None
        BY <1>7, <3>2, <3>6, <4>2
      <4> QED
        BY <4>1, <4>2
    <3> QED
      BY <2>2, <3>1, <3>3, <3>4, <3>5, <3>6 DEF CloseInv, OpenCovered, l
  <2> QED
    BY <1>5, <2>1, <2>2
<1>11. Held'
  <2> SUFFICES ASSUME NEW d \in Days, LOGGER[d] # None
               PROVE  (\E b \in Appenders : Holds(b, d)') \/ CloseBehind(d, 0)' \/ d \in abandoned'
    BY <1>1 DEF Held
  <2>1. CASE CloseBehind(d, 0)
    BY <1>4, <1>6, <2>1
  <2>2. CASE d \in abandoned
    BY <1>1, <2>2
  <2>3. ASSUME NEW b \in Appenders, Holds(b, d), b # a \/ (d = today /\ l.handle = None)
        PROVE  Holds(b, d)'
    <3>1. Latest(b)' = Latest(b) /\ log'[b].filename = d
      BY <1>1, <1>2, <2>3 DEF Latest, LastReply, Holds
    <3>2. ASSUME replies[b] # <<>> PROVE waiting'[LastReply(b)'.to] = d
      <4>1. LastReply(b)' = LastReply(b) /\ LastReply(b).to \in Coroutines
        BY <1>1, <3>2, LastReplyTo DEF LastReply
      <4>2. LastReply(b).to # c
        BY <1>1, <3>2, LastReplyTo, NotWaiting DEF LastReply
      <4> QED
        BY <1>2, <2>3, <3>2, <4>1, <4>2 DEF Holds
    <3>3. ASSUME NEW i \in Opens', Asks(i)' = b PROVE inbox'[i].file = d
      BY <1>5, <2>3, <3>3 DEF Holds
    <3>4. Latest(b)' # None /\ log'[b].filename = d
      BY <2>3, <3>1 DEF Holds
    <3>5. replies'[b] # <<>> => waiting'[LastReply(b)'.to] = d
      BY <1>1, <3>2
    <3> QED
      BY <3>3, <3>4, <3>5 DEF Holds
  <2>4. ASSUME Holds(a, d), l.handle # None PROVE CloseBehind(d, 0)'
    BY <1>4, <1>7, <2>4 DEF Holds, l
  <2>5. ASSUME Holds(a, d), l.handle = None, d # today PROVE d \in abandoned'
    <3>1. replies[a] # <<>> /\ l.filename = d
      BY <2>5 DEF Holds, Latest, l
    <3>2. LastReply(a).to \in Coroutines /\ AppenderOf[LastReply(a).to] = a
          /\ waiting[LastReply(a).to] = d
      BY <1>1, <2>5, <3>1, LastReplyTo DEF Holds
    <3> QED
      BY <1>8, <2>5, <3>1, <3>2, DayFacts
  <2> QED
    BY <1>1, <2>1, <2>2, <2>3, <2>4, <2>5 DEF CloseInv, Held
<1> QED
  BY <1>9, <1>10, <1>11 DEF CloseInv

LEMMA ChangedClose ==
    ASSUME LogInv, CloseInv, NEW c \in Coroutines, date_changed(c)
    PROVE  CloseInv'
<1> DEFINE a == AppenderOf[c]
           r == Head(replies[a])
<1>1. /\ a \in Appenders /\ Len(replies[a]) \in Nat /\ Len(replies[a]) > 0
      /\ r = replies[a][1]
      /\ replies' \in [Appenders -> Seq(Reply)]
      /\ Len(replies'[a]) = Len(replies[a]) - 1
      /\ \A i \in 1 .. Len(replies'[a]) : replies'[a][i] = replies[a][i + 1]
      /\ \A b \in Appenders \ {a} : replies'[b] = replies[b]
      /\ \A b \in Appenders : \A i \in 1 .. Len(replies'[b]) : replies'[b][i].to # c
  BY ReplyHead
<1>2. /\ waiting' = [waiting EXCEPT ![c] = None]
      /\ log' = [log EXCEPT ![a].handle = r.handle, ![a].date = waiting[c]]
      /\ UNCHANGED <<today, inbox, LOGGER, files, abandoned>>
  BY DEF date_changed
<1>3. /\ \A x \in Coroutines \ {c} : waiting'[x] = waiting[x]
      /\ \A b \in Appenders : log'[b].filename = log[b].filename
      /\ log'[a].handle = r.handle
      /\ \A b \in Appenders \ {a} : log'[b].handle = log[b].handle
  BY <1>1, <1>2 DEF LogInv, LogTypeOK
<1>0. Len(replies[a]) \in Nat /\ Len(replies[a]) > 0
  BY <1>1
<1> HIDE DEF a, r
<1>4. Opens' = Opens /\ (\A i \in Opens : Asks(i)' = Asks(i) /\ Asks(i) \in Appenders)
  BY <1>2, OpenFile DEF Opens, Asks
<1>5. \A d, i : CloseBehind(d, i)' = CloseBehind(d, i)
  BY <1>2 DEF CloseBehind
<1>6. AskedInOrder'
  BY <1>2, <1>4 DEF CloseInv, AskedInOrder
<1>7. OpenCovered'
  <2> SUFFICES ASSUME NEW i \in Opens
               PROVE  \/ log'[Asks(i)].filename = inbox[i].file
                      \/ CloseBehind(inbox[i].file, i)
                      \/ inbox[i].file \in abandoned
    BY <1>2, <1>4 DEF OpenCovered, CloseBehind
  <2> QED
    BY <1>3, <1>4 DEF CloseInv, OpenCovered
<1>8. ASSUME NEW b \in Appenders, NEW d \in Days, Holds(b, d) PROVE Holds(b, d)'
  <2>1. log'[b].filename = d /\ \A i \in Opens' : Asks(i)' = b => inbox'[i].file = d
    BY <1>2, <1>3, <1>4, <1>8 DEF Holds
  <2>2. CASE b = a /\ Len(replies[a]) = 1
    <3>1. replies'[b] = <<>>
      BY <1>1, <2>2, EmptySeq
    <3>2. replies[b] # <<>> /\ LastReply(b) = r
      BY <1>1, <2>2 DEF LastReply
    <3>3. Latest(b)' = r.handle /\ r.handle # None
      BY <1>3, <1>8, <2>2, <3>1, <3>2 DEF Latest, Holds
    <3> QED
      BY <2>1, <3>1, <3>3 DEF Holds
  <2>3. CASE b # a \/ Len(replies[a]) > 1
    <3>1. (replies'[b] = <<>>) <=> (replies[b] = <<>>)
      BY <1>1, <2>3, EmptySeq
    <3>2. ASSUME replies[b] # <<>>
          PROVE  /\ LastReply(b)' = LastReply(b)
                 /\ waiting'[LastReply(b).to] = waiting[LastReply(b).to]
      <4>1. LastReply(b)' = LastReply(b)
        <5>1. CASE b # a
          BY <1>1, <5>1 DEF LastReply
        <5>2. CASE b = a
          <6>1. Len(replies'[a]) \in 1 .. Len(replies'[a])
                /\ Len(replies'[a]) + 1 = Len(replies[a])
            BY <1>1, <2>3, <5>2
          <6>2. replies'[a][Len(replies'[a])] = replies[a][Len(replies[a])]
            BY <1>1, <6>1
          <6> QED
            BY <5>2, <6>2 DEF LastReply
        <5> QED
          BY <5>1, <5>2
      <4>2. replies'[b] # <<>> /\ replies'[b] \in Seq(Reply)
        BY <1>1, <3>1, <3>2
      <4>3. Len(replies'[b]) \in 1 .. Len(replies'[b])
        BY <4>2, EmptySeq
      <4>4. LastReply(b).to # c
        BY <1>1, <4>1, <4>3 DEF LastReply
      <4> QED
        BY <1>3, <3>2, <4>1, <4>4, LastReplyTo
    <3>3. Latest(b)' = Latest(b)
      <4>1. CASE replies[b] = <<>>
        <5>1. b # a
          BY <1>1, <4>1
        <5> QED
          BY <1>3, <3>1, <4>1, <5>1 DEF Latest
      <4>2. CASE replies[b] # <<>>
        BY <3>1, <3>2, <4>2 DEF Latest
      <4> QED
        BY <4>1, <4>2
    <3> QED
      BY <1>8, <2>1, <3>1, <3>2, <3>3 DEF Holds
  <2>4. Len(replies[a]) = 1 \/ Len(replies[a]) > 1
    <3>1. PICK n \in Nat : n = Len(replies[a])
      BY <1>0
    <3>2. n > 0
      BY <1>0, <3>1
    <3>3. n = 1 \/ n > 1
      BY <3>2
    <3> QED
      BY <3>1, <3>3
  <2> QED
    BY <2>2, <2>3, <2>4
<1>9. Held'
  BY <1>2, <1>5, <1>8 DEF CloseInv, Held
<1> QED
  BY <1>6, <1>7, <1>9 DEF CloseInv

\* The message at the head is taken off the inbox.
LEMMA ServedInbox ==
    ASSUME LogInv, CloseInv, NEW cmd, Received(cmd),
           UNCHANGED <<log, waiting, abandoned>>
    PROVE  /\ AskedInOrder' /\ OpenCovered'
           /\ \A i \in Opens' : /\ i > 0 /\ i + 1 \in Opens /\ inbox'[i] = inbox[i + 1]
                                /\ Asks(i)' = Asks(i + 1)
           /\ \A d \in Days : CloseBehind(d, 1) => CloseBehind(d, 0)'
<1>1. \A i \in Opens' : /\ i \in Int /\ i > 0 /\ i + 1 \in Opens /\ inbox'[i] = inbox[i + 1]
                        /\ Asks(i)' = Asks(i + 1)
  BY OpensTail DEF LogInv, Opens, Asks
<1>2. AskedInOrder'
  <2> SUFFICES ASSUME NEW i \in Opens', NEW j \in Opens', i <= j, Asks(i)' = Asks(j)'
               PROVE  inbox'[i].file <= inbox'[j].file
    BY DEF AskedInOrder
  <2>1. i + 1 <= j + 1 /\ i + 1 \in Opens /\ j + 1 \in Opens /\ Asks(i + 1) = Asks(j + 1)
    BY <1>1
  <2> QED
    BY <1>1, <2>1 DEF CloseInv, AskedInOrder
<1>3. ASSUME NEW d \in Days, NEW i \in Nat, CloseBehind(d, i + 1) PROVE CloseBehind(d, i)'
  <2>1. PICK j \in 1 .. Len(inbox) : j > i + 1 /\ inbox[j] = [cmd |-> "close", file |-> d]
    BY <1>3 DEF CloseBehind
  <2>2. j - 1 \in 1 .. Len(inbox') /\ j - 1 > i /\ inbox'[j - 1] = inbox[j]
    <3>1. j - 1 \in 1 .. Len(inbox') /\ j - 1 > i /\ (j - 1) + 1 = j
      BY <2>1, ReceivedFacts DEF LogInv
    <3> QED
      BY <3>1, ReceivedFacts DEF LogInv
  <2> QED
    BY <2>1, <2>2 DEF CloseBehind
<1>4. OpenCovered'
  <2> SUFFICES ASSUME NEW i \in Opens', NEW d \in Days, d = inbox'[i].file
               PROVE  log'[Asks(i)'].filename = d \/ CloseBehind(d, i)' \/ d \in abandoned'
    <3>1. ASSUME NEW i \in Opens' PROVE inbox'[i].file \in Days
      BY <1>1, OpenTypes DEF LogInv
    <3> QED
      BY <3>1 DEF OpenCovered, CloseBehind
  <2>1. i \in Nat /\ i + 1 \in Opens /\ inbox[i + 1].file = d /\ Asks(i)' = Asks(i + 1)
    BY <1>1
  <2>2. log[Asks(i + 1)].filename = d \/ CloseBehind(d, i + 1) \/ d \in abandoned
    BY <2>1 DEF CloseInv, OpenCovered
  <2> QED
    BY <1>3, <2>1, <2>2
<1>5. \A d \in Days : CloseBehind(d, 1) => CloseBehind(d, 0)'
  <2>1. 0 + 1 = 1 /\ 0 \in Nat
    OBVIOUS
  <2> QED
    BY <1>3, <2>1
<1> QED
  BY <1>1, <1>2, <1>4, <1>5

\* The answer to the request at the head of the inbox: a file that is open after it,
\* other than the one asked for, is as open as it was.
LEMMA AnsweredHolds ==
    ASSUME LogInv, CloseInv, Received("open"), NEW h \in LogHandles \cup {None}, Answer(h),
           UNCHANGED <<log, waiting, abandoned>>,
           NEW d \in Days, LOGGER[d] # None, d = inbox[1].file => h # None
    PROVE  (\E b \in Appenders : Holds(b, d)') \/ CloseBehind(d, 0)' \/ d \in abandoned'
<1>0. /\ 1 \in Opens /\ inbox[1].from \in Coroutines
      /\ AppenderOf[inbox[1].from] \in Appenders /\ inbox[1].cmd = "open"
      /\ waiting[inbox[1].from] = inbox[1].file
  BY OpenHead, ReceivedFacts DEF LogInv
<1>1. PICK c \in Coroutines : c = inbox[1].from
  BY <1>0
<1>2. PICK a \in Appenders : a = Asks(1) /\ a = AppenderOf[c]
  BY <1>0, <1>1 DEF Asks
<1>3. PICK n \in Reply : n.to = c /\ n.handle = h /\ n = [to |-> c, handle |-> h]
  BY DEF Reply
<1>4. replies'[a] = Append(replies[a], n) /\ \A b \in Appenders \ {a} : replies'[b] = replies[b]
  <2>1. replies' = [replies EXCEPT ![a] = Append(@, n)]
    BY <1>0, <1>1, <1>2, <1>3, OpenHead DEF Answer, LogInv
  <2> QED
    BY <2>1 DEF LogInv, LogTypeOK
<1>5. replies'[a] # <<>> /\ LastReply(a)' = n
  <2>1. replies[a] \in Seq(Reply)
    BY DEF LogInv, LogTypeOK
  <2>2. PICK m \in Nat : m = Len(replies[a])
    BY <2>1
  <2>3. /\ Append(replies[a], n) \in Seq(Reply) /\ Len(Append(replies[a], n)) = m + 1
        /\ Append(replies[a], n)[m + 1] = n
    BY <2>1, <2>2, AppendTo
  <2>4. Append(replies[a], n) # <<>>
    BY <2>3, EmptySeq
  <2> QED
    BY <1>4, <2>3, <2>4 DEF LastReply
<1>6. /\ \A i \in Opens' : i + 1 \in Opens /\ inbox'[i] = inbox[i + 1] /\ Asks(i)' = Asks(i + 1)
      /\ CloseBehind(d, 1) => CloseBehind(d, 0)'
  BY ServedInbox
<1>7. CASE CloseBehind(d, 0)
  <2>1. PICK j \in 1 .. Len(inbox) : inbox[j] = [cmd |-> "close", file |-> d]
    BY <1>7 DEF CloseBehind
  <2>2. inbox[j].cmd # "open"
    BY <2>1
  <2>3. j # 1
    BY <1>0, <2>2
  <2>4. CloseBehind(d, 1)
    BY <2>1, <2>3 DEF CloseBehind
  <2> QED
    BY <1>6, <2>4
<1>8. ASSUME NEW b \in Appenders, Holds(b, d) PROVE Holds(b, d)'
  <2>1. log'[b].filename = d /\ \A i \in Opens' : Asks(i)' = b => inbox'[i].file = d
    BY <1>6, <1>8 DEF Holds
  <2>2. CASE b # a
    <3>1. replies'[b] = replies[b]
      BY <1>4, <2>2
    <3>2. Latest(b)' # None /\ (replies'[b] # <<>> => waiting'[LastReply(b)'.to] = d)
      BY <1>8, <3>1 DEF Holds, Latest, LastReply
    <3> QED
      BY <2>1, <3>2 DEF Holds
  <2>3. CASE b = a
    <3>1. inbox[1].file = d
      BY <1>0, <1>2, <1>8, <2>3 DEF Holds
    <3>2. waiting[c] = d /\ h # None
      BY <1>0, <1>1, <3>1
    <3>3. Latest(b)' # None /\ waiting'[LastReply(b)'.to] = d
      BY <1>3, <1>5, <2>3, <3>2 DEF Latest
    <3> QED
      BY <2>1, <3>3 DEF Holds
  <2> QED
    BY <2>2, <2>3
<1> QED
  BY <1>7, <1>8 DEF CloseInv, Held

\* A file has been opened for an appender that has not gone on to another day.
LEMMA LaunchedHolds ==
    ASSUME LogInv, CloseInv, Received("open"), NEW h \in LogHandles, Answer(h),
           UNCHANGED <<log, waiting, abandoned>>,
           NEW d \in Days, d = inbox[1].file, NEW a \in Appenders, a = Asks(1),
           log[a].filename = d
    PROVE  Holds(a, d)'
<1>0. /\ 1 \in Opens /\ inbox[1].from \in Coroutines /\ AppenderOf[inbox[1].from] = a
      /\ waiting[inbox[1].from] = d
  BY OpenHead DEF LogInv, Asks
<1>1. PICK c \in Coroutines : c = inbox[1].from
  BY <1>0
<1>2. PICK n \in Reply : n.to = c /\ n.handle = h /\ n = [to |-> c, handle |-> h]
  BY DEF Reply
<1>3. replies[a] \in Seq(Reply) /\ replies'[a] = Append(replies[a], n)
  <2>1. replies' = [replies EXCEPT ![a] = Append(@, n)]
    BY <1>0, <1>1, <1>2, OpenHead DEF Answer, LogInv
  <2> QED
    BY <2>1 DEF LogInv, LogTypeOK
<1>4. replies'[a] # <<>> /\ LastReply(a)' = n
  <2>1. PICK m \in Nat : m = Len(replies[a])
    BY <1>3
  <2>2. /\ Append(replies[a], n) \in Seq(Reply) /\ Len(Append(replies[a], n)) = m + 1
        /\ Append(replies[a], n)[m + 1] = n
    BY <1>3, <2>1, AppendTo
  <2>3. Append(replies[a], n) # <<>>
    BY <2>2, EmptySeq
  <2> QED
    BY <1>3, <2>2, <2>3 DEF LastReply
<1>5. Latest(a)' # None /\ waiting'[LastReply(a)'.to] = d
  BY <1>0, <1>1, <1>2, <1>4, DayFacts DEF Latest
<1>6. ASSUME NEW i \in Opens', Asks(i)' = a PROVE inbox'[i].file = d
  <2>1. i > 0 /\ i + 1 \in Opens /\ inbox'[i] = inbox[i + 1] /\ Asks(i)' = Asks(i + 1)
    BY ServedInbox
  <2>2. 1 <= i + 1 /\ Asks(i + 1) = Asks(1)
    BY <1>6, <2>1 DEF Opens
  <2>3. d <= inbox[i + 1].file
    BY <1>0, <2>1, <2>2 DEF CloseInv, AskedInOrder
  <2>4. inbox[i + 1].file <= d /\ inbox[i + 1].file \in Nat /\ d \in Nat
    BY <2>1, <2>2, OpenFile, DayFacts
  <2> QED
    BY <2>1, <2>3, <2>4
<1> QED
  BY <1>5, <1>6 DEF Holds

LEMMA ServeClose == ASSUME LogInv, CloseInv, Serve PROVE CloseInv'
<1>1. CASE open_known
  <2>1. /\ Received("open") /\ Answer(LOGGER[Head(inbox).file])
        /\ LOGGER[Head(inbox).file] # None
        /\ UNCHANGED <<log, waiting, LOGGER, abandoned>>
    BY <1>1 DEF open_known
  <2>2. Head(inbox) = inbox[1] /\ inbox[1].file \in Days
    BY <2>1, OpenHead DEF LogInv
  <2>3. LOGGER[inbox[1].file] \in LogHandles \cup {None}
    BY <2>2 DEF LogInv, LogTypeOK
  <2>4. Held'
    BY <2>1, <2>2, <2>3, AnsweredHolds DEF Held
  <2> QED
    BY <2>1, <2>4, ServedInbox DEF CloseInv
<1>2. CASE jmlogger_init
  <2>1. /\ Received("open") /\ Answer(Min(Fresh)) /\ Fresh # {}
        /\ LOGGER' = [LOGGER EXCEPT ![Head(inbox).file] = Min(Fresh)]
        /\ UNCHANGED <<log, waiting, abandoned>>
    BY <1>2 DEF jmlogger_init
  <2>2. PICK h \in LogHandles : h = Min(Fresh)
    <3>1. Fresh \subseteq Nat
      BY DayFacts DEF Fresh
    <3> QED
      BY <2>1, <3>1, MinChosen DEF Fresh
  <2>3. PICK f \in Days : f = inbox[1].file /\ Head(inbox).file = f
    BY <2>1, OpenHead DEF LogInv
  <2>4. PICK a \in Appenders : a = Asks(1) /\ 1 \in Opens
    BY <2>1, OpenHead DEF LogInv, Asks
  <2>5. Answer(h) /\ \A d \in Days : LOGGER'[d] = IF d = f THEN h ELSE LOGGER[d]
    BY <2>1, <2>2, <2>3 DEF LogInv, LogTypeOK
  <2>6. ASSUME NEW d \in Days, LOGGER'[d] # None
        PROVE  (\E b \in Appenders : Holds(b, d)') \/ CloseBehind(d, 0)' \/ d \in abandoned'
    <3>1. CASE d = f
      <4>1. log[a].filename = d \/ CloseBehind(d, 1) \/ d \in abandoned
        BY <2>3, <2>4, <3>1 DEF CloseInv, OpenCovered
      <4>2. log[a].filename = d => Holds(a, d)'
        BY <2>1, <2>3, <2>4, <2>5, <3>1, LaunchedHolds
      <4> QED
        BY <2>1, <4>1, <4>2, ServedInbox
    <3>2. CASE d # f
      BY <2>1, <2>3, <2>5, <2>6, <3>2, AnsweredHolds
    <3> QED
      BY <3>1, <3>2
  <2> QED
    BY <2>1, <2>6, ServedInbox DEF CloseInv, Held
<1>3. CASE jmlogger_init_failed
  <2>1. /\ Received("open") /\ Answer(None) /\ LOGGER[inbox[1].file] = None
        /\ UNCHANGED <<log, waiting, LOGGER, abandoned>>
    BY <1>3, OpenHead DEF jmlogger_init_failed, LogInv
  <2>2. Held'
    BY <2>1, AnsweredHolds DEF Held
  <2> QED
    BY <2>1, <2>2, ServedInbox DEF CloseInv
<1>4. CASE close \/ close_unknown
  <2>1. /\ Received("close") /\ UNCHANGED <<log, waiting, replies, abandoned>>
        /\ LOGGER' \in {LOGGER, [LOGGER EXCEPT ![Head(inbox).file] = None]}
    BY <1>4 DEF close, close_unknown
  <2>2. Head(inbox) = inbox[1] /\ inbox[1] \in Request
    BY <2>1, ReceivedFacts DEF LogInv
  <2>3. inbox[1].file \in Days
    BY <2>2 DEF Request
  <2>4. \A d \in Days : LOGGER'[d] # None => d # inbox[1].file /\ LOGGER'[d] = LOGGER[d]
    <3>1. CASE close
      BY <2>2, <2>3, <3>1 DEF close, LogInv, LogTypeOK
    <3>2. CASE close_unknown
      BY <2>2, <3>2 DEF close_unknown
    <3> QED
      BY <1>4, <3>1, <3>2
  <2>5. \A i \in Opens' : i + 1 \in Opens /\ inbox'[i] = inbox[i + 1] /\ Asks(i)' = Asks(i + 1)
    BY <2>1, ServedInbox
  <2>6. ASSUME NEW d \in Days, LOGGER'[d] # None
        PROVE  (\E b \in Appenders : Holds(b, d)') \/ CloseBehind(d, 0)' \/ d \in abandoned'
    <3>1. CASE CloseBehind(d, 0)
      <4>1. PICK j \in 1 .. Len(inbox) : inbox[j] = [cmd |-> "close", file |-> d]
        BY <3>1 DEF CloseBehind
      <4>2. j # 1
        BY <2>4, <2>6, <4>1
      <4>3. CloseBehind(d, 1)
        BY <4>1, <4>2 DEF CloseBehind
      <4> QED
        BY <2>1, <4>3, ServedInbox
    <3>2. ASSUME NEW b \in Appenders, Holds(b, d) PROVE Holds(b, d)'
      <4>1. \A i \in Opens' : Asks(i)' = b => inbox'[i].file = d
        BY <2>5, <3>2 DEF Holds
      <4>2. /\ log'[b].filename = d /\ Latest(b)' # None
            /\ replies'[b] # <<>> => waiting'[LastReply(b)'.to] = d
        BY <2>1, <3>2 DEF Holds, Latest, LastReply
      <4> QED
        BY <4>1, <4>2 DEF Holds
    <3> QED
      BY <2>1, <2>4, <2>6, <3>1, <3>2 DEF CloseInv, Held
  <2> QED
    BY <2>1, <2>6, ServedInbox DEF CloseInv, Held
<1> QED
  BY <1>1, <1>2, <1>3, <1>4 DEF Serve

LEMMA QuietClose ==
    ASSUME CloseInv, UNCHANGED <<log, waiting, inbox, replies, LOGGER, abandoned>>
    PROVE  CloseInv'
BY DEF CloseInv, AskedInOrder, OpenCovered, Held, Opens, Asks, CloseBehind, Holds, Latest,
       LastReply

LEMMA CloseNext == LogInv /\ CloseInv /\ [LogNext]_logVars => CloseInv'
<1> SUFFICES ASSUME LogInv, CloseInv, [LogNext]_logVars PROVE CloseInv'
  OBVIOUS
<1>1. CASE UNCHANGED <<log, waiting, inbox, replies, LOGGER, abandoned>>
  BY <1>1, QuietClose
<1> QED
  BY <1>1, ChangeClose, ChangedClose, ServeClose
  DEF LogNext, logVars, midnight, append_line, _logger

\* The file of a past day is open only as long as somebody will close it, however many
\* appenders and coroutines share it and in whatever order their requests are served,
\* except when an appender left it while its very first open was under way.
THEOREM PastFilesAreClosed == LogSpec => []PastFilesClosed
<1>1. LogInit => CloseInv
  BY DEF LogInit, CloseInv, AskedInOrder, OpenCovered, Held, Opens
<1>2. LogInv /\ CloseInv => PastFilesClosed
  BY DEF CloseInv, Held, Holds, CloseBehind, PastFilesClosed
<1> QED
  BY <1>1, <1>2, CloseNext, LogInvariant, PTL DEF LogSpec
=============================================================================
