------------------------ MODULE ChatRecordingProofs ------------------------
(***************************************************************************)
(* The log of a conversation is faithful: it says what the service knows   *)
(* and it has the turns of the chat, wherever the steps before were cut    *)
(* short. The proof is for any number of ids and any size of the window,   *)
(* when no step stops between a response that it makes up for a call and   *)
(* the record that puts it in its place (~Misplaces; it fails otherwise).  *)
(*                                                                         *)
(* The operators of ChatRecording compute sequences of ids without         *)
(* repetition. The proofs see such a sequence as a set and an order, and   *)
(* compare two of them by both. Then, from the records upwards:            *)
(*   Sound         what holds of every log that a session may be           *)
(*                 resumed from                                            *)
(*   Knows         what the memory of the service says of the log          *)
(*   Safe          every record that is appended leaves a sound log,       *)
(*                 but one that no step stops at                           *)
(*   Stands        the three together, preserved by pushMessage,           *)
(*                 rewindTo, updateMessagesFromHistory and                 *)
(*                 rebuildIndexAndWindow                                   *)
(*   Follows       a history that the service may follow                   *)
(*   SessionReady  the chat and the service between two steps              *)
(*   SessionOK     what every step of a session preserves                  *)
(***************************************************************************)
EXTENDS ChatRecording, SequenceTheorems, WellFoundedInduction, TLAPS

-----------------------------------------------------------------------------
(* Induction over numbers                                                  *)

\* A set of numbers has a least one.
LEMMA LeastOne ==
    ASSUME NEW S \in SUBSET Nat, S # {}
    PROVE  \E m \in S : \A k \in S : m <= k
<1>1. PICK m \in S : \A k \in S : ~ (<<k, m>> \in OpToRel(<, Nat))
  BY NatLessThanWellFounded, WFMin
<1>2. ASSUME NEW k \in S PROVE m <= k
  <2>1. <<k, m>> \in Nat \X Nat
    OBVIOUS
  <2>2. ~(<<k, m>>[1] < <<k, m>>[2])
    BY <1>1, <2>1, Zenon DEF OpToRel
  <2> QED BY <2>2
<1> QED BY <1>2

\* What holds of 0, and with a number below n of the next one, holds up to n.
LEMMA UpTo ==
    ASSUME NEW n \in Nat, NEW S, 0 \in S, \A k \in 0 .. n - 1 : k \in S => k + 1 \in S
    PROVE  \A k \in 0 .. n : k \in S
<1> DEFINE T == {k \in 0 .. n : k \notin S}
<1> SUFFICES ASSUME T # {} PROVE FALSE
  OBVIOUS
<1>0. T \in SUBSET Nat
  OBVIOUS
<1>1. PICK l \in T : \A k \in T : l <= k
  BY <1>0, LeastOne
<1>2. l # 0 /\ l \in 0 .. n
  OBVIOUS
<1>3. l - 1 \in 0 .. n - 1 /\ l - 1 \notin T
  BY <1>1, <1>2
<1>4. l - 1 \in S
  BY <1>3
<1>5. l \in S
  BY <1>2, <1>3, <1>4
<1> QED BY <1>5

-----------------------------------------------------------------------------
(* The places of a part of a sequence                                      *)

\* How far Selected has come
PartUpTo(s, at, f, n) ==
    IF n = 0 THEN << >>
    ELSE IF n \in at THEN Append(f[n - 1], s[n]) ELSE f[n - 1]

\* Selected is computed place by place.
LEMMA SelectedSteps ==
    ASSUME NEW T, NEW s \in Seq(T), NEW at
    PROVE  \E f : /\ \A n \in 0 .. Len(s) : f[n] = PartUpTo(s, at, f, n)
                  /\ Selected(s, at) = f[Len(s)]
<1> DEFINE Is(f, k) == f = [n \in 0 .. k |-> PartUpTo(s, at, f, n)]
           S == {k \in Nat : \E f : Is(f, k)}
<1>1. 0 \in S
  <2>1. Is([n \in 0 .. 0 |-> << >>], 0)
    BY DEF PartUpTo
  <2> QED BY <2>1
<1>2. ASSUME NEW k \in Nat, k \in S PROVE k + 1 \in S
  <2>1. PICK f : Is(f, k)
    BY <1>2
  <2> DEFINE g == [n \in 0 .. k + 1 |-> IF n <= k THEN f[n] ELSE PartUpTo(s, at, f, n)]
  <2>2. ASSUME NEW n \in 0 .. k + 1 PROVE g[n] = PartUpTo(s, at, g, n)
    <3>1. CASE n <= k
      <4>1. n \in 0 .. k /\ (n # 0 => n - 1 \in 0 .. k /\ n - 1 \in 0 .. k + 1 /\ n - 1 <= k)
        BY <3>1
      <4>2. g[n] = f[n] /\ f[n] = PartUpTo(s, at, f, n) /\ (n # 0 => g[n - 1] = f[n - 1])
        BY <2>1, <3>1, <4>1
      <4> QED BY <4>2 DEF PartUpTo
    <3>2. CASE n = k + 1
      <4>1. n - 1 = k /\ k \in 0 .. k + 1 /\ k <= k /\ ~(n <= k)
        BY <3>2
      <4>2. g[n - 1] = f[n - 1] /\ g[n] = PartUpTo(s, at, f, n)
        BY <4>1
      <4> QED BY <4>2 DEF PartUpTo
    <3> QED BY <3>1, <3>2
  <2>3. g = [n \in 0 .. k + 1 |-> PartUpTo(s, at, g, n)]
    <3> HIDE DEF g
    <3>1. g = [n \in 0 .. k + 1 |-> g[n]]
      BY DEF g
    <3> QED BY <2>2, <3>1
  <2> HIDE DEF g
  <2>4. Is(g, k + 1)
    BY <2>3
  <2>5. k + 1 \in Nat
    OBVIOUS
  <2> QED BY <2>4, <2>5
<1>3. PICK f : Is(f, Len(s))
  <2>1. Len(s) \in Nat
    OBVIOUS
  <2>2. \A k \in 0 .. Len(s) - 1 : k \in S => k + 1 \in S
    BY <1>2
  <2>3. Len(s) \in 0 .. Len(s)
    BY <2>1
  <2> HIDE DEF S
  <2>4. Len(s) \in S
    BY <1>1, <2>1, <2>2, <2>3, UpTo
  <2> QED BY <2>4 DEF S
<1> DEFINE c == CHOOSE f_1 : Is(f_1, Len(s))
<1>4. Is(c, Len(s))
  BY <1>3
<1>5. Selected(s, at) = c[Len(s)]
  BY Zenon DEF Selected, PartUpTo
<1> HIDE DEF c
<1>6. \A n \in 0 .. Len(s) : c[n] = PartUpTo(s, at, c, n)
  BY <1>4
<1> QED BY <1>5, <1>6

\* g names the places of s that t is made of, in their order.
PlacesIn(t, s, at, g) ==
    /\ g \in [1 .. Len(t) -> at]
    /\ \A k \in 1 .. Len(t) : t[k] = s[g[k]]
    /\ \A k, l \in 1 .. Len(t) : k < l => g[k] < g[l]
    /\ \A i \in at : \E k \in 1 .. Len(t) : g[k] = i

\* Selected(s, at) is made of the places in at.
LEMMA SelectedPlaces ==
    ASSUME NEW T, NEW s \in Seq(T), NEW at \in SUBSET (DOMAIN s)
    PROVE  /\ Selected(s, at) \in Seq(T)
           /\ \E g : PlacesIn(Selected(s, at), s, at, g)
<1>1. PICK f : /\ \A n \in 0 .. Len(s) : f[n] = PartUpTo(s, at, f, n)
               /\ Selected(s, at) = f[Len(s)]
  BY SelectedSteps
<1> DEFINE S == {n \in Nat : f[n] \in Seq(T) /\ \E g : PlacesIn(f[n], s, at \cap (1 .. n), g)}
<1>0. at \in SUBSET (1 .. Len(s)) /\ Len(s) \in Nat
  OBVIOUS
<1>2. 0 \in S
  <2>1. f[0] = << >> /\ at \cap (1 .. 0) = {}
    BY <1>0, <1>1 DEF PartUpTo
  <2>2. << >> \in Seq(T) /\ Len(<< >>) = 0
    BY EmptySeq
  <2>3. PlacesIn(<< >>, s, {}, [k \in 1 .. 0 |-> k])
    BY <2>2 DEF PlacesIn
  <2> QED BY <2>1, <2>2, <2>3
<1>3. ASSUME NEW n \in 0 .. Len(s) - 1, n \in S PROVE n + 1 \in S
  <2>0. n + 1 \in 1 .. Len(s) /\ n + 1 \in 0 .. Len(s) /\ (n + 1) - 1 = n /\ s[n + 1] \in T /\ n \in Nat
    BY <1>0
  <2>1. f[n] \in Seq(T)
    BY <1>3
  <2>2. PICK g : PlacesIn(f[n], s, at \cap (1 .. n), g)
    BY <1>3
  <2>3. f[n + 1] = IF n + 1 \in at THEN Append(f[n], s[n + 1]) ELSE f[n]
    BY <1>1, <2>0 DEF PartUpTo
  <2>4. CASE n + 1 \notin at
    <3>1. at \cap (1 .. n + 1) = at \cap (1 .. n)
      BY <1>0, <2>0, <2>4
    <3>2. f[n + 1] = f[n] /\ n + 1 \in Nat
      BY <2>0, <2>3, <2>4
    <3>3. PlacesIn(f[n + 1], s, at \cap (1 .. n + 1), g)
      BY <2>2, <3>1, <3>2
    <3> QED BY <2>1, <3>2, <3>3
  <2>5. CASE n + 1 \in at
    <3> DEFINE t == f[n]
               h == [k \in 1 .. Len(t) + 1 |-> IF k = Len(t) + 1 THEN n + 1 ELSE g[k]]
    <3>1. f[n + 1] = Append(t, s[n + 1])
      BY <2>3, <2>5
    <3>2. Append(t, s[n + 1]) \in Seq(T) /\ Len(Append(t, s[n + 1])) = Len(t) + 1 /\ Len(t) \in Nat
      BY <2>0, <2>1
    <3>3. \A k \in 1 .. Len(t) : Append(t, s[n + 1])[k] = t[k]
      BY <2>0, <2>1
    <3>4. Append(t, s[n + 1])[Len(t) + 1] = s[n + 1]
      BY <2>0, <2>1
    <3>5. at \cap (1 .. n + 1) = (at \cap (1 .. n)) \cup {n + 1}
      BY <1>0, <2>0, <2>5
    <3> HIDE DEF t
    <3>6. PlacesIn(Append(t, s[n + 1]), s, at \cap (1 .. n + 1), h)
      <4>0. g \in [1 .. Len(t) -> at \cap (1 .. n)]
        BY <2>2 DEF PlacesIn, t
      <4>1. h \in [1 .. Len(t) + 1 -> at \cap (1 .. n + 1)]
        BY <3>2, <3>5, <4>0
      <4>2. \A k \in 1 .. Len(t) : h[k] = g[k] /\ g[k] \in 1 .. n
        BY <3>2, <4>0
      <4>3. h[Len(t) + 1] = n + 1
        BY <3>2
      <4> HIDE DEF h
      <4>4. \A k \in 1 .. Len(t) + 1 : Append(t, s[n + 1])[k] = s[h[k]]
        <5>1. \A k \in 1 .. Len(t) : t[k] = s[g[k]]
          BY <2>2 DEF PlacesIn, t
        <5>2. \A k \in 1 .. Len(t) + 1 : k = Len(t) + 1 \/ k \in 1 .. Len(t)
          BY <3>2
        <5> QED BY <3>3, <3>4, <4>2, <4>3, <5>1, <5>2
      <4>5. \A k, l \in 1 .. Len(t) + 1 : k < l => h[k] < h[l]
        <5> SUFFICES ASSUME NEW k \in 1 .. Len(t) + 1, NEW l \in 1 .. Len(t) + 1, k < l
                     PROVE  h[k] < h[l]
          OBVIOUS
        <5>1. k \in 1 .. Len(t)
          BY <3>2
        <5>2. CASE l = Len(t) + 1
          BY <2>0, <4>2, <4>3, <5>1, <5>2
        <5>3. CASE l \in 1 .. Len(t)
          <6>1. g[k] < g[l]
            BY <2>2, <5>1, <5>3 DEF PlacesIn, t
          <6> QED BY <4>2, <5>1, <5>3, <6>1
        <5> QED BY <3>2, <5>2, <5>3
      <4>6. \A i \in at \cap (1 .. n + 1) : \E k \in 1 .. Len(t) + 1 : h[k] = i
        <5> SUFFICES ASSUME NEW i \in at \cap (1 .. n + 1) PROVE \E k \in 1 .. Len(t) + 1 : h[k] = i
          OBVIOUS
        <5>1. CASE i = n + 1
          <6>1. Len(t) + 1 \in 1 .. Len(t) + 1
            BY <3>2
          <6> QED BY <4>3, <5>1, <6>1
        <5>2. CASE i \in at \cap (1 .. n)
          <6>1. PICK k \in 1 .. Len(t) : g[k] = i
            BY <2>2, <5>2 DEF PlacesIn, t
          <6>2. k \in 1 .. Len(t) + 1
            BY <3>2
          <6> QED BY <4>2, <6>1, <6>2
        <5> QED BY <3>5, <5>1, <5>2
      <4> QED BY <3>2, <4>1, <4>4, <4>5, <4>6 DEF PlacesIn
    <3> HIDE DEF h
    <3>7. n + 1 \in Nat /\ f[n + 1] \in Seq(T) /\ PlacesIn(f[n + 1], s, at \cap (1 .. n + 1), h)
      BY <2>0, <3>1, <3>2, <3>6
    <3> QED BY <3>7
  <2> QED BY <2>4, <2>5
<1>4. Len(s) \in S
  <2> HIDE DEF S
  <2>1. \A k \in 0 .. Len(s) - 1 : k \in S => k + 1 \in S
    BY <1>3
  <2>2. \A k \in 0 .. Len(s) : k \in S
    BY <1>0, <1>2, <2>1, UpTo
  <2> QED BY <1>0, <2>2
<1>5. at \cap (1 .. Len(s)) = at
  BY <1>0
<1> QED BY <1>1, <1>4, <1>5

-----------------------------------------------------------------------------
(* Sequences without repetition are orders: two that hold the same elements in*)
(* the same order are equal.                                               *)

Unrepeated(s) == \A i, j \in DOMAIN s : s[i] = s[j] => i = j
Precedes(s, x, y) == \E i, j \in DOMAIN s : i < j /\ s[i] = x /\ s[j] = y

\* To come before is a total order of the elements of a sequence without repetition.
LEMMA PrecedesIsOrder ==
    ASSUME NEW T, NEW s \in Seq(T), Unrepeated(s)
    PROVE  /\ \A x, y : Precedes(s, x, y) => x \in ToSet(s) /\ y \in ToSet(s) /\ x # y
           /\ \A x, y : Precedes(s, x, y) => ~Precedes(s, y, x)
           /\ \A x, y, z : Precedes(s, x, y) /\ Precedes(s, y, z) => Precedes(s, x, z)
           /\ \A x, y \in ToSet(s) : x = y \/ Precedes(s, x, y) \/ Precedes(s, y, x)
<1>0. DOMAIN s = 1 .. Len(s) /\ Len(s) \in Nat
  OBVIOUS
<1>1. ASSUME NEW x, NEW y, Precedes(s, x, y) PROVE x \in ToSet(s) /\ y \in ToSet(s) /\ x # y
  BY <1>0, <1>1 DEF Precedes, ToSet, Unrepeated
<1>2. ASSUME NEW x, NEW y, Precedes(s, x, y), Precedes(s, y, x) PROVE FALSE
  <2>1. PICK i \in DOMAIN s, j \in DOMAIN s : i < j /\ s[i] = x /\ s[j] = y
    BY <1>2 DEF Precedes
  <2>2. PICK k \in DOMAIN s, l \in DOMAIN s : k < l /\ s[k] = y /\ s[l] = x
    BY <1>2 DEF Precedes
  <2>3. i = l /\ j = k
    BY <2>1, <2>2 DEF Unrepeated
  <2> QED BY <1>0, <2>1, <2>2, <2>3
<1>3. ASSUME NEW x, NEW y, NEW z, Precedes(s, x, y), Precedes(s, y, z) PROVE Precedes(s, x, z)
  <2>1. PICK i \in DOMAIN s, j \in DOMAIN s : i < j /\ s[i] = x /\ s[j] = y
    BY <1>3 DEF Precedes
  <2>2. PICK k \in DOMAIN s, l \in DOMAIN s : k < l /\ s[k] = y /\ s[l] = z
    BY <1>3 DEF Precedes
  <2>3. j = k
    BY <2>1, <2>2 DEF Unrepeated
  <2>4. i < l
    BY <1>0, <2>1, <2>2, <2>3
  <2> QED BY <2>1, <2>2, <2>4 DEF Precedes
<1>4. ASSUME NEW x \in ToSet(s), NEW y \in ToSet(s)
      PROVE  x = y \/ Precedes(s, x, y) \/ Precedes(s, y, x)
  <2>1. PICK i \in DOMAIN s, j \in DOMAIN s : s[i] = x /\ s[j] = y
    BY DEF ToSet
  <2>2. i = j \/ i < j \/ j < i
    BY <1>0
  <2> QED BY <2>1, <2>2 DEF Precedes
<1> QED BY <1>1, <1>2, <1>3, <1>4

\* Two sequences without repetition that hold the same elements in the same order
\* are equal: it is how the proofs below compare the ids of logs.
LEMMA OrderUnique ==
    ASSUME NEW T, NEW s \in Seq(T), NEW t \in Seq(T), Unrepeated(s), Unrepeated(t),
           ToSet(s) = ToSet(t), \A x, y : Precedes(s, x, y) => Precedes(t, x, y)
    PROVE  s = t
<1>0. /\ DOMAIN s = 1 .. Len(s) /\ Len(s) \in Nat
      /\ DOMAIN t = 1 .. Len(t) /\ Len(t) \in Nat
  OBVIOUS
<1> DEFINE Differs(i) == i \notin DOMAIN s \/ i \notin DOMAIN t \/ s[i] # t[i]
           D == {i \in DOMAIN s \cup DOMAIN t : Differs(i)}
<1>1. D = {}
  <2> SUFFICES ASSUME D # {} PROVE FALSE
    OBVIOUS
  <2>1. D \in SUBSET Nat
    BY <1>0
  <2>2. PICK m \in D : \A k \in D : m <= k
    BY <2>1, LeastOne
  <2>3. \A k \in DOMAIN s \cup DOMAIN t : k < m => k \in DOMAIN s /\ k \in DOMAIN t /\ s[k] = t[k]
    BY <1>0, <2>2
  <2>4. ASSUME m \in DOMAIN s PROVE \E l \in DOMAIN t : s[m] = t[l] /\ m <= l
    <3>1. s[m] \in ToSet(t)
      BY <2>4 DEF ToSet
    <3>2. PICK l \in DOMAIN t : s[m] = t[l]
      BY <3>1 DEF ToSet
    <3>3. ASSUME l < m PROVE FALSE
      <4>1. l \in DOMAIN s /\ s[l] = t[l]
        BY <2>3, <3>3
      <4>2. l = m
        BY <2>4, <3>2, <4>1 DEF Unrepeated
      <4> QED BY <1>0, <2>4, <3>3, <4>2
    <3> QED BY <1>0, <2>4, <3>2, <3>3
  <2>5. ASSUME m \in DOMAIN t PROVE \E k \in DOMAIN s : t[m] = s[k] /\ m <= k
    <3>1. t[m] \in ToSet(s)
      BY <2>5 DEF ToSet
    <3>2. PICK l \in DOMAIN s : t[m] = s[l]
      BY <3>1 DEF ToSet
    <3>3. ASSUME l < m PROVE FALSE
      <4>1. l \in DOMAIN t /\ s[l] = t[l]
        BY <2>3, <3>3
      <4>2. l = m
        BY <2>5, <3>2, <4>1 DEF Unrepeated
      <4> QED BY <1>0, <2>5, <3>3, <4>2
    <3> QED BY <1>0, <2>5, <3>2, <3>3
  <2>6. m \in DOMAIN s /\ m \in DOMAIN t
    <3>1. CASE m \in DOMAIN s
      BY <1>0, <2>4, <3>1
    <3>2. CASE m \in DOMAIN t
      BY <1>0, <2>5, <3>2
    <3> QED BY <3>1, <3>2
  <2>7. s[m] # t[m]
    BY <2>2, <2>6
  <2>8. PICK l \in DOMAIN t : s[m] = t[l] /\ m <= l
    BY <2>4, <2>6
  <2>9. PICK k \in DOMAIN s : t[m] = s[k] /\ m <= k
    BY <2>5, <2>6
  <2>10. m < l /\ m < k
    BY <1>0, <2>6, <2>7, <2>8, <2>9
  <2>11. Precedes(t, t[m], s[m])
    BY <2>6, <2>8, <2>10 DEF Precedes
  <2>12. Precedes(s, s[m], t[m])
    BY <2>6, <2>9, <2>10 DEF Precedes
  <2> QED BY <2>11, <2>12, PrecedesIsOrder
<1>2. DOMAIN s = DOMAIN t /\ \A i \in DOMAIN s : s[i] = t[i]
  BY <1>1
<1> HIDE DEF D
<1>3. Len(s) = Len(t)
  <2>1. ASSUME Len(s) > Len(t) PROVE FALSE
    <3>1. Len(s) \in DOMAIN s
      BY <1>0, <2>1
    <3>2. Len(s) \in DOMAIN t
      BY <1>2, <3>1
    <3> QED BY <1>0, <2>1, <3>2
  <2>2. ASSUME Len(t) > Len(s) PROVE FALSE
    <3>1. Len(t) \in DOMAIN t
      BY <1>0, <2>2
    <3>2. Len(t) \in DOMAIN s
      BY <1>2, <3>1
    <3> QED BY <1>0, <2>2, <3>2
  <2>3. \A a, b \in Nat : ~(a > b) /\ ~(b > a) => a = b
    OBVIOUS
  <2> QED BY <1>0, <2>1, <2>2, <2>3
<1> QED BY <1>2, <1>3, SeqEqual

-----------------------------------------------------------------------------
(* What the parts of a sequence hold, and in which order                   *)

\* The elements of Selected are those at the chosen places, in their order.
LEMMA SelectedOrder ==
    ASSUME NEW T, NEW s \in Seq(T), NEW at \in SUBSET (DOMAIN s)
    PROVE  LET t == Selected(s, at)
           IN  /\ t \in Seq(T)
               /\ ToSet(t) = {s[i] : i \in at}
               /\ \A x, y : Precedes(t, x, y) <=> \E i, j \in at : i < j /\ s[i] = x /\ s[j] = y
               /\ (\A i, j \in at : s[i] = s[j] => i = j) => Unrepeated(t)
<1> DEFINE t == Selected(s, at)
<1>1. t \in Seq(T)
  BY SelectedPlaces
<1>2. PICK g : PlacesIn(t, s, at, g)
  BY SelectedPlaces
<1> HIDE DEF t
<1>0. /\ DOMAIN t = 1 .. Len(t) /\ Len(t) \in Nat
      /\ DOMAIN s = 1 .. Len(s) /\ Len(s) \in Nat
      /\ at \in SUBSET (1 .. Len(s))
  BY <1>1
<1>3. g \in [DOMAIN t -> at] /\ \A k \in DOMAIN t : g[k] \in at /\ t[k] = s[g[k]]
  BY <1>0, <1>2 DEF PlacesIn
<1>4. \A i \in at : \E k \in DOMAIN t : g[k] = i
  BY <1>0, <1>2 DEF PlacesIn
<1>5. \A k, l \in DOMAIN t : k < l => g[k] < g[l]
  BY <1>0, <1>2 DEF PlacesIn
<1>6. \A k, l \in DOMAIN t : g[k] < g[l] => k < l
  <2> SUFFICES ASSUME NEW k \in DOMAIN t, NEW l \in DOMAIN t, g[k] < g[l], ~(k < l) PROVE FALSE
    OBVIOUS
  <2>1. k = l \/ l < k
    BY <1>0
  <2>2. g[k] \in Nat /\ g[l] \in Nat
    BY <1>0, <1>3
  <2>3. g[l] <= g[k]
    BY <1>5, <2>1, <2>2
  <2> QED BY <2>2, <2>3
<1>7. ToSet(t) = {s[i] : i \in at}
  BY <1>3, <1>4 DEF ToSet
<1>8. ASSUME NEW x, NEW y
      PROVE  Precedes(t, x, y) <=> \E i, j \in at : i < j /\ s[i] = x /\ s[j] = y
  <2>1. ASSUME Precedes(t, x, y) PROVE \E i, j \in at : i < j /\ s[i] = x /\ s[j] = y
    <3>1. PICK k \in DOMAIN t, l \in DOMAIN t : k < l /\ t[k] = x /\ t[l] = y
      BY <2>1 DEF Precedes
    <3>2. g[k] < g[l] /\ g[k] \in at /\ g[l] \in at /\ s[g[k]] = x /\ s[g[l]] = y
      BY <1>3, <1>5, <3>1
    <3> QED BY <3>2
  <2>2. ASSUME NEW i \in at, NEW j \in at, i < j /\ s[i] = x /\ s[j] = y PROVE Precedes(t, x, y)
    <3>1. PICK k \in DOMAIN t : g[k] = i
      BY <1>4
    <3>2. PICK l \in DOMAIN t : g[l] = j
      BY <1>4
    <3>3. k < l /\ t[k] = x /\ t[l] = y
      BY <1>3, <1>6, <2>2, <3>1, <3>2
    <3> QED BY <3>3 DEF Precedes
  <2> QED BY <2>1, <2>2
<1>9. ASSUME \A i, j \in at : s[i] = s[j] => i = j PROVE Unrepeated(t)
  <2> SUFFICES ASSUME NEW k \in DOMAIN t, NEW l \in DOMAIN t, t[k] = t[l], k # l PROVE FALSE
    BY DEF Unrepeated
  <2>1. g[k] = g[l]
    BY <1>3, <1>9
  <2>2. g[k] \in Nat /\ (k < l \/ l < k)
    BY <1>0, <1>3
  <2> QED BY <1>5, <2>1, <2>2
<1> QED BY <1>1, <1>7, <1>8, <1>9 DEF t

\* The elements and the order of Only
LEMMA OnlyOrder ==
    ASSUME NEW T, NEW s \in Seq(T), NEW S
    PROVE  /\ Only(s, S) \in Seq(T)
           /\ ToSet(Only(s, S)) = ToSet(s) \cap S
           /\ \A x, y : Precedes(Only(s, S), x, y) <=> Precedes(s, x, y) /\ x \in S /\ y \in S
           /\ Unrepeated(s) => Unrepeated(Only(s, S))
<1> DEFINE at == {i \in DOMAIN s : s[i] \in S}
<1>1. Only(s, S) = Selected(s, at)
  BY DEF Only
<1>2. at \in SUBSET (DOMAIN s)
  OBVIOUS
<1> HIDE DEF at
<1>3. /\ Only(s, S) \in Seq(T)
      /\ ToSet(Only(s, S)) = {s[i] : i \in at}
      /\ \A x, y : Precedes(Only(s, S), x, y) <=> \E i, j \in at : i < j /\ s[i] = x /\ s[j] = y
      /\ (\A i, j \in at : s[i] = s[j] => i = j) => Unrepeated(Only(s, S))
  BY <1>1, <1>2, SelectedOrder
<1>4. {s[i] : i \in at} = ToSet(s) \cap S
  BY DEF at, ToSet
<1>5. ASSUME NEW x, NEW y
      PROVE  (\E i, j \in at : i < j /\ s[i] = x /\ s[j] = y) <=> Precedes(s, x, y) /\ x \in S /\ y \in S
  BY DEF at, Precedes
<1>6. Unrepeated(s) => \A i, j \in at : s[i] = s[j] => i = j
  BY DEF at, Unrepeated
<1> QED BY <1>3, <1>4, <1>5, <1>6

\* Until keeps what comes before an element.
LEMMA UntilOrder ==
    ASSUME NEW T, NEW s \in Seq(T), Unrepeated(s), NEW r \in ToSet(s)
    PROVE  /\ Until(s, r) \in Seq(T)
           /\ ToSet(Until(s, r)) = {x \in ToSet(s) : Precedes(s, x, r)}
           /\ \A x, y : Precedes(Until(s, r), x, y) <=> Precedes(s, x, y) /\ Precedes(s, y, r)
           /\ Unrepeated(Until(s, r))
<1> DEFINE at == {i \in DOMAIN s : \A j \in 1 .. i : s[j] # r}
<1>0. DOMAIN s = 1 .. Len(s) /\ Len(s) \in Nat
  OBVIOUS
<1>1. Until(s, r) = Selected(s, at)
  BY DEF Until
<1>2. at \in SUBSET (DOMAIN s)
  OBVIOUS
<1>3. PICK n \in DOMAIN s : s[n] = r
  BY DEF ToSet
<1>4. at = {i \in DOMAIN s : i < n}
  <2>1. ASSUME NEW i \in DOMAIN s PROVE (\A j \in 1 .. i : s[j] # r) <=> i < n
    <3>1. ASSUME i < n, NEW j \in 1 .. i PROVE s[j] # r
      BY <1>0, <1>3, <3>1 DEF Unrepeated
    <3>2. ASSUME ~(i < n) PROVE n \in 1 .. i
      BY <1>0, <3>2
    <3> QED BY <1>3, <3>1, <3>2
  <2> QED BY <2>1
<1> HIDE DEF at
<1>5. /\ Until(s, r) \in Seq(T)
      /\ ToSet(Until(s, r)) = {s[i] : i \in at}
      /\ \A x, y : Precedes(Until(s, r), x, y) <=> \E i, j \in at : i < j /\ s[i] = x /\ s[j] = y
      /\ (\A i, j \in at : s[i] = s[j] => i = j) => Unrepeated(Until(s, r))
  BY <1>1, <1>2, SelectedOrder
<1>6. ASSUME NEW i \in DOMAIN s PROVE Precedes(s, s[i], r) <=> i < n
  BY <1>3 DEF Precedes, Unrepeated
<1>7. {s[i] : i \in at} = {x \in ToSet(s) : Precedes(s, x, r)}
  BY <1>4, <1>6 DEF ToSet
<1>8. ASSUME NEW x, NEW y
      PROVE  (\E i, j \in at : i < j /\ s[i] = x /\ s[j] = y) <=> Precedes(s, x, y) /\ Precedes(s, y, r)
  <2>1. ASSUME NEW i \in at, NEW j \in at, i < j /\ s[i] = x /\ s[j] = y
        PROVE  Precedes(s, x, y) /\ Precedes(s, y, r)
    BY <1>2, <1>4, <1>6, <2>1 DEF Precedes
  <2>2. ASSUME Precedes(s, x, y), Precedes(s, y, r)
        PROVE  \E i, j \in at : i < j /\ s[i] = x /\ s[j] = y
    <3>1. PICK i \in DOMAIN s, j \in DOMAIN s : i < j /\ s[i] = x /\ s[j] = y
      BY <2>2 DEF Precedes
    <3>2. j < n
      BY <1>6, <2>2, <3>1
    <3>3. i < n
      BY <1>0, <3>1, <3>2
    <3> QED BY <1>4, <3>1, <3>2, <3>3
  <2> QED BY <2>1, <2>2
<1>9. \A i, j \in at : s[i] = s[j] => i = j
  BY <1>2 DEF Unrepeated
<1> QED BY <1>5, <1>7, <1>8, <1>9

\* Distinct keeps every element once, and a sequence without repetition as it is.
LEMMA DistinctOrder ==
    ASSUME NEW T, NEW s \in Seq(T)
    PROVE  /\ Distinct(s) \in Seq(T)
           /\ ToSet(Distinct(s)) = ToSet(s)
           /\ Unrepeated(Distinct(s))
           /\ Unrepeated(s) => Distinct(s) = s
<1> DEFINE at == {i \in DOMAIN s : \A j \in 1 .. i - 1 : s[j] # s[i]}
<1>0. DOMAIN s = 1 .. Len(s) /\ Len(s) \in Nat
  OBVIOUS
<1>1. Distinct(s) = Selected(s, at)
  BY DEF Distinct
<1>2. at \in SUBSET (DOMAIN s)
  OBVIOUS
<1>3. \A i, j \in at : s[i] = s[j] => i = j
  <2> SUFFICES ASSUME NEW i \in at, NEW j \in at, s[i] = s[j], i # j PROVE FALSE
    OBVIOUS
  <2>1. i \in 1 .. j - 1 \/ j \in 1 .. i - 1
    BY <1>0
  <2> QED BY <2>1
<1>4. ASSUME NEW x \in ToSet(s) PROVE \E i \in at : s[i] = x
  <2> DEFINE P == {i \in DOMAIN s : s[i] = x}
  <2>1. P \in SUBSET Nat /\ P # {}
    BY <1>0 DEF ToSet
  <2>2. PICK m \in P : \A k \in P : m <= k
    BY <2>1, LeastOne
  <2>3. \A j \in 1 .. m - 1 : j \in DOMAIN s /\ ~(m <= j)
    BY <1>0, <2>2
  <2>4. m \in at
    BY <2>2, <2>3
  <2> QED BY <2>2, <2>4
<1>5. Unrepeated(s) => at = DOMAIN s
  <2> SUFFICES ASSUME Unrepeated(s), NEW i \in DOMAIN s, NEW j \in 1 .. i - 1, s[j] = s[i] PROVE FALSE
    OBVIOUS
  <2>1. j \in DOMAIN s /\ j # i
    BY <1>0
  <2> QED BY <2>1 DEF Unrepeated
<1> HIDE DEF at
<1>6. /\ Distinct(s) \in Seq(T)
      /\ ToSet(Distinct(s)) = {s[i] : i \in at}
      /\ \A x, y : Precedes(Distinct(s), x, y) <=> \E i, j \in at : i < j /\ s[i] = x /\ s[j] = y
      /\ (\A i, j \in at : s[i] = s[j] => i = j) => Unrepeated(Distinct(s))
  BY <1>1, <1>2, SelectedOrder
<1>7. ToSet(Distinct(s)) = ToSet(s)
  <2>1. \A x \in ToSet(s) : x \in {s[i] : i \in at}
    BY <1>4
  <2>2. \A x \in {s[i] : i \in at} : x \in ToSet(s)
    BY <1>2 DEF ToSet
  <2>3. ToSet(s) = {s[i] : i \in at}
    BY <2>1, <2>2
  <2> QED BY <1>6, <2>3
<1>8. ASSUME Unrepeated(s) PROVE Distinct(s) = s
  <2>1. \A x, y : Precedes(s, x, y) => Precedes(Distinct(s), x, y)
    BY <1>5, <1>6, <1>8 DEF Precedes
  <2> QED BY <1>3, <1>6, <1>7, <1>8, <2>1, OrderUnique
<1> QED BY <1>3, <1>6, <1>7, <1>8

\* The elements and the order of a concatenation
LEMMA ConcatOrder ==
    ASSUME NEW T, NEW s \in Seq(T), NEW t \in Seq(T)
    PROVE  /\ s \o t \in Seq(T)
           /\ ToSet(s \o t) = ToSet(s) \cup ToSet(t)
           /\ \A x, y : Precedes(s \o t, x, y) <=>
                 \/ Precedes(s, x, y) \/ Precedes(t, x, y)
                 \/ x \in ToSet(s) /\ y \in ToSet(t)
           /\ Unrepeated(s) /\ Unrepeated(t) /\ ToSet(s) \cap ToSet(t) = {} => Unrepeated(s \o t)
<1> DEFINE m == Len(s)
           n == Len(t)
           u == s \o t
<1>0. /\ m \in Nat /\ n \in Nat /\ DOMAIN s = 1 .. m /\ DOMAIN t = 1 .. n
      /\ u \in Seq(T) /\ DOMAIN u = 1 .. m + n
  OBVIOUS
<1>1. \A i \in DOMAIN s : i \in DOMAIN u /\ u[i] = s[i]
  OBVIOUS
<1>2. \A i \in DOMAIN t : m + i \in DOMAIN u /\ u[m + i] = t[i]
  OBVIOUS
<1>3. \A i \in DOMAIN u : i \in DOMAIN s \/ (i > m /\ i - m \in DOMAIN t /\ u[i] = t[i - m])
  OBVIOUS
<1> HIDE DEF m, n, u
<1>4. ToSet(u) = ToSet(s) \cup ToSet(t)
  <2>1. \A x \in ToSet(u) : x \in ToSet(s) \cup ToSet(t)
    BY <1>1, <1>3 DEF ToSet
  <2>2. \A x \in ToSet(s) \cup ToSet(t) : x \in ToSet(u)
    BY <1>1, <1>2 DEF ToSet
  <2> QED BY <2>1, <2>2
<1>5. ASSUME NEW x, NEW y
      PROVE  Precedes(u, x, y) <=>
                 \/ Precedes(s, x, y) \/ Precedes(t, x, y)
                 \/ x \in ToSet(s) /\ y \in ToSet(t)
  <2>1. ASSUME Precedes(u, x, y)
        PROVE  \/ Precedes(s, x, y) \/ Precedes(t, x, y)
               \/ x \in ToSet(s) /\ y \in ToSet(t)
    <3>1. PICK i \in DOMAIN u, j \in DOMAIN u : i < j /\ u[i] = x /\ u[j] = y
      BY <2>1 DEF Precedes
    <3>2. CASE i \in DOMAIN s /\ j \in DOMAIN s
      BY <1>1, <3>1, <3>2 DEF Precedes
    <3>3. CASE i \in DOMAIN s /\ j \notin DOMAIN s
      BY <1>1, <1>3, <3>1, <3>3 DEF ToSet
    <3>4. CASE i \notin DOMAIN s
      <4>1. i - m \in DOMAIN t /\ u[i] = t[i - m] /\ i > m
        BY <1>3, <3>4
      <4>2. j \notin DOMAIN s
        BY <1>0, <3>1, <4>1
      <4>3. j - m \in DOMAIN t /\ u[j] = t[j - m]
        BY <1>3, <4>2
      <4>4. i - m < j - m
        BY <1>0, <3>1
      <4> QED BY <3>1, <4>1, <4>3, <4>4 DEF Precedes
    <3> QED BY <3>2, <3>3, <3>4
  <2>2. ASSUME Precedes(s, x, y) PROVE Precedes(u, x, y)
    BY <1>1, <2>2 DEF Precedes
  <2>3. ASSUME Precedes(t, x, y) PROVE Precedes(u, x, y)
    <3>1. PICK i \in DOMAIN t, j \in DOMAIN t : i < j /\ t[i] = x /\ t[j] = y
      BY <2>3 DEF Precedes
    <3>2. m + i < m + j
      BY <1>0, <3>1
    <3> QED BY <1>2, <3>1, <3>2 DEF Precedes
  <2>4. ASSUME x \in ToSet(s), y \in ToSet(t) PROVE Precedes(u, x, y)
    <3>1. PICK i \in DOMAIN s, j \in DOMAIN t : s[i] = x /\ t[j] = y
      BY <2>4 DEF ToSet
    <3>2. i < m + j
      BY <1>0
    <3> QED BY <1>1, <1>2, <3>1, <3>2 DEF Precedes
  <2> QED BY <2>1, <2>2, <2>3, <2>4
<1>6. ASSUME Unrepeated(s), Unrepeated(t), ToSet(s) \cap ToSet(t) = {} PROVE Unrepeated(u)
  <2> SUFFICES ASSUME NEW i \in DOMAIN u, NEW j \in DOMAIN u, u[i] = u[j] PROVE i = j
    BY DEF Unrepeated
  <2>1. CASE i \in DOMAIN s /\ j \in DOMAIN s
    BY <1>1, <1>6, <2>1 DEF Unrepeated
  <2>2. CASE i \in DOMAIN s /\ j \notin DOMAIN s
    <3>1. u[i] \in ToSet(s) /\ u[j] \in ToSet(t)
      BY <1>1, <1>3, <2>2 DEF ToSet
    <3> QED BY <1>6, <3>1
  <2>3. CASE i \notin DOMAIN s /\ j \in DOMAIN s
    <3>1. u[j] \in ToSet(s) /\ u[i] \in ToSet(t)
      BY <1>1, <1>3, <2>3 DEF ToSet
    <3> QED BY <1>6, <3>1
  <2>4. CASE i \notin DOMAIN s /\ j \notin DOMAIN s
    <3>1. i - m \in DOMAIN t /\ u[i] = t[i - m] /\ j - m \in DOMAIN t /\ u[j] = t[j - m]
      BY <1>3, <2>4
    <3>2. i - m = j - m
      BY <1>6, <3>1 DEF Unrepeated
    <3> QED BY <1>0, <3>2
  <2> QED BY <2>1, <2>2, <2>3, <2>4
<1> QED BY <1>0, <1>4, <1>5, <1>6 DEF u

\* A sequence whose elements stand in s in the same order is what Only leaves of s.
LEMMA OnlyIs ==
    ASSUME NEW T, NEW s \in Seq(T), NEW t \in Seq(T), Unrepeated(s), Unrepeated(t),
           ToSet(t) \subseteq ToSet(s), \A x, y : Precedes(t, x, y) => Precedes(s, x, y)
    PROVE  Only(s, ToSet(t)) = t
<1>0. ToSet(s) \cap ToSet(t) = ToSet(t)
  OBVIOUS
<1>1. /\ Only(s, ToSet(t)) \in Seq(T)
      /\ ToSet(Only(s, ToSet(t))) = ToSet(t)
      /\ Unrepeated(Only(s, ToSet(t)))
  BY <1>0, OnlyOrder
<1>2. \A x, y : Precedes(t, x, y) => Precedes(Only(s, ToSet(t)), x, y)
  BY OnlyOrder, PrecedesIsOrder
<1> QED BY <1>1, <1>2, OrderUnique

\* Only leaves a sequence as it is when all of its elements are to stay.
LEMMA OnlyAll ==
    ASSUME NEW T, NEW s \in Seq(T), Unrepeated(s), NEW S, ToSet(s) \subseteq S
    PROVE  Only(s, S) = s
<1>0. ToSet(s) \cap S = ToSet(s)
  OBVIOUS
<1>1. /\ Only(s, S) \in Seq(T)
      /\ ToSet(Only(s, S)) = ToSet(s)
      /\ Unrepeated(Only(s, S))
  BY <1>0, OnlyOrder
<1>2. \A x, y : Precedes(s, x, y) => Precedes(Only(s, S), x, y)
  BY OnlyOrder, PrecedesIsOrder
<1> QED BY <1>1, <1>2, OrderUnique

\* Only depends on which of its elements are in the set.
LEMMA OnlySame ==
    ASSUME NEW T, NEW s \in Seq(T), NEW S, NEW R, ToSet(s) \cap S = ToSet(s) \cap R
    PROVE  Only(s, S) = Only(s, R)
<1>1. {i \in DOMAIN s : s[i] \in S} = {i \in DOMAIN s : s[i] \in R}
  BY DEF ToSet
<1> QED BY <1>1 DEF Only

-----------------------------------------------------------------------------
(* The end of a sequence                                                   *)

\* The places of the last elements of a sequence
LEMMA EndingPlaces ==
    ASSUME NEW T, NEW s \in Seq(T), NEW n \in Nat
    PROVE  /\ Ending(s, n) \in Seq(T)
           /\ Len(Ending(s, n)) = (IF Len(s) > n THEN n ELSE Len(s))
           /\ \A i \in 1 .. Len(Ending(s, n)) :
                 /\ Len(s) - Len(Ending(s, n)) + i \in DOMAIN s
                 /\ Ending(s, n)[i] = s[Len(s) - Len(Ending(s, n)) + i]
<1>0. Len(s) \in Nat /\ DOMAIN s = 1 .. Len(s)
  OBVIOUS
<1>1. CASE Len(s) > n
  <2> DEFINE m == Len(s) - n + 1
  <2>1. Ending(s, n) = SubSeq(s, m, Len(s))
    BY <1>1 DEF Ending
  <2>2. m \in 1 .. Len(s) + 1 /\ Len(s) - m + 1 = n
    BY <1>0, <1>1
  <2>3. /\ SubSeq(s, m, Len(s)) \in Seq(T)
        /\ Len(SubSeq(s, m, Len(s))) = n
        /\ \A i \in 1 .. n : SubSeq(s, m, Len(s))[i] = s[m + i - 1]
    BY <1>0, <2>2, SubSeqProperties
  <2>4. \A i \in 1 .. n : m + i - 1 = Len(s) - n + i /\ Len(s) - n + i \in DOMAIN s
    BY <1>0, <1>1
  <2> QED BY <1>1, <2>1, <2>3, <2>4
<1>2. CASE ~(Len(s) > n)
  <2>1. Ending(s, n) = s
    BY <1>2 DEF Ending
  <2>2. \A i \in 1 .. Len(s) : Len(s) - Len(s) + i = i
    BY <1>0
  <2> QED BY <1>0, <1>2, <2>1, <2>2
<1> QED BY <1>1, <1>2

\* A sequence that is short enough is its own ending.
LEMMA EndingOfAll ==
    ASSUME NEW T, NEW s \in Seq(T), NEW n \in Nat, Len(s) <= n
    PROVE  Ending(s, n) = s
BY DEF Ending

\* The elements and the order of an ending
LEMMA EndingOrder ==
    ASSUME NEW T, NEW s \in Seq(T), NEW n \in Nat
    PROVE  /\ Ending(s, n) \in Seq(T)
           /\ Len(Ending(s, n)) <= n
           /\ ToSet(Ending(s, n)) \subseteq ToSet(s)
           /\ Unrepeated(s) => Unrepeated(Ending(s, n))
           /\ \A x, y : Precedes(Ending(s, n), x, y) => Precedes(s, x, y)
           /\ n > 0 /\ s # << >> => Ending(s, n) # << >> /\ Last(Ending(s, n)) = Last(s)
<1> DEFINE t == Ending(s, n)
           d == Len(s) - Len(t)
<1>0. Len(s) \in Nat /\ DOMAIN s = 1 .. Len(s)
  OBVIOUS
<1>1. /\ t \in Seq(T)
      /\ Len(t) = IF Len(s) > n THEN n ELSE Len(s)
      /\ \A i \in 1 .. Len(t) : d + i \in DOMAIN s /\ t[i] = s[d + i]
  BY EndingPlaces
<1> HIDE DEF t
<1>2. DOMAIN t = 1 .. Len(t) /\ Len(t) \in Nat /\ d \in Int
  BY <1>0, <1>1
<1>3. Len(t) <= n
  BY <1>0, <1>1
<1>3a. \A i \in DOMAIN t : i \in Int /\ d + i \in DOMAIN s /\ t[i] = s[d + i]
  <2>1. \A i \in 1 .. Len(t) : i \in Int
    OBVIOUS
  <2> HIDE DEF d
  <2> QED BY <1>1, <1>2, <2>1
<1>d. d + Len(t) = Len(s)
  BY <1>0, <1>2
<1> HIDE DEF d
<1>4. ToSet(t) \subseteq ToSet(s)
  BY <1>3a DEF ToSet
<1>5. ASSUME Unrepeated(s) PROVE Unrepeated(t)
  <2> SUFFICES ASSUME NEW i \in DOMAIN t, NEW j \in DOMAIN t, t[i] = t[j] PROVE i = j
    BY DEF Unrepeated
  <2>1. d + i = d + j
    BY <1>3a, <1>5 DEF Unrepeated
  <2> QED BY <1>2, <1>3a, <2>1
<1>6. ASSUME NEW x, NEW y, Precedes(t, x, y) PROVE Precedes(s, x, y)
  <2>1. PICK i \in DOMAIN t, j \in DOMAIN t : i < j /\ t[i] = x /\ t[j] = y
    BY <1>6 DEF Precedes
  <2>2. d + i < d + j
    BY <1>2, <1>3a, <2>1
  <2> QED BY <1>3a, <2>1, <2>2 DEF Precedes
<1>7. ASSUME n > 0, s # << >> PROVE t # << >> /\ Last(t) = Last(s)
  <2>1. Len(s) > 0
    BY <1>0, <1>7
  <2>2. Len(t) > 0
    BY <1>1, <1>7, <2>1
  <2>3. t # << >>
    BY <2>2
  <2>4. Len(t) \in DOMAIN t
    BY <1>2, <2>2
  <2>5. t[Len(t)] = s[Len(s)]
    BY <1>3a, <1>d, <2>4
  <2> QED BY <2>3, <2>5 DEF Last
<1> QED BY <1>1, <1>3, <1>4, <1>5, <1>6, <1>7 DEF t

\* Cutting a sequence to its ending before more is added to it loses nothing that
\* the ending of all of it holds: the window may be trimmed as often as one likes.
LEMMA EndingConcat ==
    ASSUME NEW T, NEW s \in Seq(T), NEW t \in Seq(T), NEW n \in Nat
    PROVE  Ending(Ending(s, n) \o t, n) = Ending(s \o t, n)
<1> DEFINE e == Ending(s, n)
           u == e \o t
           v == s \o t
<1>0. /\ Len(s) \in Nat /\ DOMAIN s = 1 .. Len(s)
      /\ Len(t) \in Nat /\ DOMAIN t = 1 .. Len(t)
  OBVIOUS
<1>1. /\ e \in Seq(T)
      /\ Len(e) = IF Len(s) > n THEN n ELSE Len(s)
      /\ \A i \in 1 .. Len(e) : Len(s) - Len(e) + i \in DOMAIN s /\ e[i] = s[Len(s) - Len(e) + i]
  BY EndingPlaces
<1> HIDE DEF e
<1>2. Len(e) \in Nat /\ DOMAIN e = 1 .. Len(e)
  BY <1>1
<1>3. u \in Seq(T) /\ Len(u) = Len(e) + Len(t)
  BY <1>1
<1>4. v \in Seq(T) /\ Len(v) = Len(s) + Len(t)
  OBVIOUS
<1>5. /\ \A i \in 1 .. Len(e) : u[i] = e[i]
      /\ \A i \in Len(e) + 1 .. Len(e) + Len(t) : u[i] = t[i - Len(e)]
  BY <1>1, <1>2
<1>6. /\ \A i \in 1 .. Len(s) : v[i] = s[i]
      /\ \A i \in Len(s) + 1 .. Len(s) + Len(t) : v[i] = t[i - Len(s)]
  BY <1>0
<1> HIDE DEF u, v
<1>7. /\ Ending(u, n) \in Seq(T)
      /\ Len(Ending(u, n)) = IF Len(u) > n THEN n ELSE Len(u)
      /\ \A i \in 1 .. Len(Ending(u, n)) :
            Ending(u, n)[i] = u[Len(u) - Len(Ending(u, n)) + i]
  BY <1>3, EndingPlaces
<1>8. /\ Ending(v, n) \in Seq(T)
      /\ Len(Ending(v, n)) = IF Len(v) > n THEN n ELSE Len(v)
      /\ \A i \in 1 .. Len(Ending(v, n)) :
            Ending(v, n)[i] = v[Len(v) - Len(Ending(v, n)) + i]
  BY <1>4, EndingPlaces
<1>9. Len(Ending(u, n)) = Len(Ending(v, n))
  BY <1>0, <1>1, <1>2, <1>3, <1>4, <1>7, <1>8
<1> DEFINE l == Len(Ending(u, n))
<1>10. ASSUME NEW i \in 1 .. l PROVE u[Len(u) - l + i] = v[Len(v) - l + i]
  <2> DEFINE a == Len(u) - l + i
             b == Len(v) - l + i
  <2>0. l \in Nat /\ i \in Nat /\ i >= 1 /\ i <= l
    BY <1>7
  <2>1. b = a + (Len(s) - Len(e)) /\ a \in Int
    BY <1>0, <1>2, <1>3, <1>4, <2>0
  <2>2. l <= Len(u)
    BY <1>0, <1>2, <1>3, <1>7
  <2>3. a >= 1 /\ a <= Len(u)
    BY <1>0, <1>2, <1>3, <2>0, <2>2
  <2>u. u[Len(u) - l + i] = u[a] /\ v[Len(v) - l + i] = v[b]
    OBVIOUS
  <2> HIDE DEF a, b, l
  <2>4. CASE a <= Len(e)
    <3>1. a \in 1 .. Len(e)
      BY <1>2, <2>1, <2>3, <2>4
    <3>2. u[a] = s[Len(s) - Len(e) + a] /\ Len(s) - Len(e) + a \in 1 .. Len(s)
      BY <1>0, <1>1, <1>5, <3>1
    <3>3. Len(s) - Len(e) + a = b
      BY <1>0, <1>2, <2>1
    <3> QED BY <1>6, <2>u, <3>2, <3>3
  <2>5. CASE a > Len(e)
    <3>1. a \in Len(e) + 1 .. Len(e) + Len(t)
      BY <1>0, <1>2, <1>3, <2>1, <2>3, <2>5
    <3>2. u[a] = t[a - Len(e)]
      BY <1>5, <3>1
    <3>3. b \in Len(s) + 1 .. Len(s) + Len(t) /\ b - Len(s) = a - Len(e)
      BY <1>0, <1>2, <2>1, <3>1
    <3>4. v[b] = t[b - Len(s)]
      BY <1>6, <3>3
    <3> QED BY <2>u, <3>2, <3>3, <3>4
  <2> QED BY <1>2, <2>1, <2>4, <2>5
<1>11. \A i \in 1 .. l : Ending(u, n)[i] = Ending(v, n)[i]
  BY <1>7, <1>8, <1>9, <1>10
<1>12. Ending(u, n) = Ending(v, n)
  BY <1>7, <1>8, <1>9, <1>11, SeqEqual
<1> QED BY <1>12 DEF u, v, e

-----------------------------------------------------------------------------
(* One element, and parts of a sequence                                    *)

\* The sequence of one element
LEMMA OneElement ==
    ASSUME NEW T, NEW x \in T
    PROVE  <<x>> \in Seq(T) /\ ToSet(<<x>>) = {x} /\ Unrepeated(<<x>>)
           /\ \A y, z : ~Precedes(<<x>>, y, z)
<1>1. <<x>> \in Seq(T) /\ DOMAIN <<x>> = {1} /\ <<x>>[1] = x
  OBVIOUS
<1> QED BY <1>1 DEF ToSet, Unrepeated, Precedes

\* The elements and the order of a sequence with one more element
LEMMA AppendOrder ==
    ASSUME NEW T, NEW s \in Seq(T), NEW x \in T
    PROVE  /\ Append(s, x) \in Seq(T)
           /\ ToSet(Append(s, x)) = ToSet(s) \cup {x}
           /\ \A y, z : Precedes(Append(s, x), y, z) <=> Precedes(s, y, z) \/ (y \in ToSet(s) /\ z = x)
           /\ Unrepeated(s) /\ x \notin ToSet(s) => Unrepeated(Append(s, x))
<1>1. Append(s, x) = s \o <<x>>
  <2>1. /\ Append(s, x) \in Seq(T) /\ s \o <<x>> \in Seq(T)
        /\ Len(Append(s, x)) = Len(s) + 1 /\ Len(s \o <<x>>) = Len(s) + 1
    OBVIOUS
  <2>2. \A i \in 1 .. Len(s) + 1 : Append(s, x)[i] = (s \o <<x>>)[i]
    OBVIOUS
  <2> QED BY <2>1, <2>2, SeqEqual
<1>2. /\ <<x>> \in Seq(T) /\ ToSet(<<x>>) = {x} /\ Unrepeated(<<x>>)
      /\ \A y, z : ~Precedes(<<x>>, y, z)
  BY OneElement
<1>3. /\ s \o <<x>> \in Seq(T)
      /\ ToSet(s \o <<x>>) = ToSet(s) \cup ToSet(<<x>>)
      /\ \A y, z : Precedes(s \o <<x>>, y, z) <=>
            \/ Precedes(s, y, z) \/ Precedes(<<x>>, y, z)
            \/ y \in ToSet(s) /\ z \in ToSet(<<x>>)
      /\ Unrepeated(s) /\ Unrepeated(<<x>>) /\ ToSet(s) \cap ToSet(<<x>>) = {} =>
            Unrepeated(s \o <<x>>)
  BY <1>2, ConcatOrder
<1>4. x \notin ToSet(s) => ToSet(s) \cap ToSet(<<x>>) = {}
  BY <1>2
<1> DEFINE a == Append(s, x)
<1>5. a \in Seq(T)
  OBVIOUS
<1>6. a = s \o <<x>>
  BY <1>1
<1> HIDE DEF a
<1>7. /\ ToSet(a) = ToSet(s) \cup {x}
      /\ \A y, z : Precedes(a, y, z) <=> Precedes(s, y, z) \/ (y \in ToSet(s) /\ z = x)
      /\ Unrepeated(s) /\ x \notin ToSet(s) => Unrepeated(a)
  BY <1>2, <1>3, <1>4, <1>6
<1> QED BY <1>5, <1>7 DEF a

\* EndingConcat, for one more element
LEMMA EndingAppend ==
    ASSUME NEW T, NEW s \in Seq(T), NEW x \in T, NEW n \in Nat
    PROVE  Ending(Append(Ending(s, n), x), n) = Ending(Append(s, x), n)
<1> DEFINE e == Ending(s, n)
           last == <<x>>
<1>0. e \in Seq(T) /\ last \in Seq(T)
  BY EndingPlaces
<1>1. ASSUME NEW t \in Seq(T) PROVE Append(t, x) = t \o last
  <2>1. /\ Append(t, x) \in Seq(T) /\ t \o last \in Seq(T)
        /\ Len(Append(t, x)) = Len(t) + 1 /\ Len(t \o last) = Len(t) + 1
    OBVIOUS
  <2>2. \A i \in 1 .. Len(t) + 1 : Append(t, x)[i] = (t \o last)[i]
    OBVIOUS
  <2> QED BY <2>1, <2>2, SeqEqual
<1> HIDE DEF last
<1>2. Ending(Ending(s, n) \o last, n) = Ending(s \o last, n)
  BY <1>0, EndingConcat
<1>3. Append(e, x) = e \o last /\ Append(s, x) = s \o last
  BY <1>0, <1>1, Zenon
<1> QED BY <1>2, <1>3, Zenon

\* The empty sequence
LEMMA NoElement ==
    /\ << >> \in Seq({}) /\ ToSet(<< >>) = {} /\ Unrepeated(<< >>)
    /\ \A x, y : ~Precedes(<< >>, x, y)
    /\ \A T : << >> \in Seq(T)
<1>1. DOMAIN << >> = {} /\ \A T : << >> \in Seq(T)
  OBVIOUS
<1> QED BY <1>1 DEF ToSet, Unrepeated, Precedes

-----------------------------------------------------------------------------
(* What is written, record by record                                       *)

\* How far Written has come
WrittenUpTo(d, records, f, n) == IF n = 0 THEN d ELSE AppendRecord(f[n - 1], records[n])

\* Written appends record by record.
LEMMA WrittenSteps ==
    ASSUME NEW R, NEW records \in Seq(R), NEW d
    PROVE  \E f : /\ \A n \in 0 .. Len(records) : f[n] = WrittenUpTo(d, records, f, n)
                  /\ Written(d, records) = f[Len(records)]
<1> DEFINE Is(f, k) == f = [n \in 0 .. k |-> WrittenUpTo(d, records, f, n)]
           S == {k \in Nat : \E f : Is(f, k)}
<1>1. 0 \in S
  <2>1. Is([n \in 0 .. 0 |-> d], 0)
    BY DEF WrittenUpTo
  <2> QED BY <2>1
<1>2. ASSUME NEW k \in Nat, k \in S PROVE k + 1 \in S
  <2>1. PICK f : Is(f, k)
    BY <1>2
  <2> DEFINE g == [n \in 0 .. k + 1 |-> IF n <= k THEN f[n] ELSE WrittenUpTo(d, records, f, n)]
  <2>2. ASSUME NEW n \in 0 .. k + 1 PROVE g[n] = WrittenUpTo(d, records, g, n)
    <3>1. CASE n <= k
      <4>1. n \in 0 .. k /\ (n # 0 => n - 1 \in 0 .. k /\ n - 1 \in 0 .. k + 1 /\ n - 1 <= k)
        BY <3>1
      <4>2. g[n] = f[n] /\ f[n] = WrittenUpTo(d, records, f, n) /\ (n # 0 => g[n - 1] = f[n - 1])
        BY <2>1, <3>1, <4>1
      <4> QED BY <4>2 DEF WrittenUpTo
    <3>2. CASE n = k + 1
      <4>1. n - 1 = k /\ k \in 0 .. k + 1 /\ k <= k /\ ~(n <= k)
        BY <3>2
      <4>2. g[n - 1] = f[n - 1] /\ g[n] = WrittenUpTo(d, records, f, n)
        BY <4>1
      <4> QED BY <4>2 DEF WrittenUpTo
    <3> QED BY <3>1, <3>2
  <2>3. g = [n \in 0 .. k + 1 |-> WrittenUpTo(d, records, g, n)]
    <3> HIDE DEF g
    <3>1. g = [n \in 0 .. k + 1 |-> g[n]]
      BY DEF g
    <3> QED BY <2>2, <3>1
  <2> HIDE DEF g
  <2>4. Is(g, k + 1)
    BY <2>3
  <2>5. k + 1 \in Nat
    OBVIOUS
  <2> QED BY <2>4, <2>5
<1>3. PICK f : Is(f, Len(records))
  <2>1. Len(records) \in Nat
    OBVIOUS
  <2>2. \A k \in 0 .. Len(records) - 1 : k \in S => k + 1 \in S
    BY <1>2
  <2>3. Len(records) \in 0 .. Len(records)
    BY <2>1
  <2> HIDE DEF S
  <2>4. Len(records) \in S
    BY <1>1, <2>1, <2>2, <2>3, UpTo
  <2> QED BY <2>4 DEF S
<1> DEFINE c == CHOOSE f_1 : Is(f_1, Len(records))
<1>4. Is(c, Len(records))
  BY <1>3
<1>5. Written(d, records) = c[Len(records)]
  BY Zenon DEF Written, WrittenUpTo
<1> HIDE DEF c
<1>6. \A n \in 0 .. Len(records) : c[n] = WrittenUpTo(d, records, c, n)
  BY <1>4
<1> QED BY <1>5, <1>6

\* Without a record the disk stays as it is.
LEMMA WrittenNothing == \A d : Written(d, << >>) = d
<1> SUFFICES ASSUME NEW d PROVE Written(d, << >>) = d
  OBVIOUS
<1>0. << >> \in Seq({}) /\ Len(<< >>) = 0
  OBVIOUS
<1>1. PICK f : /\ \A n \in 0 .. Len(<< >>) : f[n] = WrittenUpTo(d, << >>, f, n)
               /\ Written(d, << >>) = f[Len(<< >>)]
  BY <1>0, WrittenSteps
<1> QED BY <1>0, <1>1 DEF WrittenUpTo

\* The last record is written to what the ones before it left.
LEMMA WrittenAppend ==
    ASSUME NEW R, NEW records \in Seq(R), NEW r, NEW d
    PROVE  Written(d, Append(records, r)) = AppendRecord(Written(d, records), r)
<1> DEFINE longer == Append(records, r)
           m == Len(records)
<1>1. /\ longer \in Seq(R \cup {r}) /\ Len(longer) = m + 1 /\ m \in Nat
      /\ \A i \in 1 .. m : longer[i] = records[i]
      /\ longer[m + 1] = r
  <2>1. records \in Seq(R \cup {r}) /\ r \in R \cup {r}
    <3>1. DOMAIN records = 1 .. m /\ m \in Nat /\ \A i \in 1 .. m : records[i] \in R \cup {r}
      OBVIOUS
    <3> HIDE DEF m
    <3> QED BY <3>1
  <2> QED BY <2>1
<1>2. PICK f : /\ \A n \in 0 .. m : f[n] = WrittenUpTo(d, records, f, n)
               /\ Written(d, records) = f[m]
  BY WrittenSteps
<1>3. PICK g : /\ \A n \in 0 .. m + 1 : g[n] = WrittenUpTo(d, longer, g, n)
               /\ Written(d, longer) = g[m + 1]
  <2>1. \E h : /\ \A n \in 0 .. Len(longer) : h[n] = WrittenUpTo(d, longer, h, n)
               /\ Written(d, longer) = h[Len(longer)]
    <3> HIDE DEF longer
    <3> QED BY <1>1, WrittenSteps
  <2> QED BY <1>1, <2>1
<1> HIDE DEF longer, m
<1> DEFINE S == {n \in Nat : g[n] = f[n]}
<1>4. 0 \in S
  <2>1. 0 \in 0 .. m /\ 0 \in 0 .. m + 1
    BY <1>1
  <2> QED BY <1>2, <1>3, <2>1 DEF WrittenUpTo
<1>5. ASSUME NEW n \in 0 .. m - 1, n \in S PROVE n + 1 \in S
  <2>1. n + 1 \in 0 .. m /\ n + 1 \in 0 .. m + 1 /\ n + 1 \in 1 .. m /\ n + 1 # 0 /\ (n + 1) - 1 = n
    BY <1>1
  <2>2. f[n + 1] = AppendRecord(f[n], records[n + 1])
    BY <1>2, <2>1 DEF WrittenUpTo
  <2>3. g[n + 1] = AppendRecord(g[n], longer[n + 1])
    BY <1>3, <2>1 DEF WrittenUpTo
  <2>4. g[n] = f[n] /\ longer[n + 1] = records[n + 1]
    BY <1>1, <1>5, <2>1
  <2> QED BY <2>1, <2>2, <2>3, <2>4
<1> HIDE DEF S
<1>6. m \in S
  <2>1. \A k \in 0 .. m - 1 : k \in S => k + 1 \in S
    BY <1>5
  <2>2. \A k \in 0 .. m : k \in S
    BY <1>1, <1>4, <2>1, UpTo
  <2> QED BY <1>1, <2>2
<1>7. g[m + 1] = AppendRecord(g[m], longer[m + 1])
  <2>1. m + 1 \in 0 .. m + 1 /\ m + 1 # 0 /\ (m + 1) - 1 = m
    BY <1>1
  <2> QED BY <1>3, <2>1 DEF WrittenUpTo
<1>8. g[m] = f[m]
  BY <1>6 DEF S
<1> QED BY <1>1, <1>2, <1>3, <1>7, <1>8 DEF longer

-----------------------------------------------------------------------------
(* The log                                                                 *)

\* The contents, messages and turns there can be; what calls a tool names the call.
Kinds == {"prompt", "text", "none", "call", "response", "masked"}
Contents == {content \in Kinds \X Int : content[1] = "call" => content[2] # NoCall}
MessageSet == [type : {"user", "gemini", "info"}, content : Contents, tool : Int, result : Contents]
HistoryTurns == [id : Int, content : Contents]

\* A log keeps each message under its id, and each id once.
IsLog(log) ==
    /\ log = [ids |-> log.ids, body |-> log.body]
    /\ log.ids \in Seq(Int) /\ Unrepeated(log.ids)
    /\ log.body \in [ToSet(log.ids) -> MessageSet]

\* The ids that were given, and those made of them
Within(ids, n) == \A x \in ids : -n <= x /\ x <= n

\* What a message of the log is, by its id: the one that holds the result of a call
\* is the model's and is named by a given id, as a notice is; the environment's has
\* its own id, and what was made up for a call is a response.
GoodMessage(id, m) ==
    /\ m.tool # NoCall =>
          m.type = "gemini" /\ id > 0 /\ m.result \in {Response(m.tool), Masked(m.tool)}
    /\ m.type = "info" => id > 0
    /\ id = EnvId => m.type = "user" /\ m.content = EnvTurn.content
    /\ id < 0 => m.type = "user" /\ Answering(m.content)
    /\ m.type = "gemini" /\ m.content[1] = "call" => m.tool \in {NoCall, m.content[2]}

\* One message holds the result of a call.
OneMessagePerTool(log) ==
    \A x, y \in ToSet(log.ids) :
       log.body[x].tool = log.body[y].tool /\ log.body[x].tool # NoCall => x = y

\* A response that was made up for a call stands behind it, with notices between
\* the two at most.
Echo(log, x) ==
    /\ -x \in ToSet(log.ids)
    /\ log.body[-x].tool # NoCall /\ log.body[x].content[2] = log.body[-x].tool
    /\ Precedes(log.ids, -x, x)
    /\ \A y : Precedes(log.ids, -x, y) /\ Precedes(log.ids, y, x) => log.body[y].type = "info"

\* What holds of the log between two steps, live or not
Sound(log, n) ==
    /\ IsLog(log)
    /\ Within(ToSet(log.ids), n)
    /\ \A x \in ToSet(log.ids) : GoodMessage(x, log.body[x])
    /\ OneMessagePerTool(log)
    /\ \A x \in ToSet(log.ids) : x < 0 => Echo(log, x)

\* The ids of a log are those its messages are kept under.
LEMMA LogDomain ==
    ASSUME NEW log, IsLog(log)
    PROVE  /\ DOMAIN log.body = ToSet(log.ids)
           /\ \A x \in ToSet(log.ids) : x \in Int /\ log.body[x] \in MessageSet
<1>1. log.ids \in Seq(Int) /\ log.body \in [ToSet(log.ids) -> MessageSet]
  BY DEF IsLog
<1>2. \A x \in ToSet(log.ids) : x \in Int
  BY <1>1 DEF ToSet
<1> QED BY <1>1, <1>2

\* new is the log with a message more at its end.
Longer(new, log, id, m) ==
    /\ IsLog(new)
    /\ new.ids = Append(log.ids, id)
    /\ ToSet(new.ids) = ToSet(log.ids) \cup {id}
    /\ new.body[id] = m
    /\ \A x \in ToSet(log.ids) : new.body[x] = log.body[x]
    /\ \A x, y : Precedes(new.ids, x, y) <=>
                    Precedes(log.ids, x, y) \/ (x \in ToSet(log.ids) /\ y = id)

\* A message with a new id becomes the last one of the log.
LEMMA PlacedAtEnd ==
    ASSUME NEW log, IsLog(log), NEW id \in Int, id \notin ToSet(log.ids), NEW m \in MessageSet
    PROVE  Longer(Placed(log, id, m), log, id, m)
<1> DEFINE new == Placed(log, id, m)
<1>1. DOMAIN log.body = ToSet(log.ids) /\ log.ids \in Seq(Int) /\ Unrepeated(log.ids)
  BY LogDomain DEF IsLog
<1>2. new = [ids |-> Append(log.ids, id), body |-> Put(log.body, id, m)]
  BY <1>1 DEF Placed
<1>3. new.ids = Append(log.ids, id) /\ new.body = Put(log.body, id, m)
  BY <1>2
<1>4. /\ Append(log.ids, id) \in Seq(Int)
      /\ ToSet(Append(log.ids, id)) = ToSet(log.ids) \cup {id}
      /\ \A x, y : Precedes(Append(log.ids, id), x, y) <=>
                      Precedes(log.ids, x, y) \/ (x \in ToSet(log.ids) /\ y = id)
      /\ Unrepeated(Append(log.ids, id))
  BY <1>1, AppendOrder
<1>5. /\ Put(log.body, id, m) \in [ToSet(log.ids) \cup {id} -> MessageSet]
      /\ Put(log.body, id, m)[id] = m
      /\ \A x \in ToSet(log.ids) : Put(log.body, id, m)[x] = log.body[x]
  BY <1>1, LogDomain DEF Put
<1> HIDE DEF new
<1>6. new = [ids |-> new.ids, body |-> new.body]
  BY <1>2, <1>3
<1>7. IsLog(new)
  BY <1>3, <1>4, <1>5, <1>6 DEF IsLog
<1>8. Longer(new, log, id, m)
  BY <1>3, <1>4, <1>5, <1>7 DEF Longer
<1> QED BY <1>8 DEF new

\* A log stays sound with one more message that is not made up for a call.
LEMMA PlacedSound ==
    ASSUME NEW n \in Nat, NEW log, Sound(log, n), NEW id \in Int, id \notin ToSet(log.ids),
           0 <= id, id <= n, NEW m \in MessageSet, GoodMessage(id, m),
           m.tool # NoCall => \A x \in ToSet(log.ids) : log.body[x].tool # m.tool
    PROVE  Sound(Placed(log, id, m), n)
<1> DEFINE new == Placed(log, id, m)
<1>s. IsLog(log)
  BY DEF Sound
<1>0. /\ IsLog(new)
      /\ ToSet(new.ids) = ToSet(log.ids) \cup {id}
      /\ new.body[id] = m
      /\ \A x \in ToSet(log.ids) : new.body[x] = log.body[x]
      /\ \A x, y : Precedes(new.ids, x, y) <=>
                      Precedes(log.ids, x, y) \/ (x \in ToSet(log.ids) /\ y = id)
  <2>1. Longer(new, log, id, m)
    BY <1>s, PlacedAtEnd
  <2> QED BY <2>1 DEF Longer
<1> HIDE DEF new
<1>1. Within(ToSet(new.ids), n)
  BY <1>0 DEF Sound, Within
<1>2. \A x \in ToSet(new.ids) : GoodMessage(x, new.body[x])
  BY <1>0 DEF Sound
<1>3. OneMessagePerTool(new)
  BY <1>0 DEF Sound, OneMessagePerTool
<1>4. ASSUME NEW x \in ToSet(new.ids), x < 0 PROVE Echo(new, x)
  <2>1. x \in ToSet(log.ids) /\ x # id
    BY <1>0, <1>4
  <2>2. Echo(log, x)
    BY <1>4, <2>1 DEF Sound
  <2>3. -x \in ToSet(log.ids) /\ -x \in ToSet(new.ids)
    BY <1>0, <2>2 DEF Echo
  <2>4. new.body[-x] = log.body[-x] /\ new.body[x] = log.body[x] /\ Precedes(new.ids, -x, x)
    BY <1>0, <2>1, <2>2, <2>3 DEF Echo
  <2>5. ASSUME NEW y, Precedes(new.ids, -x, y), Precedes(new.ids, y, x)
        PROVE  new.body[y].type = "info"
    <3>1. Precedes(log.ids, y, x)
      BY <1>0, <2>1, <2>5
    <3>2. y \in ToSet(log.ids)
      BY <3>1, PrecedesIsOrder DEF Sound, IsLog
    <3>3. Precedes(log.ids, -x, y)
      BY <1>0, <2>5, <3>2
    <3> QED BY <1>0, <2>2, <3>1, <3>2, <3>3 DEF Echo
  <2> QED BY <2>2, <2>3, <2>4, <2>5 DEF Echo
<1> QED BY <1>0, <1>1, <1>2, <1>3, <1>4 DEF Sound, new

-----------------------------------------------------------------------------
(* What is appended to it, and where the step may be cut short             *)

\* Written to the disk, the records yield the log, and wherever the step may stop
\* they have left a sound one.
Safe(records, log, n) ==
    /\ records \in Seq(ToSet(records))
    /\ Written(disk, records) = [log |-> log, torn |-> FALSE]
    /\ \A k \in 0 .. Len(records) :
          MisplacedAfter(records, k) \/ Sound(Written(disk, SubSeq(records, 1, k)).log, n)

\* A sequence is one of its own elements.
LEMMA SeqOfOwn ==
    ASSUME NEW R, NEW s \in Seq(R)
    PROVE  s \in Seq(ToSet(s))
<1>1. DOMAIN s = 1 .. Len(s) /\ Len(s) \in Nat /\ \A i \in DOMAIN s : s[i] \in ToSet(s)
  BY DEF ToSet
<1>2. s = [i \in 1 .. Len(s) |-> s[i]]
  BY <1>1
<1> HIDE <1>2
<1>3. [i \in 1 .. Len(s) |-> s[i]] \in Seq(ToSet(s))
  BY <1>1
<1> QED BY <1>2, <1>3

\* The places and the prefixes of a sequence with one more element
LEMMA AppendParts ==
    ASSUME NEW R, NEW s \in Seq(R), NEW r
    PROVE  /\ Append(s, r) \in Seq(ToSet(Append(s, r)))
           /\ Len(Append(s, r)) = Len(s) + 1
           /\ Append(s, r)[Len(s) + 1] = r
           /\ \A i \in 1 .. Len(s) : Append(s, r)[i] = s[i]
           /\ SubSeq(Append(s, r), 1, Len(s) + 1) = Append(s, r)
           /\ \A k \in 0 .. Len(s) : SubSeq(Append(s, r), 1, k) = SubSeq(s, 1, k)
<1> DEFINE t == Append(s, r)
           m == Len(s)
<1>0. s \in Seq(R \cup {r})
  BY SeqMonotonic
<1>1. /\ t \in Seq(R \cup {r}) /\ Len(t) = m + 1 /\ m \in Nat
      /\ \A i \in 1 .. m : t[i] = s[i]
      /\ t[m + 1] = r
  BY <1>0
<1> HIDE DEF t
<1>2. t \in Seq(ToSet(t))
  BY <1>1, SeqOfOwn
<1>3. SubSeq(t, 1, m + 1) = t
  <2>1. /\ SubSeq(t, 1, m + 1) \in Seq(R \cup {r}) /\ Len(SubSeq(t, 1, m + 1)) = m + 1
        /\ \A i \in 1 .. m + 1 : SubSeq(t, 1, m + 1)[i] = t[i]
    BY <1>1, SubSeqProperties
  <2> QED BY <1>1, <2>1, SeqEqual
<1>4. ASSUME NEW k \in 0 .. m PROVE SubSeq(t, 1, k) = SubSeq(s, 1, k)
  <2>1. /\ SubSeq(t, 1, k) \in Seq(R \cup {r}) /\ Len(SubSeq(t, 1, k)) = k
        /\ \A i \in 1 .. k : SubSeq(t, 1, k)[i] = t[i]
    BY <1>1, SubSeqProperties
  <2>2. /\ SubSeq(s, 1, k) \in Seq(R \cup {r}) /\ Len(SubSeq(s, 1, k)) = k
        /\ \A i \in 1 .. k : SubSeq(s, 1, k)[i] = s[i]
    BY <1>0, <1>1, SubSeqProperties
  <2>3. \A i \in 1 .. k : SubSeq(t, 1, k)[i] = SubSeq(s, 1, k)[i]
    BY <1>1, <2>1, <2>2
  <2> QED BY <2>1, <2>2, <2>3, SeqEqual
<1> QED BY <1>1, <1>2, <1>3, <1>4 DEF t

\* Records stay safe with one more, when it leaves a sound log or may not be the
\* last one that is written.
LEMMA SafeAppend ==
    ASSUME NEW n \in Nat, NEW records, NEW log, Safe(records, log, n), NEW r,
           MisplacedAfter(Append(records, r), Len(records) + 1) \/ Sound(Replayed(log, r), n)
    PROVE  Safe(Append(records, r), Replayed(log, r), n)
<1> DEFINE t == Append(records, r)
           m == Len(records)
<1>0. records \in Seq(ToSet(records)) /\ m \in Nat
  BY DEF Safe
<1>1. /\ t \in Seq(ToSet(t)) /\ Len(t) = m + 1 /\ t[m + 1] = r
      /\ \A i \in 1 .. m : t[i] = records[i]
      /\ SubSeq(t, 1, m + 1) = t
      /\ \A k \in 0 .. m : SubSeq(t, 1, k) = SubSeq(records, 1, k)
  BY <1>0, AppendParts
<1>2. Written(disk, t) = AppendRecord(Written(disk, records), r)
  BY <1>0, WrittenAppend
<1>3. Written(disk, records) = [log |-> log, torn |-> FALSE]
  BY DEF Safe
<1>4. Written(disk, t) = [log |-> Replayed(log, r), torn |-> FALSE]
  BY <1>2, <1>3 DEF AppendRecord
<1> HIDE DEF t
<1>5. ASSUME NEW k \in 0 .. Len(t)
      PROVE  MisplacedAfter(t, k) \/ Sound(Written(disk, SubSeq(t, 1, k)).log, n)
  <2>1. CASE k = m + 1
    <3>1. SubSeq(t, 1, k) = t
      BY <1>1, <2>1
    <3>2. MisplacedAfter(t, k) \/ Sound(Replayed(log, r), n)
      BY <2>1 DEF t
    <3>3. Written(disk, SubSeq(t, 1, k)).log = Replayed(log, r)
      <4>1. Written(disk, SubSeq(t, 1, k)) = [log |-> Replayed(log, r), torn |-> FALSE]
        BY <1>4, <3>1, Zenon
      <4> QED BY <4>1
    <3> QED BY <3>2, <3>3
  <2>2. CASE k \in 0 .. m
    <3>1. MisplacedAfter(records, k) => MisplacedAfter(t, k)
      <4> SUFFICES ASSUME MisplacedAfter(records, k) PROVE MisplacedAfter(t, k)
        OBVIOUS
      <4>1. PICK i \in 1 .. k : /\ \A j \in i .. k : records[j].op = "message"
                                /\ records[i].id < 0
        BY DEF MisplacedAfter
      <4>2. \A j \in i .. k : j \in 1 .. m
        BY <1>0, <2>2
      <4>3. i \in 1 .. m
        BY <1>0, <2>2
      <4> QED BY <1>1, <4>1, <4>2, <4>3 DEF MisplacedAfter
    <3>2. MisplacedAfter(records, k) \/ Sound(Written(disk, SubSeq(records, 1, k)).log, n)
      BY <2>2 DEF Safe
    <3> QED BY <1>1, <2>2, <3>1, <3>2
  <2> QED BY <1>0, <1>1, <2>1, <2>2
<1> QED BY <1>1, <1>4, <1>5 DEF Safe, t

-----------------------------------------------------------------------------
(* What the service knows of the log                                       *)

\* The calls whose results the messages hold
ToolsIn(log, ids) == {log.body[x].tool : x \in ToSet(ids)} \ {NoCall}

\* The fields of the service's memory
IsMemory(s) ==
    s = [window |-> s.window, order |-> s.order, prints |-> s.prints, results |-> s.results,
         evicted |-> s.evicted, appended |-> s.appended]

\* The index has the result of a call as the log has it.
KnowsResult(s, log, c) ==
    LET r == s.results[c]
    IN /\ r = [message |-> r.message, print |-> r.print]
       /\ r.message \in ToSet(s.order)
       /\ log.body[r.message].tool = c /\ log.body[r.message].result = r.print

\* The index has the ids of the log in their order, with the fingerprints of their
\* contents and results; only notices may be in the log alone.
Indexes(s, log) ==
    /\ s.order \in Seq(Int) /\ Only(log.ids, ToSet(s.order)) = s.order
    /\ s.prints = [x \in ToSet(s.order) |-> log.body[x].content]
    /\ DOMAIN s.results = ToolsIn(log, s.order)
    /\ \A c \in DOMAIN s.results : KnowsResult(s, log, c)
    /\ \A x \in ToSet(log.ids) \ ToSet(s.order) : log.body[x].type = "info"

\* It has the latest of these messages as the window, and knows whether others were
\* evicted.
Knows(s, log) ==
    /\ IsMemory(s) /\ Indexes(s, log)
    /\ s.window = Chosen(log, Ending(s.order, Window))
    /\ s.evicted = (Len(s.order) > Window)

\* The service knows the log, which is sound and safely written.
Stands(s, log, n) == Knows(s, log) /\ Sound(log, n) /\ Safe(s.appended, log, n)

\* The order of the index is that of the log.
LEMMA OrderFacts ==
    ASSUME NEW log, IsLog(log), NEW ids \in Seq(Int), Only(log.ids, ToSet(ids)) = ids
    PROVE  /\ Unrepeated(ids) /\ ToSet(ids) \subseteq ToSet(log.ids)
           /\ \A x, y : Precedes(ids, x, y) <=>
                           Precedes(log.ids, x, y) /\ x \in ToSet(ids) /\ y \in ToSet(ids)
<1>1. log.ids \in Seq(Int) /\ Unrepeated(log.ids)
  BY DEF IsLog
<1>2. /\ ToSet(Only(log.ids, ToSet(ids))) = ToSet(log.ids) \cap ToSet(ids)
      /\ Unrepeated(Only(log.ids, ToSet(ids)))
      /\ \A x, y : Precedes(Only(log.ids, ToSet(ids)), x, y) <=>
                      Precedes(log.ids, x, y) /\ x \in ToSet(ids) /\ y \in ToSet(ids)
  BY <1>1, OnlyOrder
<1>3. ToSet(ids) = ToSet(log.ids) \cap ToSet(ids)
  BY <1>2
<1> QED BY <1>2, <1>3

\* To choose messages twice is to choose the fewer of them.
LEMMA ChosenChosen ==
    ASSUME NEW log, NEW v, NEW w, ToSet(v) \subseteq ToSet(w)
    PROVE  Chosen(Chosen(log, w), v) = Chosen(log, v)
BY DEF Chosen

\* Whoever knows the index and at least the latest messages knows the log once it
\* is trimmed.
LEMMA TrimmedKnows ==
    ASSUME NEW s, NEW log, IsLog(log), IsMemory(s), Indexes(s, log),
           NEW w \in Seq(Int), s.window = Chosen(log, w),
           Ending(w, Window) = Ending(s.order, Window)
    PROVE  /\ Knows(Trimmed(s), log)
           /\ Trimmed(s).order = s.order /\ Trimmed(s).appended = s.appended
<1> DEFINE t == Trimmed(s)
<1>0. Window \in Nat
  BY RecordingConstants
<1>1. s.order \in Seq(Int)
  BY DEF Indexes
<1>2. s.window.ids = w
  BY DEF Chosen
<1> DEFINE wi == Latest(s.window)
           u == [s EXCEPT !.window = wi]
           ev == Len(u.window.ids) < Len(u.order)
<1>2a. u = [window |-> wi, order |-> s.order, prints |-> s.prints, results |-> s.results,
            evicted |-> s.evicted, appended |-> s.appended]
  <2> HIDE DEF wi
  <2> QED BY DEF IsMemory
<1>2b. t = [u EXCEPT !.evicted = ev]
  BY Zenon DEF Trimmed
<1>2c. u.window = wi /\ u.order = s.order
  <2> HIDE DEF u, wi
  <2> QED BY <1>2a
<1>3. t = [window |-> wi, order |-> s.order, prints |-> s.prints,
           results |-> s.results, evicted |-> ev, appended |-> s.appended]
  <2> HIDE DEF wi, u, ev
  <2> QED BY <1>2a, <1>2b
<1>3a. wi.ids = Ending(w, Window)
  BY <1>2 DEF Latest, Chosen
<1>3b. ev = (Len(Ending(w, Window)) < Len(s.order))
  BY <1>2c, <1>3a, Zenon
<1> HIDE DEF wi, u, ev
<1>4. wi = Chosen(log, Ending(s.order, Window))
  <2>1. ToSet(Ending(w, Window)) \subseteq ToSet(w)
    BY <1>0, EndingOrder
  <2>2. Latest(s.window) = Chosen(Chosen(log, w), Ending(w, Window))
    BY <1>2 DEF Latest
  <2> QED BY <2>1, <2>2, ChosenChosen DEF wi
<1>5. (Len(Ending(w, Window)) < Len(s.order)) = (Len(s.order) > Window)
  <2>1. Len(Ending(s.order, Window)) = IF Len(s.order) > Window THEN Window ELSE Len(s.order)
    BY <1>0, <1>1, EndingPlaces
  <2>2. Len(s.order) \in Nat
    BY <1>1
  <2>3. Len(Ending(w, Window)) = Len(Ending(s.order, Window))
    OBVIOUS
  <2> QED BY <1>0, <2>1, <2>2, <2>3
<1> HIDE DEF t
<1>6. /\ t.window = wi /\ t.order = s.order /\ t.prints = s.prints
      /\ t.results = s.results /\ t.appended = s.appended
      /\ t.evicted = ev
  BY <1>3
<1>7. IsMemory(t)
  BY <1>3, <1>6 DEF IsMemory
<1>8. Indexes(t, log)
  BY <1>6 DEF Indexes, KnowsResult
<1>9. Knows(t, log)
  BY <1>3b, <1>4, <1>5, <1>6, <1>7, <1>8 DEF Knows
<1> QED BY <1>6, <1>9 DEF t

\* pushMessage of a new message: the memory keeps knowing the log, which it writes
\* safely.
LEMMA PushedNew ==
    ASSUME NEW n \in Nat, NEW s, NEW log, Stands(s, log, n),
           NEW id \in Int, id \notin ToSet(log.ids), 0 <= id, id <= n,
           NEW m \in MessageSet, GoodMessage(id, m), m.tool \notin DOMAIN s.results
    PROVE  /\ Stands(Pushed(s, id, m), Placed(log, id, m), n)
           /\ Pushed(s, id, m).order = Append(s.order, id)
<1> DEFINE new == Placed(log, id, m)
           e == Ending(s.order, Window)
           p == [window |-> Placed(s.window, id, m),
                 order |-> IF id \in DOMAIN s.prints THEN s.order ELSE Append(s.order, id),
                 prints |-> Put(s.prints, id, m.content),
                 results |-> IF m.tool = NoCall THEN s.results
                             ELSE Put(s.results, m.tool, ToolOf(id, m)),
                 evicted |-> s.evicted,
                 appended |-> Append(s.appended, MessageRecord(id, m))]
           r == MessageRecord(id, m)
<1>0. Window \in Nat
  BY RecordingConstants
<1>1. Knows(s, log) /\ Indexes(s, log) /\ Sound(log, n) /\ IsLog(log) /\ Safe(s.appended, log, n)
  BY DEF Stands, Knows, Sound
<1>2. s.order \in Seq(Int) /\ DOMAIN s.prints = ToSet(s.order)
  BY <1>1 DEF Indexes
<1>3. /\ Unrepeated(s.order) /\ ToSet(s.order) \subseteq ToSet(log.ids)
      /\ \A x, y : Precedes(s.order, x, y) <=>
                      Precedes(log.ids, x, y) /\ x \in ToSet(s.order) /\ y \in ToSet(s.order)
  BY <1>1, OrderFacts DEF Indexes
<1>4. Longer(new, log, id, m)
  BY <1>1, PlacedAtEnd
<1>5. Sound(new, n)
  <2>1. ASSUME m.tool # NoCall, NEW x \in ToSet(log.ids) PROVE log.body[x].tool # m.tool
    <3>1. CASE x \in ToSet(s.order)
      BY <1>1, <2>1, <3>1 DEF Indexes, ToolsIn
    <3>2. CASE x \notin ToSet(s.order)
      <4>1. log.body[x].type = "info" /\ GoodMessage(x, log.body[x])
        BY <1>1, <3>2 DEF Indexes, Sound
      <4> QED BY <2>1, <4>1 DEF GoodMessage
    <3> QED BY <3>1, <3>2
  <2> QED BY <1>1, <2>1, PlacedSound
<1>6. Safe(Append(s.appended, r), new, n)
  <2>1. Replayed(log, r) = new
    BY DEF Replayed, MessageRecord
  <2> QED BY <1>1, <1>5, <2>1, SafeAppend
<1>7. Pushed(s, id, m) = Trimmed(p)
  BY DEF Pushed
<1>8. id \notin ToSet(s.order)
  BY <1>3
<1>8a. Append(s.order, id) \in Seq(Int)
  BY <1>2
<1>9. /\ Append(s.order, id) \in Seq(Int)
      /\ ToSet(Append(s.order, id)) = ToSet(s.order) \cup {id}
      /\ Unrepeated(Append(s.order, id))
      /\ \A x, y : Precedes(Append(s.order, id), x, y) <=>
                      Precedes(s.order, x, y) \/ (x \in ToSet(s.order) /\ y = id)
  BY <1>2, <1>3, <1>8, <1>8a, AppendOrder
<1>10. /\ p.order = Append(s.order, id) /\ p.window = Placed(s.window, id, m)
       /\ p.prints = Put(s.prints, id, m.content) /\ p.evicted = s.evicted
       /\ p.appended = Append(s.appended, r)
       /\ p.results = IF m.tool = NoCall THEN s.results ELSE Put(s.results, m.tool, ToolOf(id, m))
       /\ IsMemory(p)
  BY <1>2, <1>8 DEF IsMemory
<1> HIDE DEF new, p, r
<1>11. Indexes(p, new)
  <2>1. Only(new.ids, ToSet(p.order)) = p.order
    <3>1. new.ids \in Seq(Int) /\ Unrepeated(new.ids)
      BY <1>4 DEF Longer, IsLog
    <3>2. ToSet(p.order) \subseteq ToSet(new.ids)
      BY <1>3, <1>4, <1>9, <1>10 DEF Longer
    <3>3. \A x, y : Precedes(p.order, x, y) => Precedes(new.ids, x, y)
      BY <1>3, <1>4, <1>9, <1>10 DEF Longer
    <3> QED BY <1>9, <1>10, <3>1, <3>2, <3>3, OnlyIs
  <2>2. \A x \in ToSet(p.order) : new.body[x] = IF x = id THEN m ELSE log.body[x]
    BY <1>3, <1>4, <1>8, <1>9, <1>10 DEF Longer
  <2>3. p.prints = [x \in ToSet(p.order) |-> new.body[x].content]
    <3>1. p.prints = [x \in ToSet(s.order) \cup {id} |-> IF x = id THEN m.content ELSE s.prints[x]]
      BY <1>2, <1>10 DEF Put
    <3>2. \A x \in ToSet(s.order) : s.prints[x] = log.body[x].content
      BY <1>1 DEF Indexes
    <3>3. \A x \in ToSet(s.order) \cup {id} :
             (IF x = id THEN m.content ELSE s.prints[x]) = new.body[x].content
      BY <1>9, <1>10, <2>2, <3>2
    <3> QED BY <1>9, <1>10, <3>1, <3>3
  <2>4. DOMAIN p.results = ToolsIn(new, p.order)
    <3>1. ToolsIn(new, p.order) = ToolsIn(log, s.order) \cup ({m.tool} \ {NoCall})
      BY <1>8, <1>9, <1>10, <2>2 DEF ToolsIn
    <3>2. DOMAIN p.results = DOMAIN s.results \cup ({m.tool} \ {NoCall})
      BY <1>10 DEF Put
    <3> QED BY <1>1, <3>1, <3>2 DEF Indexes
  <2>5. ASSUME NEW c \in DOMAIN p.results PROVE KnowsResult(p, new, c)
    <3>1. CASE c = m.tool /\ c # NoCall
      <4>1. p.results[c] = ToolOf(id, m)
        BY <1>10, <3>1 DEF Put
      <4> QED BY <1>9, <1>10, <2>2, <3>1, <4>1 DEF KnowsResult, ToolOf
    <3>2. CASE c \in DOMAIN s.results
      <4>1. p.results[c] = s.results[c]
        BY <1>10, <3>2 DEF Put
      <4>2. KnowsResult(s, log, c)
        BY <1>1, <3>2 DEF Indexes
      <4>3. s.results[c].message \in ToSet(s.order)
        BY <4>2 DEF KnowsResult
      <4>4. new.body[s.results[c].message] = log.body[s.results[c].message]
        BY <1>8, <1>9, <1>10, <2>2, <4>3
      <4> QED BY <1>9, <1>10, <4>1, <4>2, <4>3, <4>4 DEF KnowsResult
    <3> QED BY <1>10, <3>1, <3>2 DEF Put
  <2>6. \A x \in ToSet(new.ids) \ ToSet(p.order) : new.body[x].type = "info"
    BY <1>1, <1>4, <1>9, <1>10 DEF Longer, Indexes
  <2> QED BY <1>9, <1>10, <2>1, <2>3, <2>4, <2>5, <2>6 DEF Indexes
<1>12. p.window = Chosen(new, Append(e, id))
  <2>1. s.window = Chosen(log, e)
    BY <1>1 DEF Knows
  <2>2. /\ e \in Seq(Int) /\ ToSet(e) \subseteq ToSet(s.order)
    BY <1>0, <1>2, EndingOrder
  <2>3. ToSet(Append(e, id)) = ToSet(e) \cup {id}
    BY <2>2, AppendOrder, ZenonT(40)
  <2> HIDE DEF e
  <2>4. s.window.ids = e /\ s.window.body = [x \in ToSet(e) |-> log.body[x]]
    BY <2>1 DEF Chosen
  <2>5. id \notin DOMAIN s.window.body
    BY <1>8, <2>2, <2>4
  <2>6. p.window = [ids |-> Append(e, id), body |-> Put(s.window.body, id, m)]
    BY <1>10, <2>4, <2>5 DEF Placed
  <2>7. Put(s.window.body, id, m) = [x \in ToSet(e) \cup {id} |-> IF x = id THEN m ELSE log.body[x]]
    BY <2>4 DEF Put
  <2>8. \A x \in ToSet(e) \cup {id} : (IF x = id THEN m ELSE log.body[x]) = new.body[x]
    BY <1>3, <1>4, <2>2 DEF Longer
  <2> QED BY <2>3, <2>6, <2>7, <2>8 DEF Chosen
<1>13. Append(e, id) \in Seq(Int) /\ Ending(Append(e, id), Window) = Ending(p.order, Window)
  <2>1. e \in Seq(Int)
    BY <1>0, <1>2, EndingOrder
  <2>2. Append(e, id) \in Seq(Int)
    BY <2>1
  <2>3. Ending(Append(Ending(s.order, Window), id), Window) = Ending(Append(s.order, id), Window)
    BY <1>0, <1>2, EndingAppend
  <2> QED BY <1>10, <2>2, <2>3
<1>14. IsLog(new)
  BY <1>5 DEF Sound
<1>15. Knows(Trimmed(p), new) /\ Trimmed(p).order = p.order /\ Trimmed(p).appended = p.appended
  <2> HIDE DEF e
  <2> QED BY <1>10, <1>11, <1>12, <1>13, <1>14, TrimmedKnows
<1>16. Stands(Trimmed(p), new, n)
  BY <1>5, <1>6, <1>10, <1>15 DEF Stands
<1> QED BY <1>7, <1>10, <1>15, <1>16 DEF new

\* pushMessage of the last message with the result of its call: the message takes
\* the place of the one before, in memory and in the log.
LEMMA PushedAgain ==
    ASSUME NEW n \in Nat, NEW s, NEW log, Stands(s, log, n),
           NEW id \in ToSet(Ending(s.order, Window)), NEW m \in MessageSet, GoodMessage(id, m),
           m.type = "gemini", m.tool # NoCall, m.tool \notin DOMAIN s.results,
           log.body[id].type = "gemini", log.body[id].tool = NoCall
    PROVE  /\ Stands(Pushed(s, id, m), Placed(log, id, m), n)
           /\ Pushed(s, id, m).order = s.order
<1> DEFINE new == Placed(log, id, m)
           e == Ending(s.order, Window)
           p == [window |-> Placed(s.window, id, m),
                 order |-> IF id \in DOMAIN s.prints THEN s.order ELSE Append(s.order, id),
                 prints |-> Put(s.prints, id, m.content),
                 results |-> IF m.tool = NoCall THEN s.results
                             ELSE Put(s.results, m.tool, ToolOf(id, m)),
                 evicted |-> s.evicted,
                 appended |-> Append(s.appended, MessageRecord(id, m))]
           r == MessageRecord(id, m)
<1>0. Window \in Nat
  BY RecordingConstants
<1>1. Knows(s, log) /\ Indexes(s, log) /\ Sound(log, n) /\ IsLog(log) /\ Safe(s.appended, log, n)
  BY DEF Stands, Knows, Sound
<1>2. s.order \in Seq(Int) /\ DOMAIN s.prints = ToSet(s.order)
  BY <1>1 DEF Indexes
<1>3. /\ Unrepeated(s.order) /\ ToSet(s.order) \subseteq ToSet(log.ids)
      /\ \A x, y : Precedes(s.order, x, y) <=>
                      Precedes(log.ids, x, y) /\ x \in ToSet(s.order) /\ y \in ToSet(s.order)
  BY <1>1, OrderFacts DEF Indexes
<1>4. /\ e \in Seq(Int) /\ ToSet(e) \subseteq ToSet(s.order) /\ id \in ToSet(s.order)
      /\ id \in ToSet(log.ids)
  BY <1>0, <1>2, <1>3, EndingOrder
<1> HIDE DEF e
<1>5. DOMAIN log.body = ToSet(log.ids) /\ \A x \in ToSet(log.ids) : log.body[x] \in MessageSet
  BY <1>1, LogDomain
<1>6. new = [ids |-> log.ids, body |-> Put(log.body, id, m)]
  BY <1>4, <1>5 DEF Placed
<1>7. /\ new.ids = log.ids /\ new.body = Put(log.body, id, m)
      /\ DOMAIN new.body = ToSet(log.ids)
      /\ \A x \in ToSet(log.ids) : new.body[x] = IF x = id THEN m ELSE log.body[x]
  BY <1>4, <1>5, <1>6 DEF Put
<1>8. id > 0
  BY DEF GoodMessage
<1>a. /\ p.order = s.order /\ p.window = Placed(s.window, id, m)
      /\ p.prints = Put(s.prints, id, m.content) /\ p.evicted = s.evicted
      /\ p.appended = Append(s.appended, r)
      /\ p.results = Put(s.results, m.tool, ToolOf(id, m))
      /\ IsMemory(p)
  BY <1>2, <1>4 DEF IsMemory
<1>b. Replayed(log, r) = new
  BY DEF Replayed, MessageRecord
<1>c. Pushed(s, id, m) = Trimmed(p)
  BY DEF Pushed
<1> HIDE DEF new, p, r
<1>9. Sound(new, n)
  <2>1. IsLog(new)
    <3>1. new.body \in [ToSet(new.ids) -> MessageSet]
      BY <1>4, <1>5, <1>7 DEF Put
    <3>2. new = [ids |-> new.ids, body |-> new.body]
      BY <1>6, <1>7
    <3> QED BY <1>1, <1>7, <3>1, <3>2 DEF IsLog
  <2>2. Within(ToSet(new.ids), n)
    BY <1>1, <1>7 DEF Sound
  <2>3. \A x \in ToSet(new.ids) : GoodMessage(x, new.body[x])
    BY <1>1, <1>7 DEF Sound
  <2>4. \A x \in ToSet(log.ids) : log.body[x].tool # m.tool
    <3> SUFFICES ASSUME NEW x \in ToSet(log.ids) PROVE log.body[x].tool # m.tool
      OBVIOUS
    <3>1. CASE x \in ToSet(s.order)
      BY <1>1, <3>1 DEF Indexes, ToolsIn
    <3>2. CASE x \notin ToSet(s.order)
      <4>1. log.body[x].type = "info" /\ GoodMessage(x, log.body[x])
        BY <1>1, <3>2 DEF Indexes, Sound
      <4> QED BY <4>1 DEF GoodMessage
    <3> QED BY <3>1, <3>2
  <2>5. OneMessagePerTool(new)
    BY <1>1, <1>7, <2>4 DEF Sound, OneMessagePerTool
  <2>6. ASSUME NEW x \in ToSet(new.ids), x < 0 PROVE Echo(new, x)
    <3>1. Echo(log, x)
      BY <1>1, <1>7, <2>6 DEF Sound
    <3>2. -x \in ToSet(log.ids) /\ -x # id
      BY <3>1 DEF Echo
    <3>3. x \in ToSet(log.ids) /\ x # id
      <4>1. x \in Int /\ id \in Int /\ x \in ToSet(log.ids)
        BY <1>1, <1>4, <1>7, LogDomain
      <4> QED BY <1>8, <2>6, <4>1
    <3>4. new.body[x] = log.body[x] /\ new.body[-x] = log.body[-x]
      BY <1>7, <3>2, <3>3
    <3>5. ASSUME NEW y, Precedes(log.ids, -x, y), Precedes(log.ids, y, x)
          PROVE  new.body[y].type = "info"
      <4>1. log.body[y].type = "info"
        BY <3>1, <3>5 DEF Echo
      <4>2. y \in ToSet(log.ids)
        BY <1>1, <3>5, PrecedesIsOrder DEF IsLog
      <4>3. y # id
        BY <4>1
      <4> QED BY <1>7, <4>1, <4>2, <4>3
    <3> QED BY <1>7, <3>1, <3>4, <3>5 DEF Echo
  <2> QED BY <2>1, <2>2, <2>3, <2>5, <2>6 DEF Sound
<1>10. Safe(Append(s.appended, r), new, n)
  BY <1>1, <1>9, <1>b, SafeAppend
<1>11. Indexes(p, new)
  <2>1. Only(new.ids, ToSet(p.order)) = p.order
    BY <1>1, <1>7, <1>a DEF Indexes
  <2>2. \A x \in ToSet(p.order) : new.body[x] = IF x = id THEN m ELSE log.body[x]
    BY <1>3, <1>7, <1>a
  <2>3. p.prints = [x \in ToSet(p.order) |-> new.body[x].content]
    <3>1. p.prints = [x \in ToSet(s.order) |-> IF x = id THEN m.content ELSE s.prints[x]]
      <4>1. ToSet(s.order) \cup {id} = ToSet(s.order)
        BY <1>4
      <4> QED BY <1>2, <1>a, <4>1 DEF Put
    <3>2. \A x \in ToSet(s.order) : s.prints[x] = log.body[x].content
      BY <1>1 DEF Indexes
    <3>3. \A x \in ToSet(s.order) :
             (IF x = id THEN m.content ELSE s.prints[x]) = new.body[x].content
      BY <1>a, <2>2, <3>2
    <3> QED BY <1>a, <3>1, <3>3
  <2>4. DOMAIN p.results = ToolsIn(new, p.order)
    <3>1. ToolsIn(new, p.order) = ToolsIn(log, s.order) \cup {m.tool}
      <4>1. \A c \in ToolsIn(new, p.order) : c \in ToolsIn(log, s.order) \cup {m.tool}
        BY <1>a, <2>2 DEF ToolsIn
      <4>2. \A c \in ToolsIn(log, s.order) \cup {m.tool} : c \in ToolsIn(new, p.order)
        <5>1. m.tool \in ToolsIn(new, p.order)
          BY <1>4, <1>a, <2>2 DEF ToolsIn
        <5>2. ASSUME NEW c \in ToolsIn(log, s.order) PROVE c \in ToolsIn(new, p.order)
          <6>1. PICK x \in ToSet(s.order) : c = log.body[x].tool /\ c # NoCall
            BY DEF ToolsIn
          <6>2. x # id
            BY <6>1
          <6> QED BY <1>a, <2>2, <6>1, <6>2 DEF ToolsIn
        <5> QED BY <5>1, <5>2
      <4> QED BY <4>1, <4>2
    <3>2. DOMAIN p.results = DOMAIN s.results \cup {m.tool}
      BY <1>a DEF Put
    <3> QED BY <1>1, <3>1, <3>2 DEF Indexes
  <2>5. ASSUME NEW c \in DOMAIN p.results PROVE KnowsResult(p, new, c)
    <3>1. CASE c = m.tool
      <4>1. p.results[c] = ToolOf(id, m)
        BY <1>a, <3>1 DEF Put
      <4> QED BY <1>4, <1>a, <2>2, <3>1, <4>1 DEF KnowsResult, ToolOf
    <3>2. CASE c \in DOMAIN s.results
      <4>1. p.results[c] = s.results[c]
        BY <1>a, <3>2 DEF Put
      <4>2. KnowsResult(s, log, c)
        BY <1>1, <3>2 DEF Indexes
      <4>3. s.results[c].message \in ToSet(s.order) /\ log.body[s.results[c].message].tool = c
        BY <4>2 DEF KnowsResult
      <4>4. c # NoCall
        BY <1>1, <3>2 DEF Indexes, ToolsIn
      <4>5. new.body[s.results[c].message] = log.body[s.results[c].message]
        BY <1>a, <2>2, <4>3, <4>4
      <4> QED BY <1>a, <4>1, <4>2, <4>3, <4>5 DEF KnowsResult
    <3> QED BY <1>a, <3>1, <3>2 DEF Put
  <2>6. \A x \in ToSet(new.ids) \ ToSet(p.order) : new.body[x].type = "info"
    BY <1>1, <1>4, <1>7, <1>a DEF Indexes
  <2> QED BY <1>2, <1>a, <2>1, <2>3, <2>4, <2>5, <2>6 DEF Indexes
<1>12. p.window = Chosen(new, e)
  <2>1. s.window = Chosen(log, e)
    BY <1>1 DEF Knows, e
  <2>4. s.window.ids = e /\ s.window.body = [x \in ToSet(e) |-> log.body[x]]
    BY <2>1 DEF Chosen
  <2>5. id \in ToSet(e)
    BY DEF e
  <2>6. p.window = [ids |-> e, body |-> Put(s.window.body, id, m)]
    BY <1>a, <2>4, <2>5 DEF Placed
  <2>7. Put(s.window.body, id, m) = [x \in ToSet(e) |-> IF x = id THEN m ELSE log.body[x]]
    <3>1. ToSet(e) \cup {id} = ToSet(e)
      BY <2>5
    <3> QED BY <2>4, <3>1 DEF Put
  <2>8. \A x \in ToSet(e) : (IF x = id THEN m ELSE log.body[x]) = new.body[x]
    BY <1>3, <1>4, <1>7
  <2> QED BY <2>6, <2>7, <2>8 DEF Chosen
<1>13. Ending(e, Window) = Ending(p.order, Window)
  <2>1. Len(e) <= Window
    BY <1>0, <1>2, EndingOrder DEF e
  <2>2. Ending(e, Window) = e
    BY <1>0, <1>4, <2>1, EndingOfAll
  <2> QED BY <1>a, <2>2 DEF e
<1>15. Knows(Trimmed(p), new) /\ Trimmed(p).order = p.order /\ Trimmed(p).appended = p.appended
  BY <1>4, <1>9, <1>a, <1>11, <1>12, <1>13, TrimmedKnows DEF Sound
<1>16. Stands(Trimmed(p), new, n)
  BY <1>9, <1>10, <1>a, <1>15 DEF Stands
<1> QED BY <1>a, <1>c, <1>15, <1>16 DEF new

-----------------------------------------------------------------------------
(* Several new messages at the end of the log                              *)

\* The elements of a prefix
LEMMA Prefix ==
    ASSUME NEW T, NEW s \in Seq(T), NEW k \in 0 .. Len(s)
    PROVE  /\ SubSeq(s, 1, k) \in Seq(T) /\ Len(SubSeq(s, 1, k)) = k
           /\ \A i \in 1 .. k : SubSeq(s, 1, k)[i] = s[i]
           /\ ToSet(SubSeq(s, 1, k)) = {s[i] : i \in 1 .. k}
<1> DEFINE t == SubSeq(s, 1, k)
<1>0. Len(s) \in Nat /\ DOMAIN s = 1 .. Len(s)
  OBVIOUS
<1>1. t \in Seq(T) /\ Len(t) = k /\ \A i \in 1 .. k : t[i] = s[i]
  BY <1>0, SubSeqProperties
<1> HIDE DEF t
<1>2. DOMAIN t = 1 .. k
  BY <1>1
<1>3. ToSet(t) = {s[i] : i \in 1 .. k}
  BY <1>1, <1>2 DEF ToSet
<1> QED BY <1>1, <1>3 DEF t

\* The longest prefix is the sequence.
LEMMA WholePrefix ==
    ASSUME NEW T, NEW s \in Seq(T)
    PROVE  SubSeq(s, 1, Len(s)) = s
<1>1. Len(s) \in Nat /\ Len(s) \in 0 .. Len(s)
  OBVIOUS
<1> QED BY <1>1, Prefix, SeqEqual

\* The shortest prefix is empty.
LEMMA NoPrefix ==
    ASSUME NEW T, NEW s \in Seq(T)
    PROVE  SubSeq(s, 1, 0) = << >>
<1>1. 0 \in 0 .. Len(s)
  OBVIOUS
<1>2. SubSeq(s, 1, 0) \in Seq(T) /\ Len(SubSeq(s, 1, 0)) = 0
  BY <1>1, Prefix
<1> QED BY <1>2

\* A prefix with one more element
LEMMA LongerPrefix ==
    ASSUME NEW T, NEW s \in Seq(T), NEW k \in 0 .. Len(s) - 1
    PROVE  SubSeq(s, 1, k + 1) = Append(SubSeq(s, 1, k), s[k + 1])
<1> DEFINE a == SubSeq(s, 1, k)
           b == SubSeq(s, 1, k + 1)
<1>1. k \in 0 .. Len(s) /\ k + 1 \in 0 .. Len(s) /\ k + 1 \in DOMAIN s /\ k \in Nat
  OBVIOUS
<1>2. a \in Seq(T) /\ Len(a) = k /\ \A i \in 1 .. k : a[i] = s[i]
  BY <1>1, Prefix
<1>3. b \in Seq(T) /\ Len(b) = k + 1 /\ \A i \in 1 .. k + 1 : b[i] = s[i]
  BY <1>1, Prefix
<1>4. s[k + 1] \in T
  BY <1>1
<1> HIDE DEF a, b
<1>5. Append(a, s[k + 1]) \in Seq(T) /\ Len(Append(a, s[k + 1])) = k + 1
  BY <1>1, <1>2, <1>4
<1>6. \A i \in 1 .. k + 1 : Append(a, s[k + 1])[i] = b[i]
  BY <1>1, <1>2, <1>3, <1>4
<1>7. b = Append(a, s[k + 1])
  BY <1>3, <1>5, <1>6, SeqEqual
<1> QED BY <1>7, Zenon DEF a, b

\* Equality of sequences, by a name that keeps the prover from rewriting with it
Same(s, t) == s = t

\* The places of a concatenation
LEMMA ConcatPlaces ==
    ASSUME NEW T, NEW s \in Seq(T), NEW t \in Seq(T)
    PROVE  /\ s \o t \in Seq(T) /\ Len(s \o t) = Len(s) + Len(t)
           /\ \A i \in 1 .. Len(s) : (s \o t)[i] = s[i]
           /\ \A i \in 1 .. Len(t) : (s \o t)[Len(s) + i] = t[i]
OBVIOUS

\* Appending to a concatenation is appending to its second part.
LEMMA ConcatAppend ==
    ASSUME NEW T, NEW s \in Seq(T), NEW t \in Seq(T), NEW x \in T
    PROVE  Same(s \o Append(t, x), Append(s \o t, x))
<1> DEFINE a == Append(t, x)
           b == s \o t
           m == Len(s)
           k == Len(t)
<1>0. m \in Nat /\ k \in Nat
  OBVIOUS
<1>1. /\ a \in Seq(T) /\ Len(a) = k + 1
      /\ \A i \in 1 .. k : a[i] = t[i]
      /\ a[k + 1] = x
  OBVIOUS
<1>2. /\ b \in Seq(T) /\ Len(b) = m + k
      /\ \A i \in 1 .. m : b[i] = s[i]
      /\ \A i \in m + 1 .. m + k : b[i] = t[i - m]
  OBVIOUS
<1> HIDE DEF a, b
<1>3. /\ s \o a \in Seq(T) /\ Len(s \o a) = m + k + 1
      /\ \A i \in 1 .. m : (s \o a)[i] = s[i]
      /\ \A i \in m + 1 .. m + k + 1 : (s \o a)[i] = a[i - m]
  BY <1>1
<1>4. /\ Append(b, x) \in Seq(T) /\ Len(Append(b, x)) = m + k + 1
      /\ \A i \in 1 .. m + k : Append(b, x)[i] = b[i]
      /\ Append(b, x)[m + k + 1] = x
  BY <1>2
<1> HIDE DEF m, k
<1>5. ASSUME NEW i \in 1 .. m + k + 1 PROVE (s \o a)[i] = Append(b, x)[i]
  <2>1. CASE i \in 1 .. m
    <3>1. i \in 1 .. m + k
      BY <1>0, <2>1
    <3> QED BY <1>2, <1>3, <1>4, <2>1, <3>1
  <2>2. CASE i \in m + 1 .. m + k
    <3>1. i \in 1 .. m + k /\ i - m \in 1 .. k /\ i \in m + 1 .. m + k + 1
      BY <1>0, <2>2
    <3> QED BY <1>1, <1>2, <1>3, <1>4, <2>2, <3>1
  <2>3. CASE i = m + k + 1
    <3>1. i - m = k + 1 /\ i \in m + 1 .. m + k + 1
      BY <1>0, <2>3
    <3> QED BY <1>1, <1>3, <1>4, <2>3, <3>1
  <2>4. i \in 1 .. m \/ i \in m + 1 .. m + k \/ i = m + k + 1
    BY <1>0
  <2> QED BY <2>1, <2>2, <2>3, <2>4, Zenon
<1>6. s \o a = Append(b, x)
  BY <1>3, <1>4, <1>5, SeqEqual
<1> QED BY <1>6, Zenon DEF a, b, Same

\* The log with several messages at its end, their records, and what it is then
Grown(log, ids, f) ==
    [ids |-> log.ids \o ids,
     body |-> [x \in ToSet(log.ids) \cup ToSet(ids) |->
                  IF x \in ToSet(ids) THEN f[x] ELSE log.body[x]]]
RecordsOf(ids, f) == [i \in DOMAIN ids |-> MessageRecord(ids[i], f[ids[i]])]

GrownAs(new, log, ids, f) ==
    /\ IsLog(new) /\ new.ids = log.ids \o ids
    /\ ToSet(new.ids) = ToSet(log.ids) \cup ToSet(ids)
    /\ \A x \in ToSet(ids) : new.body[x] = f[x]
    /\ \A x \in ToSet(log.ids) : new.body[x] = log.body[x]
    /\ \A x, y : Precedes(new.ids, x, y) <=>
          \/ Precedes(log.ids, x, y) \/ Precedes(ids, x, y)
          \/ x \in ToSet(log.ids) /\ y \in ToSet(ids)

\* The ids and the messages of a log with several more of them
LEMMA GrownLog ==
    ASSUME NEW log, IsLog(log), NEW ids \in Seq(Int), Unrepeated(ids),
           ToSet(ids) \cap ToSet(log.ids) = {}, NEW f, \A x \in ToSet(ids) : f[x] \in MessageSet
    PROVE  GrownAs(Grown(log, ids, f), log, ids, f)
<1> DEFINE new == Grown(log, ids, f)
           all == log.ids \o ids
           body == [x \in ToSet(log.ids) \cup ToSet(ids) |->
                       IF x \in ToSet(ids) THEN f[x] ELSE log.body[x]]
<1>0. log.ids \in Seq(Int) /\ Unrepeated(log.ids)
  BY DEF IsLog
<1>1. new = [ids |-> all, body |-> body]
  BY DEF Grown
<1>2. /\ all \in Seq(Int) /\ ToSet(all) = ToSet(log.ids) \cup ToSet(ids)
      /\ Unrepeated(all)
      /\ \A x, y : Precedes(all, x, y) <=>
            \/ Precedes(log.ids, x, y) \/ Precedes(ids, x, y)
            \/ x \in ToSet(log.ids) /\ y \in ToSet(ids)
  BY <1>0, ConcatOrder
<1>3. \A x \in ToSet(log.ids) \cup ToSet(ids) : body[x] \in MessageSet
  BY LogDomain
<1>4. body \in [ToSet(log.ids) \cup ToSet(ids) -> MessageSet]
  BY <1>3
<1>5. \A x \in ToSet(ids) : body[x] = f[x]
  OBVIOUS
<1>6. \A x \in ToSet(log.ids) : body[x] = log.body[x]
  OBVIOUS
<1>a. all = log.ids \o ids
  OBVIOUS
<1> HIDE DEF all, body, new
<1>7. new.ids = all /\ new.body = body /\ new = [ids |-> new.ids, body |-> new.body]
  BY <1>1
<1>8. IsLog(new)
  BY <1>2, <1>4, <1>7 DEF IsLog
<1>9. GrownAs(new, log, ids, f)
  BY <1>2, <1>5, <1>6, <1>7, <1>8, <1>a DEF GrownAs
<1> QED BY <1>9 DEF new

\* Several messages are put at the end of the log one by one.
LEMMA GrownByOne ==
    ASSUME NEW log, IsLog(log), NEW ids \in Seq(Int), NEW f, NEW x \in Int,
           x \notin ToSet(log.ids), x \notin ToSet(ids)
    PROVE  Same(Grown(log, Append(ids, x), f), Placed(Grown(log, ids, f), x, f[x]))
<1> DEFINE g == Grown(log, ids, f)
           all == ToSet(log.ids) \cup ToSet(ids)
<1>0. log.ids \in Seq(Int)
  BY DEF IsLog
<1>1. ToSet(Append(ids, x)) = ToSet(ids) \cup {x}
  BY AppendOrder
<1>2. log.ids \o Append(ids, x) = Append(log.ids \o ids, x)
  <2>1. Same(log.ids \o Append(ids, x), Append(log.ids \o ids, x))
    BY <1>0, ConcatAppend
  <2> QED BY <2>1, Zenon DEF Same
<1>3. g.ids = log.ids \o ids /\ g.body = [y \in all |-> IF y \in ToSet(ids) THEN f[y] ELSE log.body[y]]
  BY DEF Grown
<1> HIDE DEF g
<1>4. Placed(g, x, f[x]) = [ids |-> Append(log.ids \o ids, x), body |-> Put(g.body, x, f[x])]
  BY <1>3 DEF Placed
<1>5. Put(g.body, x, f[x]) =
         [y \in all \cup {x} |-> IF y = x THEN f[x] ELSE IF y \in ToSet(ids) THEN f[y] ELSE log.body[y]]
  BY <1>3 DEF Put
<1>6. Grown(log, Append(ids, x), f) =
         [ids |-> Append(log.ids \o ids, x),
          body |-> [y \in ToSet(log.ids) \cup (ToSet(ids) \cup {x}) |->
                       IF y \in ToSet(ids) \cup {x} THEN f[y] ELSE log.body[y]]]
  BY <1>1, <1>2 DEF Grown
<1>7. [y \in ToSet(log.ids) \cup (ToSet(ids) \cup {x}) |->
          IF y \in ToSet(ids) \cup {x} THEN f[y] ELSE log.body[y]]
       = [y \in all \cup {x} |-> IF y = x THEN f[x] ELSE IF y \in ToSet(ids) THEN f[y] ELSE log.body[y]]
  <2>1. ToSet(log.ids) \cup (ToSet(ids) \cup {x}) = all \cup {x}
    OBVIOUS
  <2> QED BY <2>1
<1>8. Grown(log, Append(ids, x), f) = Placed(g, x, f[x])
  BY <1>4, <1>5, <1>6, <1>7
<1> QED BY <1>8, Zenon DEF g, Same

\* Without more messages the log stays as it is.
LEMMA GrownByNothing ==
    ASSUME NEW log, IsLog(log), NEW f
    PROVE  Grown(log, << >>, f) = log
<1>0. log.ids \in Seq(Int) /\ ToSet(<< >>) = {} /\ DOMAIN log.body = ToSet(log.ids)
  BY NoElement, LogDomain DEF IsLog
<1>1. log.ids \o << >> = log.ids
  BY <1>0
<1>2. log.body = [x \in ToSet(log.ids) |-> log.body[x]]
  BY <1>0 DEF IsLog
<1>3. [x \in ToSet(log.ids) \cup ToSet(<< >>) |->
          IF x \in ToSet(<< >>) THEN f[x] ELSE log.body[x]] = [x \in ToSet(log.ids) |-> log.body[x]]
  BY <1>0
<1>4. log = [ids |-> log.ids, body |-> log.body]
  BY DEF IsLog
<1>5. Grown(log, << >>, f) = [ids |-> log.ids, body |-> [x \in ToSet(log.ids) |-> log.body[x]]]
  BY <1>1, <1>3 DEF Grown
<1> HIDE <1>2, <1>4
<1> QED BY <1>2, <1>4, <1>5, Zenon

\* The records of several messages are appended one by one.
LEMMA RecordsOfAppend ==
    ASSUME NEW ids \in Seq(Int), NEW f, NEW x \in Int,
           NEW R, \A y \in ToSet(ids) \cup {x} : MessageRecord(y, f[y]) \in R
    PROVE  /\ RecordsOf(ids, f) \in Seq(R) /\ Len(RecordsOf(ids, f)) = Len(ids)
           /\ \A i \in 1 .. Len(ids) : RecordsOf(ids, f)[i] = MessageRecord(ids[i], f[ids[i]])
           /\ Same(RecordsOf(Append(ids, x), f), Append(RecordsOf(ids, f), MessageRecord(x, f[x])))
<1> DEFINE a == RecordsOf(ids, f)
           more == Append(ids, x)
           b == RecordsOf(more, f)
           c == Append(a, MessageRecord(x, f[x]))
<1>0. /\ more \in Seq(Int) /\ Len(more) = Len(ids) + 1 /\ DOMAIN more = 1 .. Len(ids) + 1
      /\ \A i \in 1 .. Len(ids) : more[i] = ids[i]
      /\ more[Len(ids) + 1] = x
      /\ DOMAIN ids = 1 .. Len(ids) /\ Len(ids) \in Nat
  OBVIOUS
<1>1. \A i \in DOMAIN ids : MessageRecord(ids[i], f[ids[i]]) \in R
  BY DEF ToSet
<1>2. /\ a \in Seq(R) /\ Len(a) = Len(ids)
      /\ \A i \in 1 .. Len(ids) : a[i] = MessageRecord(ids[i], f[ids[i]])
  <2>1. a = [i \in 1 .. Len(ids) |-> MessageRecord(ids[i], f[ids[i]])]
    BY <1>0 DEF RecordsOf
  <2> HIDE DEF a
  <2> QED BY <1>0, <1>1, <2>1
<1> HIDE DEF more, a
<1>3. b = [i \in 1 .. Len(ids) + 1 |-> MessageRecord(more[i], f[more[i]])]
  BY <1>0 DEF RecordsOf
<1>4. \A i \in 1 .. Len(ids) + 1 : MessageRecord(more[i], f[more[i]]) \in R
  <2> SUFFICES ASSUME NEW i \in 1 .. Len(ids) + 1 PROVE MessageRecord(more[i], f[more[i]]) \in R
    OBVIOUS
  <2>1. CASE i = Len(ids) + 1
    BY <1>0, <2>1
  <2>2. CASE i \in 1 .. Len(ids)
    BY <1>0, <1>1, <2>2
  <2> QED BY <1>0, <2>1, <2>2
<1> HIDE DEF b
<1>5. b \in Seq(R) /\ Len(b) = Len(ids) + 1
  BY <1>0, <1>3, <1>4
<1>6. MessageRecord(x, f[x]) \in R
  OBVIOUS
<1>7. /\ c \in Seq(R) /\ Len(c) = Len(ids) + 1
      /\ \A i \in 1 .. Len(ids) : c[i] = a[i]
      /\ c[Len(ids) + 1] = MessageRecord(x, f[x])
  BY <1>0, <1>2, <1>6
<1> HIDE DEF c
<1>8. ASSUME NEW i \in 1 .. Len(ids) + 1 PROVE b[i] = c[i]
  <2>1. CASE i = Len(ids) + 1
    BY <1>0, <1>3, <1>7, <2>1
  <2>2. CASE i \in 1 .. Len(ids)
    BY <1>0, <1>2, <1>3, <1>7, <2>2
  <2> QED BY <1>0, <2>1, <2>2
<1>9. b = c
  BY <1>5, <1>7, <1>8, SeqEqual
<1> QED BY <1>2, <1>9 DEF a, b, c, more, Same

\* Several new messages are written safely: only one that is made up for a call may
\* leave a log that is not sound, and no step stops behind it.
LEMMA SafeMessages ==
    ASSUME NEW n \in Nat, NEW records, NEW log, Safe(records, log, n), Sound(log, n),
           NEW ids \in Seq(Int), Unrepeated(ids), ToSet(ids) \cap ToSet(log.ids) = {},
           NEW f, \A x \in ToSet(ids) : /\ f[x] \in MessageSet /\ f[x].tool = NoCall
                                        /\ x >= 0 => x <= n /\ GoodMessage(x, f[x])
    PROVE  Safe(records \o RecordsOf(ids, f), Grown(log, ids, f), n)
<1> DEFINE pre(k) == SubSeq(ids, 1, k)
           now(k) == records \o RecordsOf(pre(k), f)
           P(k) == /\ Safe(now(k), Grown(log, pre(k), f), n)
                   /\ (\A i \in 1 .. k : ids[i] >= 0) => Sound(Grown(log, pre(k), f), n)
           S == {k \in Nat : P(k)}
           M == {MessageRecord(y, f[y]) : y \in Int}
           R == ToSet(records) \cup M
           m == Len(records)
<1>0. /\ IsLog(log) /\ records \in Seq(ToSet(records)) /\ m \in Nat
      /\ Len(ids) \in Nat /\ DOMAIN ids = 1 .. Len(ids)
  BY DEF Sound, Safe
<1>r. records \in Seq(R)
  BY <1>0, SeqMonotonic
<1>1. 0 \in S
  <2>1. pre(0) = << >>
    BY NoPrefix
  <2>2. RecordsOf(<< >>, f) = << >>
    BY DEF RecordsOf
  <2>3. now(0) = records
    <3>1. now(0) = records \o << >>
      BY <2>1, <2>2, Zenon
    <3> QED BY <1>0, <3>1
  <2>4. Grown(log, pre(0), f) = log
    BY <1>0, <2>1, GrownByNothing, Zenon
  <2> HIDE DEF now, pre
  <2> QED BY <2>3, <2>4
<1>2. ASSUME NEW k \in 0 .. Len(ids) - 1, k \in S PROVE k + 1 \in S
  <2> DEFINE a == pre(k)
             x == ids[k + 1]
             r == MessageRecord(x, f[x])
             now1 == now(k)
             log1 == Grown(log, a, f)
  <2>0. /\ k \in 0 .. Len(ids) /\ k \in Nat /\ k + 1 \in Nat /\ k + 1 \in DOMAIN ids /\ x \in Int
        /\ x \in ToSet(ids)
    BY <1>0 DEF ToSet
  <2>1. a \in Seq(Int) /\ Len(a) = k /\ (\A i \in 1 .. k : a[i] = ids[i])
        /\ ToSet(a) = {ids[i] : i \in 1 .. k}
    BY <2>0, Prefix
  <2>2. Same(pre(k + 1), Append(a, x))
    BY LongerPrefix DEF Same
  <2>3. x \notin ToSet(a) /\ x \notin ToSet(log.ids)
    <3>1. ASSUME NEW i \in 1 .. k PROVE ids[i] # x
      <4>1. i \in DOMAIN ids /\ i # k + 1
        BY <1>0, <2>0
      <4> QED BY <2>0, <4>1 DEF Unrepeated
    <3> QED BY <1>0, <2>0, <2>1, <3>1
  <2>4. \A i \in 1 .. k : ids[i] \in ToSet(ids) /\ ids[i] \in Int
    <3> SUFFICES ASSUME NEW i \in 1 .. k PROVE ids[i] \in ToSet(ids) /\ ids[i] \in Int
      OBVIOUS
    <3>1. i \in DOMAIN ids
      BY <1>0, <2>0
    <3> QED BY <3>1 DEF ToSet
  <2>5. ToSet(a) \subseteq ToSet(ids) /\ Unrepeated(a)
    <3>1. \A i \in 1 .. k : i \in DOMAIN ids /\ i \in DOMAIN a
      BY <1>0, <2>0, <2>1
    <3>2. \A i \in DOMAIN a : i \in 1 .. k
      BY <2>1
    <3> QED BY <2>1, <2>4, <3>1, <3>2, SMTT(30) DEF Unrepeated
  <2> HIDE DEF pre
  <2>6. /\ RecordsOf(a, f) \in Seq(R) /\ Len(RecordsOf(a, f)) = k
        /\ \A i \in 1 .. k : RecordsOf(a, f)[i] = MessageRecord(ids[i], f[ids[i]])
        /\ Same(RecordsOf(Append(a, x), f), Append(RecordsOf(a, f), r))
    <3> HIDE DEF a, x
    <3>1. \A y \in ToSet(a) \cup {x} : MessageRecord(y, f[y]) \in R
      BY <2>0, <2>1, <2>4
    <3> HIDE DEF R
    <3>2. /\ RecordsOf(a, f) \in Seq(R) /\ Len(RecordsOf(a, f)) = Len(a)
          /\ \A i \in 1 .. Len(a) : RecordsOf(a, f)[i] = MessageRecord(a[i], f[a[i]])
          /\ Same(RecordsOf(Append(a, x), f), Append(RecordsOf(a, f), MessageRecord(x, f[x])))
      BY <2>0, <2>1, <3>1, RecordsOfAppend
    <3> QED BY <2>1, <3>2
  <2>7. Same(now(k + 1), Append(now1, r))
    <3>0. pre(k + 1) = Append(a, x)
      BY <2>2 DEF Same
    <3>1. now(k + 1) = records \o RecordsOf(Append(a, x), f)
      BY <3>0, Zenon
    <3>2. RecordsOf(Append(a, x), f) = Append(RecordsOf(a, f), r)
      BY <2>6, Zenon DEF Same
    <3>3. r \in R
      BY <2>0
    <3> DEFINE b == RecordsOf(a, f)
    <3>4. Same(records \o Append(b, r), Append(records \o b, r))
      <4>1. b \in Seq(R)
        BY <2>6
      <4> HIDE DEF b, r, R
      <4> QED BY <1>r, <3>3, <4>1, ConcatAppend
    <3>5. records \o Append(b, r) = Append(records \o b, r)
      BY <3>4, Zenon DEF Same
    <3> QED BY <3>1, <3>2, <3>5, Zenon DEF Same
  <2>8. Same(Grown(log, pre(k + 1), f), Replayed(log1, r))
    <3>1. Replayed(log1, r) = Placed(log1, x, f[x])
      BY DEF Replayed, MessageRecord
    <3>2. Same(Grown(log, Append(a, x), f), Placed(Grown(log, a, f), x, f[x]))
      <4> HIDE DEF a, x
      <4> QED BY <1>0, <2>0, <2>1, <2>3, GrownByOne
    <3>3. pre(k + 1) = Append(a, x)
      BY <2>2 DEF Same
    <3> QED BY <3>1, <3>2, <3>3, Zenon DEF Same
  <2>9. Safe(now1, log1, n) /\ ((\A i \in 1 .. k : ids[i] >= 0) => Sound(log1, n))
    BY <1>2
  <2>10. ASSUME \A i \in 1 .. k + 1 : ids[i] >= 0 PROVE Sound(Replayed(log1, r), n)
    <3>1. \A i \in 1 .. k : ids[i] >= 0
      BY <2>0, <2>10
    <3>2. Sound(log1, n)
      BY <2>9, <3>1
    <3>3. ToSet(log1.ids) = ToSet(log.ids) \cup ToSet(a)
      <4>1. ToSet(a) \cap ToSet(log.ids) = {} /\ \A y \in ToSet(a) : f[y] \in MessageSet
        BY <2>5
      <4>2. GrownAs(Grown(log, a, f), log, a, f)
        <5> HIDE DEF a
        <5> QED BY <1>0, <2>1, <2>5, <4>1, GrownLog
      <4> QED BY <4>2 DEF GrownAs
    <3>4. x \notin ToSet(log1.ids)
      BY <2>3, <3>3
    <3>5. x >= 0 /\ x <= n /\ f[x] \in MessageSet /\ f[x].tool = NoCall /\ GoodMessage(x, f[x])
      <4>1. k + 1 \in 1 .. k + 1
        BY <2>0
      <4> QED BY <2>0, <2>10, <4>1
    <3> HIDE DEF log1, x
    <3>6. Sound(Placed(log1, x, f[x]), n)
      BY <2>0, <3>2, <3>4, <3>5, PlacedSound
    <3> QED BY <3>6 DEF Replayed, MessageRecord
  <2>11. ASSUME NEW i \in 1 .. k + 1, ~(ids[i] >= 0)
         PROVE  MisplacedAfter(Append(now1, r), Len(now1) + 1)
    <3> DEFINE b == RecordsOf(a, f)
               t == Append(now1, r)
    <3>1. /\ now1 = records \o b /\ b \in Seq(R) /\ Len(b) = k /\ r \in R
      BY <2>0, <2>6
    <3> HIDE DEF b, r, now1, R
    <3>2. now1 \in Seq(R) /\ Len(now1) = m + k /\ \A j \in 1 .. k : now1[m + j] = b[j]
      <4> DEFINE c == records \o b
      <4>1. /\ c \in Seq(R) /\ Len(c) = Len(records) + Len(b)
            /\ \A j \in 1 .. Len(b) : c[Len(records) + j] = b[j]
        <5>1. b \in Seq(R)
          BY <3>1
        <5> QED BY <1>r, <5>1, ConcatPlaces
      <4>2. now1 = c
        BY <3>1
      <4> HIDE DEF c
      <4> QED BY <3>1, <4>1, <4>2
    <3>3. t[m + k + 1] = r /\ \A j \in 1 .. m + k : t[j] = now1[j]
      BY <1>0, <2>0, <3>1, <3>2
    <3> HIDE DEF t, m
    <3>4. ASSUME NEW j \in 1 .. k + 1 PROVE t[m + j] = MessageRecord(ids[j], f[ids[j]])
      <4>1. CASE j = k + 1
        <5>1. m + j = m + k + 1
          BY <1>0, <2>0, <4>1
        <5> QED BY <3>3, <4>1, <5>1 DEF r
      <4>2. CASE j \in 1 .. k
        <5>1. m + j \in 1 .. m + k
          BY <1>0, <2>0, <4>2
        <5>2. t[m + j] = b[j]
          BY <3>2, <3>3, <4>2, <5>1
        <5> QED BY <2>6, <4>2, <5>2 DEF b
      <4> QED BY <2>0, <4>1, <4>2
    <3>5. ASSUME NEW j \in m + i .. m + k + 1 PROVE t[j].op = "message"
      <4>1. j - m \in 1 .. k + 1 /\ m + (j - m) = j
        BY <1>0, <2>0
      <4>2. t[m + (j - m)] = MessageRecord(ids[j - m], f[ids[j - m]])
        BY <3>4, <4>1
      <4>3. t[j] = MessageRecord(ids[j - m], f[ids[j - m]])
        BY <4>1, <4>2
      <4> QED BY <4>3 DEF MessageRecord
    <3>6. t[m + i].id = ids[i]
      <4>1. t[m + i] = MessageRecord(ids[i], f[ids[i]])
        BY <3>4
      <4> QED BY <4>1 DEF MessageRecord
    <3>7. ids[i] < 0
      <4>1. i \in DOMAIN ids
        BY <1>0, <2>0
      <4>2. ids[i] \in Int
        BY <4>1
      <4> QED BY <2>11, <4>2
    <3>8. m + i \in 1 .. m + k + 1 /\ Len(now1) + 1 = m + k + 1
      BY <1>0, <2>0, <3>2
    <3>9. MisplacedAfter(t, m + k + 1)
      BY <3>5, <3>6, <3>7, <3>8 DEF MisplacedAfter
    <3> QED BY <3>8, <3>9 DEF t
  <2>12. MisplacedAfter(Append(now1, r), Len(now1) + 1) \/ Sound(Replayed(log1, r), n)
    BY <2>10, <2>11
  <2>13. Safe(Append(now1, r), Replayed(log1, r), n)
    <3> HIDE DEF now1, r, log1
    <3> QED BY <2>9, <2>12, SafeAppend
  <2>14. Safe(now(k + 1), Grown(log, pre(k + 1), f), n)
    <3> DEFINE u == now(k + 1)
               v == Grown(log, pre(k + 1), f)
               w == Append(now1, r)
               z == Replayed(log1, r)
    <3>1. u = w /\ v = z
      BY <2>7, <2>8, Zenon DEF Same
    <3>2. Safe(w, z, n)
      BY <2>13
    <3> HIDE DEF u, v, w, z
    <3>3. Safe(u, v, n)
      BY <3>1, <3>2
    <3> QED BY <3>3 DEF u, v
  <2>15. (\A i \in 1 .. k + 1 : ids[i] >= 0) => Sound(Grown(log, pre(k + 1), f), n)
    <3> DEFINE v == Grown(log, pre(k + 1), f)
               z == Replayed(log1, r)
    <3>1. v = z
      BY <2>8, Zenon DEF Same
    <3>2. (\A i \in 1 .. k + 1 : ids[i] >= 0) => Sound(z, n)
      BY <2>10
    <3> HIDE DEF v, z
    <3>3. (\A i \in 1 .. k + 1 : ids[i] >= 0) => Sound(v, n)
      BY <3>1, <3>2
    <3> QED BY <3>3 DEF v
  <2> HIDE DEF now
  <2> QED BY <2>0, <2>14, <2>15
<1>3. Len(ids) \in S
  <2> HIDE DEF S
  <2>1. \A k \in 0 .. Len(ids) - 1 : k \in S => k + 1 \in S
    BY <1>2
  <2>2. \A k \in 0 .. Len(ids) : k \in S
    BY <1>0, <1>1, <2>1, UpTo
  <2>3. Len(ids) \in 0 .. Len(ids)
    BY <1>0
  <2> QED BY <2>2, <2>3
<1>4. Same(pre(Len(ids)), ids)
  BY WholePrefix DEF Same
<1>5. Safe(now(Len(ids)), Grown(log, pre(Len(ids)), f), n)
  <2> HIDE DEF now, pre
  <2> QED BY <1>3
<1>6. pre(Len(ids)) = ids
  BY <1>4, Zenon DEF Same
<1> HIDE DEF pre
<1> QED BY <1>5, <1>6, Zenon

-----------------------------------------------------------------------------
(* The history that the service follows                                    *)

\* The histories that the service follows: every id once, and a response that was
\* made up for a call right behind the turn of the call.
HistoryOK(turns, n) ==
    /\ turns \in Seq(HistoryTurns) /\ Unrepeated(IdsOf(turns))
    /\ \A i \in DOMAIN turns :
          LET id == turns[i].id
              content == turns[i].content
          IN /\ -n <= id /\ id <= n
             /\ id = EnvId => content = EnvTurn.content
             /\ id < 0 => i > 1 /\ turns[i - 1].id = -id /\ Answering(content)

\* Of a turn that is in the log, the index knows the message. A message that calls
\* a tool is never changed, so that the result it holds remains that of its call; a
\* response that was made up is one to a call whose result is in the log.
FollowsTurn(turn, log, order) ==
    /\ turn.id \in ToSet(log.ids) =>
          /\ turn.id \in ToSet(order)
          /\ LET m == log.body[turn.id]
             IN /\ m.content[1] = "call" => turn.content = m.content
                /\ turn.content[1] = "call" => m.tool \in {NoCall, turn.content[2]}
    /\ turn.id < 0 =>
          /\ -turn.id \in ToSet(log.ids) /\ log.body[-turn.id].tool # NoCall
          /\ turn.content[2] = log.body[-turn.id].tool
Follows(turns, log, order) == \A i \in DOMAIN turns : FollowsTurn(turns[i], log, order)

\* The ids of the turns of a history
LEMMA TurnsIds ==
    ASSUME NEW turns \in Seq(HistoryTurns)
    PROVE  /\ IdsOf(turns) \in Seq(Int) /\ Len(IdsOf(turns)) = Len(turns)
           /\ DOMAIN turns = 1 .. Len(turns) /\ Len(turns) \in Nat
           /\ \A i \in DOMAIN turns : /\ IdsOf(turns)[i] = turns[i].id /\ turns[i].id \in Int
                                      /\ turns[i].content \in Contents
           /\ ToSet(IdsOf(turns)) = {turns[i].id : i \in DOMAIN turns}
<1> DEFINE ids == IdsOf(turns)
<1>1. DOMAIN turns = 1 .. Len(turns) /\ Len(turns) \in Nat
  OBVIOUS
<1>2. \A i \in DOMAIN turns : turns[i] \in HistoryTurns
  OBVIOUS
<1>3. \A i \in DOMAIN turns : turns[i].id \in Int /\ turns[i].content \in Contents
  BY <1>2 DEF HistoryTurns
<1>4. ids = [i \in 1 .. Len(turns) |-> turns[i].id]
  BY <1>1 DEF IdsOf
<1> HIDE DEF ids
<1>5. ids \in Seq(Int) /\ Len(ids) = Len(turns) /\ \A i \in DOMAIN turns : ids[i] = turns[i].id
  BY <1>1, <1>3, <1>4
<1>6. ToSet(ids) = {turns[i].id : i \in DOMAIN turns}
  BY <1>1, <1>4 DEF ToSet
<1> QED BY <1>1, <1>3, <1>5, <1>6 DEF ids

\* The content of a turn is found by its id.
LEMMA ContentOfTurn ==
    ASSUME NEW turns \in Seq(HistoryTurns), Unrepeated(IdsOf(turns)), NEW i \in DOMAIN turns
    PROVE  ContentOf(turns, turns[i].id) = turns[i].content
<1> DEFINE j == CHOOSE j \in DOMAIN turns : turns[j].id = turns[i].id
<1>1. j \in DOMAIN turns /\ turns[j].id = turns[i].id
  OBVIOUS
<1>2. ContentOf(turns, turns[i].id) = turns[j].content
  BY DEF ContentOf
<1> HIDE DEF j
<1>3. DOMAIN IdsOf(turns) = DOMAIN turns /\ IdsOf(turns)[i] = turns[i].id /\ IdsOf(turns)[j] = turns[j].id
  BY <1>1 DEF IdsOf
<1>4. j = i
  BY <1>1, <1>3 DEF Unrepeated
<1> QED BY <1>2, <1>4

\* Each id of the history is that of one turn, with its content.
LEMMA TurnOf ==
    ASSUME NEW turns \in Seq(HistoryTurns), Unrepeated(IdsOf(turns)), NEW x \in ToSet(IdsOf(turns))
    PROVE  \E i \in DOMAIN turns : turns[i].id = x /\ ContentOf(turns, x) = turns[i].content
<1>1. PICK i \in DOMAIN turns : turns[i].id = x
  BY TurnsIds
<1>2. ContentOf(turns, turns[i].id) = turns[i].content
  BY ContentOfTurn
<1> QED BY <1>1, <1>2

\* What updateMessagesFromHistory adds: the turns that the index does not have, in
\* their order.
LEMMA AddedFacts ==
    ASSUME NEW s, NEW log, Indexes(s, log), NEW turns \in Seq(HistoryTurns), Unrepeated(IdsOf(turns))
    PROVE  LET ids == IdsOf(turns)
               added == Added(s, turns)
           IN /\ added \in Seq(Int) /\ Unrepeated(added)
              /\ ToSet(added) = ToSet(ids) \ ToSet(s.order)
              /\ \A x, y : Precedes(added, x, y) <=>
                    Precedes(ids, x, y) /\ x \notin ToSet(s.order) /\ y \notin ToSet(s.order)
<1> DEFINE ids == IdsOf(turns)
           new == Only(ids, ToSet(ids) \ DOMAIN s.prints)
<1>1. ids \in Seq(Int) /\ Unrepeated(ids)
  BY TurnsIds
<1>2. DOMAIN s.prints = ToSet(s.order)
  BY DEF Indexes
<1>3. Added(s, turns) = Distinct(new)
  BY DEF Added
<1> HIDE DEF ids
<1>4. /\ new \in Seq(Int) /\ Unrepeated(new)
      /\ ToSet(new) = ToSet(ids) \cap (ToSet(ids) \ DOMAIN s.prints)
      /\ \A x, y : Precedes(new, x, y) <=>
            /\ Precedes(ids, x, y)
            /\ x \in ToSet(ids) \ DOMAIN s.prints /\ y \in ToSet(ids) \ DOMAIN s.prints
  BY <1>1, OnlyOrder
<1> HIDE DEF new
<1>5. Distinct(new) = new
  BY <1>4, DistinctOrder
<1>6. \A x, y : Precedes(ids, x, y) => x \in ToSet(ids) /\ y \in ToSet(ids)
  BY <1>1, PrecedesIsOrder
<1>7. ToSet(ids) \cap (ToSet(ids) \ DOMAIN s.prints) = ToSet(ids) \ ToSet(s.order)
  BY <1>2
<1>8. Added(s, turns) = new
  BY <1>3, <1>5
<1> QED BY <1>2, <1>4, <1>6, <1>7, <1>8 DEF ids

\* A set of places has a last one.
LEMMA GreatestOne ==
    ASSUME NEW n \in Nat, NEW S \in SUBSET (1 .. n), S # {}
    PROVE  \E m \in S : \A k \in S : k <= m
<1> DEFINE T == {n - k : k \in S}
<1>1. T \in SUBSET Nat /\ T # {}
  OBVIOUS
<1>2. PICK l \in T : \A k \in T : l <= k
  BY <1>1, LeastOne
<1>3. PICK m \in S : l = n - m
  OBVIOUS
<1>4. ASSUME NEW k \in S PROVE k <= m
  <2>1. n - k \in T
    OBVIOUS
  <2>2. n - m <= n - k
    BY <1>2, <1>3, <2>1
  <2> QED BY <2>2
<1> QED BY <1>4

\* What updateMessagesFromHistory finds changed: of messages it knows, and of calls
\* it has a result of.
LEMMA Changes ==
    ASSUME NEW s, NEW log, IsLog(log), Indexes(s, log),
           NEW turns \in Seq(HistoryTurns), Unrepeated(IdsOf(turns))
    PROVE  LET contents == ChangedContents(s, turns)
               results == ChangedResults(s, turns)
           IN /\ DOMAIN contents \subseteq ToSet(IdsOf(turns)) \cap ToSet(s.order)
              /\ \A x \in DOMAIN contents : contents[x] = ContentOf(turns, x)
              /\ \A x \in ToSet(IdsOf(turns)) \cap ToSet(s.order) :
                    x \notin DOMAIN contents => log.body[x].content = ContentOf(turns, x)
              /\ DOMAIN results \subseteq DOMAIN s.results
              /\ \A c \in DOMAIN results :
                    results[c] \in Contents /\ results[c] \in {Response(c), Masked(c)}
<1> DEFINE contents == ChangedContents(s, turns)
           results == ChangedResults(s, turns)
           both == ToSet(IdsOf(turns)) \cap ToSet(s.order)
           answers(c) == {i \in DOMAIN turns :
                             Answering(turns[i].content) /\ turns[i].content[2] = c}
           lastOf(c) == CHOOSE i \in answers(c) : \A j \in answers(c) : j <= i
           changed == {c \in DOMAIN s.results :
                          \E i \in answers(c) : turns[i].content # s.results[c].print}
<1>1. s.prints = [x \in ToSet(s.order) |-> log.body[x].content]
  BY DEF Indexes
<1>2. contents = [x \in {x \in both : s.prints[x] # ContentOf(turns, x)} |-> ContentOf(turns, x)]
  BY <1>1 DEF ChangedContents
<1>3. results = [c \in changed |-> turns[lastOf(c)].content]
  BY DEF ChangedResults
<1>4. \A i \in DOMAIN turns : turns[i].content \in Contents
  BY TurnsIds
<1>5. DOMAIN contents \subseteq both /\ \A x \in DOMAIN contents : contents[x] = ContentOf(turns, x)
  <2> HIDE DEF both
  <2> QED BY <1>2
<1>6. ASSUME NEW x \in both, x \notin DOMAIN contents PROVE log.body[x].content = ContentOf(turns, x)
  <2>1. s.prints[x] = log.body[x].content
    BY <1>1
  <2>2. s.prints[x] = ContentOf(turns, x)
    <3> HIDE DEF both
    <3> QED BY <1>2, <1>6
  <2> QED BY <2>1, <2>2
<1> HIDE DEF contents
<1>7. ASSUME NEW c \in changed
      PROVE  turns[lastOf(c)].content \in Contents /\ turns[lastOf(c)].content \in {Response(c), Masked(c)}
  <2>1. answers(c) \in SUBSET (1 .. Len(turns)) /\ answers(c) # {} /\ Len(turns) \in Nat
    OBVIOUS
  <2>2. \E i \in answers(c) : \A j \in answers(c) : j <= i
    <3> HIDE DEF answers
    <3> QED BY <2>1, GreatestOne
  <2>3. lastOf(c) \in answers(c)
    <3> HIDE DEF answers
    <3> QED BY <2>2
  <2> HIDE DEF lastOf
  <2>4. /\ lastOf(c) \in DOMAIN turns /\ Answering(turns[lastOf(c)].content)
        /\ turns[lastOf(c)].content[2] = c
    BY <2>3
  <2>5. turns[lastOf(c)].content \in Kinds \X Int
    BY <1>4, <2>4 DEF Contents
  <2> QED BY <1>4, <2>4, <2>5 DEF Answering, Response, Masked
<1>8. DOMAIN results = changed
  BY <1>3
<1>9. \A c \in changed : results[c] = turns[lastOf(c)].content
  BY <1>3
<1>10. changed \subseteq DOMAIN s.results
  OBVIOUS
<1> HIDE DEF results, changed
<1> QED BY <1>5, <1>6, <1>7, <1>8, <1>9, <1>10 DEF contents, results

\* A patch changes the content and the result of a message, not its type or call.
LEMMA UpdatedFields ==
    ASSUME NEW m \in MessageSet, NEW id, NEW contents, NEW results,
           id \in DOMAIN contents => contents[id] \in Contents,
           m.tool \in DOMAIN results => results[m.tool] \in Contents
    PROVE  LET u == UpdatedMessage(m, id, contents, results)
           IN /\ u \in MessageSet /\ u.type = m.type /\ u.tool = m.tool
              /\ u.content = IF id \in DOMAIN contents THEN contents[id] ELSE m.content
              /\ u.result = IF m.tool \in DOMAIN results THEN results[m.tool] ELSE m.result
BY DEF UpdatedMessage, MessageSet

-----------------------------------------------------------------------------
(* What is left of the log when it follows a history                       *)

\* r are the ids of l without those that were removed, and has ids in their order.
Leaves(r, l, removed, ids) ==
    /\ r \in Seq(Int) /\ Unrepeated(r)
    /\ ToSet(ids) \subseteq ToSet(r)
    /\ ToSet(r) \subseteq ToSet(l) \ ToSet(removed)
    /\ Only(r, ToSet(ids)) = ids

\* A patch without order removes ids and leaves the others in their order.
LEMMA NothingOrdered ==
    ASSUME NEW l \in Seq(Int), Unrepeated(l), NEW removed
    PROVE  LET left == Only(l, ToSet(l) \ ToSet(removed))
           IN Reordered(l, removed, << >>) = left
<1> DEFINE left == Only(l, ToSet(l) \ ToSet(removed))
           ordered == Only(Distinct(<< >>), ToSet(left))
           rest == Only(left, ToSet(left) \ ToSet(ordered))
<1>1. left \in Seq(Int) /\ Unrepeated(left)
  BY OnlyOrder
<1>2. Distinct(<< >>) \in Seq({}) /\ ToSet(Distinct(<< >>)) = {}
  BY NoElement, DistinctOrder
<1> HIDE DEF left
<1>3. ordered \in Seq({})
  BY <1>2, OnlyOrder
<1>4. ToSet(ordered) = {}
  BY <1>2, OnlyOrder
<1>5. ordered = << >>
  <2> HIDE DEF ordered
  <2> QED BY <1>3
<1> HIDE DEF ordered
<1>6. ToSet(left) \subseteq ToSet(left) \ ToSet(ordered)
  BY <1>4
<1>7. rest = left
  BY <1>1, <1>6, OnlyAll
<1>8. Reordered(l, removed, << >>) = rest \o ordered
  BY Zenon DEF Reordered, left, ordered
<1> HIDE DEF rest
<1>9. Reordered(l, removed, << >>) = left \o << >>
  BY <1>5, <1>7, <1>8, Zenon
<1>10. left \o << >> = left
  BY <1>1
<1> QED BY <1>9, <1>10 DEF left

\* When the history has the order of the index, a patch that only removes ids
\* leaves the ids of the history in their order.
LEMMA KeepsOrder ==
    ASSUME NEW l \in Seq(Int), Unrepeated(l), NEW order \in Seq(Int), Only(l, ToSet(order)) = order,
           NEW ids \in Seq(Int), Unrepeated(ids), ToSet(ids) \subseteq ToSet(order),
           Only(order, ToSet(ids)) = ids, NEW removed, ToSet(removed) \cap ToSet(ids) = {}
    PROVE  Leaves(Reordered(l, removed, << >>), l, removed, ids)
<1> DEFINE left == Only(l, ToSet(l) \ ToSet(removed))
<1>1. /\ left \in Seq(Int) /\ Unrepeated(left)
      /\ ToSet(left) = ToSet(l) \cap (ToSet(l) \ ToSet(removed))
      /\ \A x, y : Precedes(left, x, y) <=>
            /\ Precedes(l, x, y)
            /\ x \in ToSet(l) \ ToSet(removed) /\ y \in ToSet(l) \ ToSet(removed)
  BY OnlyOrder
<1>2. /\ ToSet(Only(l, ToSet(order))) = ToSet(l) \cap ToSet(order)
      /\ \A x, y : Precedes(Only(l, ToSet(order)), x, y) <=>
            Precedes(l, x, y) /\ x \in ToSet(order) /\ y \in ToSet(order)
  BY OnlyOrder
<1>3. \A x, y : Precedes(Only(order, ToSet(ids)), x, y) <=>
            Precedes(order, x, y) /\ x \in ToSet(ids) /\ y \in ToSet(ids)
  BY OnlyOrder
<1> HIDE DEF left
<1>4. ToSet(order) \subseteq ToSet(l)
  BY <1>2
<1>5. ToSet(ids) \subseteq ToSet(left)
  BY <1>1, <1>4
<1>6. \A x, y : Precedes(ids, x, y) => Precedes(left, x, y)
  BY <1>1, <1>2, <1>3, <1>5
<1>7. Only(left, ToSet(ids)) = ids
  BY <1>1, <1>5, <1>6, OnlyIs
<1>8. Reordered(l, removed, << >>) = left
  BY NothingOrdered, Zenon DEF left
<1> QED BY <1>1, <1>5, <1>7, <1>8 DEF Leaves

\* A patch with the order of the history puts the ids of the history in it.
LEMMA ChangesOrder ==
    ASSUME NEW l \in Seq(Int), Unrepeated(l),
           NEW ids \in Seq(Int), Unrepeated(ids), ToSet(ids) \subseteq ToSet(l),
           NEW removed, ToSet(removed) \cap ToSet(ids) = {}
    PROVE  Leaves(Reordered(l, removed, ids), l, removed, ids)
<1> DEFINE left == Only(l, ToSet(l) \ ToSet(removed))
           ordered == Only(Distinct(ids), ToSet(left))
           rest == Only(left, ToSet(left) \ ToSet(ordered))
           r == rest \o ordered
<1>1. /\ left \in Seq(Int) /\ Unrepeated(left)
      /\ ToSet(left) = ToSet(l) \cap (ToSet(l) \ ToSet(removed))
  BY OnlyOrder
<1> HIDE DEF left
<1>2. ToSet(ids) \subseteq ToSet(left)
  BY <1>1
<1>3. ordered = ids
  <2>1. Distinct(ids) = ids
    BY DistinctOrder
  <2>2. Only(ids, ToSet(left)) = ids
    BY <1>2, OnlyAll
  <2> QED BY <2>1, <2>2
<1> HIDE DEF ordered
<1>4. /\ rest \in Seq(Int) /\ Unrepeated(rest)
      /\ ToSet(rest) = ToSet(left) \cap (ToSet(left) \ ToSet(ordered))
  BY <1>1, OnlyOrder
<1> HIDE DEF rest
<1>5. ToSet(rest) \cap ToSet(ids) = {}
  BY <1>3, <1>4
<1>6. r = rest \o ids
  BY <1>3, Zenon
<1>7. /\ rest \o ids \in Seq(Int)
      /\ ToSet(rest \o ids) = ToSet(rest) \cup ToSet(ids)
      /\ \A x, y : Precedes(ids, x, y) => Precedes(rest \o ids, x, y)
      /\ Unrepeated(rest \o ids)
  BY <1>4, <1>5, ConcatOrder
<1> HIDE DEF r
<1>8. /\ r \in Seq(Int) /\ ToSet(r) = ToSet(rest) \cup ToSet(ids) /\ Unrepeated(r)
      /\ \A x, y : Precedes(ids, x, y) => Precedes(r, x, y)
  BY <1>6, <1>7, Zenon
<1>9. Only(r, ToSet(ids)) = ids
  BY <1>8, OnlyIs
<1>10. Reordered(l, removed, ids) = r
  BY Zenon DEF Reordered, left, ordered, rest, r
<1> QED BY <1>1, <1>2, <1>4, <1>8, <1>9, <1>10 DEF Leaves

\* When the history has lost the last ids of the index, a rewind to the first of
\* them leaves the ids of the history in their order.
LEMMA RollsBack ==
    ASSUME NEW l \in Seq(Int), Unrepeated(l), NEW order \in Seq(Int), Only(l, ToSet(order)) = order,
           NEW ids \in Seq(Int), Unrepeated(ids), ToSet(ids) \subseteq ToSet(order),
           Only(order, ToSet(ids)) = ids,
           NEW removed \in Seq(Int), ToSet(removed) = ToSet(order) \ ToSet(ids), removed # << >>,
           NEW k \in Nat, SubSeq(order, k + 1, Len(order)) = removed
    PROVE  /\ removed[1] \in ToSet(l)
           /\ Leaves(Until(l, removed[1]), l, removed, ids)
<1> DEFINE r == removed[1]
           u == Until(l, r)
<1>0. /\ Len(order) \in Nat /\ DOMAIN order = 1 .. Len(order)
      /\ Len(removed) \in Nat /\ Len(removed) # 0 /\ DOMAIN removed = 1 .. Len(removed)
  OBVIOUS
<1>1. /\ ToSet(Only(l, ToSet(order))) = ToSet(l) \cap ToSet(order)
      /\ Unrepeated(Only(l, ToSet(order)))
      /\ \A x, y : Precedes(Only(l, ToSet(order)), x, y) <=>
            Precedes(l, x, y) /\ x \in ToSet(order) /\ y \in ToSet(order)
  BY OnlyOrder
<1>2. ToSet(order) \subseteq ToSet(l) /\ Unrepeated(order)
  BY <1>1
<1>3. k < Len(order)
  <2> SUFFICES ASSUME ~(k < Len(order)) PROVE FALSE
    OBVIOUS
  <2>1. SubSeq(order, k + 1, Len(order)) = << >>
    BY <1>0
  <2> QED BY <2>1
<1>3a. Len(removed) = Len(order) - k /\ \A i \in 1 .. Len(order) - k : removed[i] = order[k + i]
  <2> DEFINE t == SubSeq(order, k + 1, Len(order))
             m == Len(order)
  <2>0. m \in Nat /\ k < m
    BY <1>0, <1>3
  <2>1. Len(t) = m - k /\ \A i \in 1 .. m - k : t[i] = order[k + i]
    BY <2>0
  <2>2. t = removed
    OBVIOUS
  <2> HIDE DEF t
  <2> QED BY <2>1, <2>2
<1> DEFINE m == Len(order)
<1>3b. m \in Nat /\ k < m /\ DOMAIN order = 1 .. m /\ DOMAIN removed = 1 .. m - k
  BY <1>0, <1>3, <1>3a
<1>3c. \A i \in 1 .. m - k : removed[i] = order[k + i] /\ k + i \in DOMAIN order
  BY <1>3a, <1>3b, SMTT(30)
<1> HIDE DEF m
<1>4. r = order[k + 1] /\ k + 1 \in DOMAIN order /\ r \in ToSet(order)
  <2>1. 1 \in 1 .. m - k
    BY <1>3b
  <2>2. r = order[k + 1] /\ k + 1 \in DOMAIN order
    BY <1>3c, <2>1
  <2> QED BY <2>2 DEF ToSet
<1> HIDE DEF r
<1>5. ASSUME NEW x \in ToSet(removed) PROVE x = r \/ Precedes(order, r, x)
  <2>1. PICK i \in 1 .. m - k : removed[i] = x
    BY <1>3b DEF ToSet
  <2>2. x = order[k + i] /\ k + i \in DOMAIN order
    BY <1>3c, <2>1
  <2>3. CASE i = 1
    BY <1>4, <2>2, <2>3
  <2>4. CASE i # 1
    <3>1. k + 1 < k + i
      BY <1>3b, <2>4
    <3> QED BY <1>4, <2>2, <3>1 DEF Precedes
  <2> QED BY <2>3, <2>4
<1>6. ASSUME NEW x \in ToSet(ids) PROVE Precedes(order, x, r)
  <2>1. PICK i \in DOMAIN order : order[i] = x
    BY DEF ToSet
  <2>2. i \in 1 .. m
    BY <1>3b, <2>1
  <2>3. i < k + 1
    <3> SUFFICES ASSUME ~(i < k + 1) PROVE FALSE
      OBVIOUS
    <3> DEFINE j == i - k
    <3>1. j \in 1 .. m - k /\ k + j = i
      BY <1>3b, <2>2
    <3> HIDE DEF j
    <3>2. removed[j] = x /\ j \in DOMAIN removed
      BY <1>3b, <1>3c, <2>1, <3>1
    <3>3. x \in ToSet(removed)
      BY <3>2 DEF ToSet
    <3> QED BY <3>3
  <2> QED BY <1>4, <2>1, <2>3 DEF Precedes
<1>7. r \in ToSet(l)
  BY <1>2, <1>4
<1>8. /\ u \in Seq(Int) /\ Unrepeated(u)
      /\ ToSet(u) = {x \in ToSet(l) : Precedes(l, x, r)}
      /\ \A x, y : Precedes(u, x, y) <=> Precedes(l, x, y) /\ Precedes(l, y, r)
  BY <1>7, UntilOrder
<1> HIDE DEF u
<1>9. \A x, y : Precedes(order, x, y) =>
            Precedes(l, x, y) /\ x \in ToSet(order) /\ y \in ToSet(order)
  BY <1>1
<1>10. ToSet(ids) \subseteq ToSet(u)
  BY <1>2, <1>6, <1>8, <1>9
<1>11. \A x \in ToSet(u) : x \in ToSet(l) /\ x \notin ToSet(removed)
  <2> SUFFICES ASSUME NEW x \in ToSet(u), x \in ToSet(removed) PROVE FALSE
    BY <1>8
  <2>1. Precedes(l, x, r)
    BY <1>8
  <2>2. x = r \/ Precedes(l, r, x)
    BY <1>5, <1>9
  <2> QED BY <2>1, <2>2, PrecedesIsOrder
<1>12. Only(u, ToSet(ids)) = ids
  <2>1. \A x, y : Precedes(Only(order, ToSet(ids)), x, y) <=>
            Precedes(order, x, y) /\ x \in ToSet(ids) /\ y \in ToSet(ids)
    BY OnlyOrder
  <2>2. \A x, y : Precedes(ids, x, y) => Precedes(u, x, y)
    BY <1>6, <1>8, <1>9, <2>1
  <2> QED BY <1>8, <1>10, <2>2, OnlyIs
<1> QED BY <1>7, <1>8, <1>10, <1>11, <1>12 DEF Leaves, r, u

-----------------------------------------------------------------------------
(* The messages of the log when it follows a history                       *)

\* The messages that updateMessagesFromHistory makes of new turns
NewOf(turns, x) == NewMessage(RecordedType(ContentOf(turns, x)), ContentOf(turns, x))
NewBodies(s, turns) == [x \in ToSet(Added(s, turns)) |-> NewOf(turns, x)]
GrownBy(s, turns, log) == Grown(log, Added(s, turns), NewBodies(s, turns))

\* m and u are what the message of x was and becomes.
BecomesMessage(s, turns, log, x, m, u) ==
    /\ u \in MessageSet /\ u.type = m.type /\ u.tool = m.tool
    /\ x \in ToSet(IdsOf(turns)) => u.content = ContentOf(turns, x)
    /\ x \notin ToSet(IdsOf(turns)) => x \in ToSet(log.ids) /\ u.content = m.content
    /\ x \in ToSet(log.ids) => m = log.body[x]
    /\ x \notin ToSet(log.ids) => m.tool = NoCall
    /\ u.result = IF m.tool \in DOMAIN ChangedResults(s, turns)
                  THEN ChangedResults(s, turns)[m.tool] ELSE m.result

\* The messages of the turns that are new are good ones, and the log has none of
\* them yet.
LEMMA NewTurns ==
    ASSUME NEW n \in Nat, NEW s, NEW log, IsLog(log), Indexes(s, log),
           NEW turns, HistoryOK(turns, n), Follows(turns, log, s.order)
    PROVE  /\ \A x \in ToSet(Added(s, turns)) :
                 /\ x \in Int /\ NewBodies(s, turns)[x] = NewOf(turns, x)
                 /\ NewOf(turns, x) \in MessageSet
                 /\ NewOf(turns, x).tool = NoCall /\ NewOf(turns, x).content = ContentOf(turns, x)
                 /\ x >= 0 => x <= n /\ GoodMessage(x, NewOf(turns, x))
                 /\ GoodMessage(x, NewOf(turns, x))
           /\ ToSet(Added(s, turns)) \cap ToSet(log.ids) = {}
           /\ GrownAs(GrownBy(s, turns, log), log, Added(s, turns), NewBodies(s, turns))
<1> DEFINE added == Added(s, turns)
<1>0. turns \in Seq(HistoryTurns) /\ Unrepeated(IdsOf(turns))
  BY DEF HistoryOK
<1>1. added \in Seq(Int) /\ Unrepeated(added) /\ ToSet(added) = ToSet(IdsOf(turns)) \ ToSet(s.order)
  BY <1>0, AddedFacts
<1> HIDE DEF added
<1>2. ASSUME NEW x \in ToSet(added)
      PROVE  /\ x \in Int /\ NewBodies(s, turns)[x] = NewOf(turns, x)
             /\ NewOf(turns, x) \in MessageSet
             /\ NewOf(turns, x).tool = NoCall /\ NewOf(turns, x).content = ContentOf(turns, x)
             /\ x <= n /\ GoodMessage(x, NewOf(turns, x))
             /\ x \notin ToSet(log.ids)
  <2>1. PICK i \in DOMAIN turns : turns[i].id = x /\ ContentOf(turns, x) = turns[i].content
    BY <1>0, <1>1, TurnOf
  <2>2. x \in Int /\ turns[i].content \in Contents
    BY <1>0, <2>1, TurnsIds
  <2>3. /\ x <= n
        /\ x = EnvId => turns[i].content = EnvTurn.content
        /\ x < 0 => Answering(turns[i].content)
    BY <2>1 DEF HistoryOK
  <2>4. NewBodies(s, turns)[x] = NewOf(turns, x)
    BY DEF NewBodies, added
  <2>5. RecordedType(turns[i].content) \in {"user", "gemini"}
    BY DEF RecordedType
  <2>6. Empty \in Contents
    BY DEF Empty, Contents, Kinds, NoCall
  <2> DEFINE c == turns[i].content
             m == NewOf(turns, x)
  <2>7. m = [type |-> RecordedType(c), content |-> c, tool |-> NoCall, result |-> Empty]
    BY <2>1 DEF NewOf, NewMessage
  <2> HIDE DEF m, c
  <2>8. m \in MessageSet /\ m.tool = NoCall /\ m.content = c /\ m.type = RecordedType(c)
    BY <2>2, <2>5, <2>6, <2>7 DEF MessageSet, NoCall, c
  <2>9. x \notin ToSet(log.ids)
    BY <1>1, <2>1 DEF Follows, FollowsTurn
  <2>10. x < 0 => m.type = "user"
    BY <2>3, <2>8 DEF RecordedType, FromUser, c
  <2>11. x = EnvId => m.type = "user"
    BY <2>3, <2>8 DEF RecordedType, FromUser, c, EnvTurn
  <2>12. GoodMessage(x, m)
    BY <2>3, <2>5, <2>8, <2>10, <2>11 DEF GoodMessage, c
  <2> QED BY <2>1, <2>2, <2>3, <2>4, <2>8, <2>9, <2>12 DEF m, c
<1>3. ToSet(added) \cap ToSet(log.ids) = {}
  BY <1>2
<1>4. GrownAs(GrownBy(s, turns, log), log, added, NewBodies(s, turns))
  <2>1. \A x \in ToSet(added) : NewBodies(s, turns)[x] \in MessageSet
    BY <1>2
  <2>2. GrownAs(Grown(log, added, NewBodies(s, turns)), log, added, NewBodies(s, turns))
    BY <1>1, <1>3, <2>1, GrownLog
  <2> QED BY <2>2 DEF GrownBy, added
<1> QED BY <1>2, <1>3, <1>4 DEF added

\* What a patch makes of a message: it says what the history says, if that has it.
LEMMA BecomesFacts ==
    ASSUME NEW n \in Nat, NEW s, NEW log, Sound(log, n), Indexes(s, log),
           NEW turns, HistoryOK(turns, n), Follows(turns, log, s.order),
           NEW x \in ToSet(GrownBy(s, turns, log).ids)
    PROVE  LET m == GrownBy(s, turns, log).body[x]
               u == UpdatedMessage(m, x, ChangedContents(s, turns), ChangedResults(s, turns))
           IN m \in MessageSet /\ BecomesMessage(s, turns, log, x, m, u) /\ GoodMessage(x, m)
<1> DEFINE ids == IdsOf(turns)
           added == Added(s, turns)
           big == GrownBy(s, turns, log)
           contents == ChangedContents(s, turns)
           results == ChangedResults(s, turns)
           m == big.body[x]
           u == UpdatedMessage(m, x, contents, results)
<1>0. turns \in Seq(HistoryTurns) /\ Unrepeated(ids) /\ IsLog(log)
  BY DEF HistoryOK, Sound
<1>1. ToSet(added) = ToSet(ids) \ ToSet(s.order)
  BY <1>0, AddedFacts
<1>2. GrownAs(big, log, added, NewBodies(s, turns))
  BY <1>0, NewTurns
<1>3. \A y \in ToSet(added) : /\ y \notin ToSet(log.ids) /\ NewBodies(s, turns)[y] = NewOf(turns, y)
                             /\ NewOf(turns, y).tool = NoCall
                             /\ NewOf(turns, y).content = ContentOf(turns, y)
                             /\ GoodMessage(y, NewOf(turns, y))
  BY <1>0, NewTurns
<1>4. /\ DOMAIN contents \subseteq ToSet(ids) \cap ToSet(s.order)
      /\ \A y \in DOMAIN contents : contents[y] = ContentOf(turns, y)
      /\ \A y \in ToSet(ids) \cap ToSet(s.order) :
            y \notin DOMAIN contents => log.body[y].content = ContentOf(turns, y)
      /\ DOMAIN results \subseteq DOMAIN s.results
      /\ \A c \in DOMAIN results : results[c] \in Contents /\ results[c] \in {Response(c), Masked(c)}
  BY <1>0, Changes
<1>5. ToSet(s.order) \subseteq ToSet(log.ids)
  BY <1>0, OrderFacts DEF Indexes
<1>6. NoCall \notin DOMAIN s.results
  BY DEF Indexes, ToolsIn
<1>7. \A y \in ToSet(ids) : ContentOf(turns, y) \in Contents
  BY <1>0, TurnOf, TurnsIds
<1> HIDE DEF ids, added, big, contents, results
<1>8. x \in ToSet(log.ids) \cup ToSet(added) /\ m \in MessageSet
  BY <1>2, LogDomain DEF GrownAs, big
<1> HIDE DEF m
<1>9. x \in ToSet(log.ids) => m = log.body[x]
  BY <1>2 DEF GrownAs, m
<1>10. x \in ToSet(added) => m = NewOf(turns, x)
  BY <1>2, <1>3 DEF GrownAs, m
<1>11. x \notin ToSet(log.ids) => m.tool = NoCall
  BY <1>3, <1>8, <1>10
<1>12. x \in DOMAIN contents => contents[x] \in Contents
  BY <1>4, <1>7
<1>13. m.tool \in DOMAIN results => results[m.tool] \in Contents
  BY <1>4
<1>14. /\ u \in MessageSet /\ u.type = m.type /\ u.tool = m.tool
       /\ u.content = IF x \in DOMAIN contents THEN contents[x] ELSE m.content
       /\ u.result = IF m.tool \in DOMAIN results THEN results[m.tool] ELSE m.result
  BY <1>8, <1>12, <1>13, UpdatedFields
<1> HIDE DEF u
<1>15. x \in ToSet(ids) => u.content = ContentOf(turns, x)
  <2>1. CASE x \in DOMAIN contents
    BY <1>4, <1>14, <2>1
  <2>2. CASE x \notin DOMAIN contents /\ x \in ToSet(added)
    BY <1>3, <1>10, <1>14, <2>2
  <2>3. CASE x \notin DOMAIN contents /\ x \notin ToSet(added) /\ x \in ToSet(ids)
    BY <1>1, <1>4, <1>5, <1>9, <1>14, <2>3
  <2> QED BY <2>1, <2>2, <2>3
<1>16. x \notin ToSet(ids) => x \in ToSet(log.ids) /\ u.content = m.content
  BY <1>1, <1>4, <1>8, <1>14
<1>17. GoodMessage(x, m)
  BY <1>3, <1>8, <1>9, <1>10 DEF Sound
<1>18. BecomesMessage(s, turns, log, x, m, u)
  BY <1>9, <1>11, <1>14, <1>15, <1>16 DEF BecomesMessage, ids, results
<1> QED BY <1>8, <1>17, <1>18 DEF m, u, big, contents, results

\* A message that has followed the history is still a good one.
LEMMA StaysGood ==
    ASSUME NEW n \in Nat, NEW s, NEW log, Sound(log, n), Indexes(s, log),
           NEW turns, HistoryOK(turns, n), Follows(turns, log, s.order),
           NEW x \in ToSet(GrownBy(s, turns, log).ids), NEW m \in MessageSet, NEW u,
           GoodMessage(x, m), BecomesMessage(s, turns, log, x, m, u)
    PROVE  GoodMessage(x, u)
<1> DEFINE ids == IdsOf(turns)
           results == ChangedResults(s, turns)
<1>0. turns \in Seq(HistoryTurns) /\ Unrepeated(ids) /\ IsLog(log)
  BY DEF HistoryOK, Sound
<1>1. \A c \in DOMAIN results : results[c] \in {Response(c), Masked(c)}
  BY <1>0, Changes
<1>2. ASSUME x \in ToSet(ids)
      PROVE  /\ x = EnvId => u.content = EnvTurn.content
             /\ x < 0 => Answering(u.content)
             /\ u.content[1] = "call" => m.tool \in {NoCall, u.content[2]}
  <2>1. PICK i \in DOMAIN turns : turns[i].id = x /\ ContentOf(turns, x) = turns[i].content
    BY <1>0, <1>2, TurnOf
  <2>2. u.content = turns[i].content
    BY <1>2, <2>1 DEF BecomesMessage
  <2>3. /\ x = EnvId => turns[i].content = EnvTurn.content
        /\ x < 0 => Answering(turns[i].content)
    BY <2>1 DEF HistoryOK
  <2>4. FollowsTurn(turns[i], log, s.order)
    BY DEF Follows
  <2>5. turns[i].content[1] = "call" => m.tool \in {NoCall, turns[i].content[2]}
    BY <2>1, <2>4 DEF FollowsTurn, BecomesMessage
  <2> QED BY <2>2, <2>3, <2>5
<1>3. ASSUME x \notin ToSet(ids) PROVE u.content = m.content
  BY <1>3 DEF BecomesMessage
<1>4. /\ u.type = m.type /\ u.tool = m.tool
      /\ u.result = IF m.tool \in DOMAIN results THEN results[m.tool] ELSE m.result
  BY DEF BecomesMessage
<1> HIDE DEF ids, results
<1>5. u.tool # NoCall => u.type = "gemini" /\ x > 0 /\ u.result \in {Response(u.tool), Masked(u.tool)}
  BY <1>1, <1>4 DEF GoodMessage
<1>6. u.type = "info" => x > 0
  BY <1>4 DEF GoodMessage
<1>7. x = EnvId => u.type = "user" /\ u.content = EnvTurn.content
  BY <1>2, <1>3, <1>4 DEF GoodMessage
<1>8. x < 0 => u.type = "user" /\ Answering(u.content)
  BY <1>2, <1>3, <1>4 DEF GoodMessage
<1>9. u.type = "gemini" /\ u.content[1] = "call" => u.tool \in {NoCall, u.content[2]}
  BY <1>2, <1>3, <1>4 DEF GoodMessage
<1> QED BY <1>5, <1>6, <1>7, <1>8, <1>9 DEF GoodMessage

\* The ids of the index that are not in the history, and the messages after a patch
Gone(s, turns) == Only(s.order, ToSet(s.order) \ ToSet(IdsOf(turns)))
MessageAfter(s, turns, log, x) ==
    UpdatedMessage(GrownBy(s, turns, log).body[x], x, ChangedContents(s, turns), ChangedResults(s, turns))

\* new is what the log becomes when the service follows the history.
FollowedLog(s, turns, log, new) ==
    /\ IsLog(new)
    /\ Leaves(new.ids, GrownBy(s, turns, log).ids, Gone(s, turns), IdsOf(turns))
    /\ \A x \in ToSet(new.ids) : new.body[x] = MessageAfter(s, turns, log, x)

\* The messages of the log once it has followed the history are those of the turns;
\* what is not in the history is a notice that the service does not know.
LEMMA FollowedMessages ==
    ASSUME NEW n \in Nat, NEW s, NEW log, Sound(log, n), Indexes(s, log),
           NEW turns, HistoryOK(turns, n), Follows(turns, log, s.order),
           NEW new, FollowedLog(s, turns, log, new), NEW x \in ToSet(new.ids)
    PROVE  /\ x \in ToSet(GrownBy(s, turns, log).ids)
           /\ BecomesMessage(s, turns, log, x, GrownBy(s, turns, log).body[x], new.body[x])
           /\ GoodMessage(x, new.body[x])
           /\ -n <= x /\ x <= n
           /\ x \notin ToSet(IdsOf(turns)) => x \in ToSet(log.ids) /\ x > 0 /\ new.body[x].type = "info"
<1> DEFINE ids == IdsOf(turns)
           added == Added(s, turns)
           big == GrownBy(s, turns, log)
           m == big.body[x]
           u == new.body[x]
<1>0. turns \in Seq(HistoryTurns) /\ Unrepeated(ids) /\ IsLog(log) /\ s.order \in Seq(Int)
  BY DEF HistoryOK, Sound, Indexes
<1>1. x \in ToSet(big.ids) /\ x \notin ToSet(Gone(s, turns))
  BY DEF FollowedLog, Leaves
<1>2. u = MessageAfter(s, turns, log, x)
  BY DEF FollowedLog
<1>3. m \in MessageSet /\ BecomesMessage(s, turns, log, x, m, u) /\ GoodMessage(x, m)
  BY <1>1, <1>2, BecomesFacts DEF MessageAfter
<1> HIDE DEF u, m
<1>4. GoodMessage(x, u)
  BY <1>1, <1>3, StaysGood
<1>5. ToSet(added) = ToSet(ids) \ ToSet(s.order)
  BY <1>0, AddedFacts
<1>6. ToSet(big.ids) = ToSet(log.ids) \cup ToSet(added)
  BY <1>0, NewTurns DEF GrownAs
<1>7. ToSet(Gone(s, turns)) = ToSet(s.order) \ ToSet(ids)
  <2>1. ToSet(Gone(s, turns)) = ToSet(s.order) \cap (ToSet(s.order) \ ToSet(ids))
    BY <1>0, OnlyOrder DEF Gone
  <2> QED BY <2>1
<1>8. ASSUME x \notin ToSet(ids) PROVE x \in ToSet(log.ids) /\ x > 0 /\ u.type = "info"
  <2>1. x \in ToSet(log.ids) /\ x \notin ToSet(s.order)
    BY <1>1, <1>5, <1>6, <1>7, <1>8
  <2>2. log.body[x].type = "info" /\ m = log.body[x] /\ u.type = m.type
    BY <1>3, <2>1 DEF Indexes, BecomesMessage
  <2>3. x > 0
    BY <1>4, <2>2 DEF GoodMessage
  <2> QED BY <2>1, <2>2, <2>3
<1>9. -n <= x /\ x <= n
  <2>1. CASE x \in ToSet(ids)
    <3>1. PICK i \in DOMAIN turns : turns[i].id = x
      BY <1>0, <2>1, TurnsIds
    <3> QED BY <3>1 DEF HistoryOK
  <2>2. CASE x \notin ToSet(ids)
    BY <1>8, <2>2 DEF Sound, Within
  <2> QED BY <2>1, <2>2
<1> QED BY <1>1, <1>3, <1>4, <1>8, <1>9 DEF u, m

\* A response that was made up for a call still stands behind the call, since it
\* does so in the history.
LEMMA FollowedEcho ==
    ASSUME NEW n \in Nat, NEW s, NEW log, Sound(log, n), Indexes(s, log),
           NEW turns, HistoryOK(turns, n), Follows(turns, log, s.order),
           NEW new, FollowedLog(s, turns, log, new), NEW x \in ToSet(new.ids), x < 0
    PROVE  Echo(new, x)
<1> DEFINE ids == IdsOf(turns)
<1>0. /\ turns \in Seq(HistoryTurns) /\ Unrepeated(ids)
      /\ ToSet(ids) \subseteq ToSet(new.ids) /\ Only(new.ids, ToSet(ids)) = ids
      /\ new.ids \in Seq(Int) /\ Unrepeated(new.ids)
  BY DEF HistoryOK, FollowedLog, Leaves
<1>1. x \in ToSet(ids)
  <2> SUFFICES ASSUME x \notin ToSet(ids) PROVE FALSE
    OBVIOUS
  <2>1. x > 0
    BY FollowedMessages
  <2>2. x \in Int
    BY <1>0 DEF ToSet
  <2> QED BY <2>1, <2>2
<1>2. PICK i \in DOMAIN turns : turns[i].id = x /\ ContentOf(turns, x) = turns[i].content
  BY <1>0, <1>1, TurnOf
<1>3. i > 1 /\ turns[i - 1].id = -x
  BY <1>2 DEF HistoryOK
<1>4. /\ ids \in Seq(Int) /\ Len(ids) = Len(turns) /\ DOMAIN turns = 1 .. Len(turns)
      /\ Len(turns) \in Nat
      /\ \A j \in DOMAIN turns : ids[j] = turns[j].id
      /\ ToSet(ids) = {turns[j].id : j \in DOMAIN turns}
  BY <1>0, TurnsIds
<1>5. i - 1 \in DOMAIN turns /\ i \in 1 .. Len(turns)
  BY <1>3, <1>4
<1>6. -x \in ToSet(ids) /\ DOMAIN ids = DOMAIN turns
  BY <1>3, <1>4, <1>5
<1>7. \A y, z : Precedes(ids, y, z) <=> Precedes(new.ids, y, z) /\ y \in ToSet(ids) /\ z \in ToSet(ids)
  BY <1>0, OnlyOrder
<1> HIDE DEF ids
<1>8. Precedes(ids, -x, x)
  <2>1. i - 1 \in DOMAIN ids /\ i \in DOMAIN ids /\ i - 1 < i
    BY <1>4, <1>5, <1>6
  <2>2. ids[i - 1] = -x /\ ids[i] = x
    BY <1>2, <1>3, <1>4, <1>5
  <2> QED BY <2>1, <2>2 DEF Precedes
<1>9. ASSUME NEW y, Precedes(ids, -x, y), Precedes(ids, y, x) PROVE FALSE
  <2>1. PICK a, b \in DOMAIN ids : a < b /\ ids[a] = -x /\ ids[b] = y
    BY <1>9 DEF Precedes
  <2>2. PICK c, d \in DOMAIN ids : c < d /\ ids[c] = y /\ ids[d] = x
    BY <1>9 DEF Precedes
  <2>3. ids[i - 1] = -x /\ ids[i] = x /\ i - 1 \in DOMAIN ids /\ i \in DOMAIN ids
    BY <1>2, <1>3, <1>4, <1>5, <1>6
  <2>4. a = i - 1 /\ b = c /\ d = i
    BY <1>0, <2>1, <2>2, <2>3 DEF Unrepeated, ids
  <2>5. a \in Nat /\ b \in Nat /\ i \in Nat
    BY <1>4, <1>6, <2>1
  <2> QED BY <2>1, <2>2, <2>4, <2>5
<1>10. ASSUME NEW y, Precedes(new.ids, -x, y), Precedes(new.ids, y, x) PROVE new.body[y].type = "info"
  <2>1. y \in ToSet(new.ids)
    BY <1>0, <1>10, PrecedesIsOrder
  <2>2. y \notin ToSet(ids)
    BY <1>1, <1>6, <1>7, <1>9, <1>10
  <2> QED BY <2>1, <2>2, FollowedMessages DEF ids
<1>11. -x \in ToSet(new.ids)
  BY <1>0, <1>6 DEF ids
<1>12. new.body[-x].tool # NoCall /\ new.body[x].content[2] = new.body[-x].tool
  <2>1. FollowsTurn(turns[i], log, s.order)
    BY DEF Follows
  <2>2. /\ -x \in ToSet(log.ids) /\ log.body[-x].tool # NoCall
        /\ turns[i].content[2] = log.body[-x].tool
    BY <1>2, <2>1 DEF FollowsTurn
  <2>3. new.body[-x].tool = log.body[-x].tool
    BY <1>11, <2>2, FollowedMessages DEF BecomesMessage
  <2>4. new.body[x].content = turns[i].content
    BY <1>1, <1>2, FollowedMessages DEF BecomesMessage, ids
  <2> QED BY <2>2, <2>3, <2>4
<1> QED BY <1>7, <1>8, <1>10, <1>11, <1>12 DEF Echo

\* The log that has followed a history is sound.
LEMMA FollowedSound ==
    ASSUME NEW n \in Nat, NEW s, NEW log, Sound(log, n), Indexes(s, log),
           NEW turns, HistoryOK(turns, n), Follows(turns, log, s.order),
           NEW new, FollowedLog(s, turns, log, new)
    PROVE  Sound(new, n)
<1>1. Within(ToSet(new.ids), n)
  BY FollowedMessages DEF Within
<1>2. \A x \in ToSet(new.ids) : GoodMessage(x, new.body[x])
  BY FollowedMessages
<1>3. \A x \in ToSet(new.ids) : x < 0 => Echo(new, x)
  BY FollowedEcho
<1>4. ASSUME NEW x \in ToSet(new.ids), NEW y \in ToSet(new.ids),
             new.body[x].tool = new.body[y].tool, new.body[x].tool # NoCall
      PROVE  x = y
  <2>1. /\ BecomesMessage(s, turns, log, x, GrownBy(s, turns, log).body[x], new.body[x])
        /\ BecomesMessage(s, turns, log, y, GrownBy(s, turns, log).body[y], new.body[y])
    BY FollowedMessages
  <2>2. /\ x \in ToSet(log.ids) /\ log.body[x].tool = new.body[x].tool
        /\ y \in ToSet(log.ids) /\ log.body[y].tool = new.body[y].tool
    BY <1>4, <2>1 DEF BecomesMessage
  <2> QED BY <1>4, <2>2 DEF Sound, OneMessagePerTool
<1>5. IsLog(new)
  BY DEF FollowedLog
<1> QED BY <1>1, <1>2, <1>3, <1>4, <1>5 DEF Sound, OneMessagePerTool

-----------------------------------------------------------------------------
(* The records that the service writes to follow a history                 *)

\* The conditions and records of FollowingHistory, by name
IsPatched(s, turns) == DOMAIN ChangedContents(s, turns) # {} \/ DOMAIN ChangedResults(s, turns) # {}
GrownOrder(s, turns) == s.order \o Added(s, turns)
OrderChanged(s, turns) == Only(GrownOrder(s, turns), ToSet(IdsOf(turns))) # IdsOf(turns)
Reconciled(s, turns) == Gone(s, turns) # << >> \/ OrderChanged(s, turns)
PatchOf(s, turns) ==
    [op |-> "patch", contents |-> ChangedContents(s, turns), results |-> ChangedResults(s, turns),
     removeIds |-> Gone(s, turns),
     orderIds |-> IF OrderChanged(s, turns) THEN IdsOf(turns) ELSE << >>]
RollsBackOnly(s, turns) ==
    IsPureTailRollback(s, turns, Gone(s, turns), IsPatched(s, turns), OrderChanged(s, turns))
RecordFor(s, turns) ==
    IF RollsBackOnly(s, turns) THEN [op |-> "rewind", to |-> Gone(s, turns)[1]] ELSE PatchOf(s, turns)
\* The log once the service has followed a history
LogFollowing(s, turns, log) ==
    IF IsPatched(s, turns) \/ Reconciled(s, turns)
    THEN Replayed(GrownBy(s, turns, log), RecordFor(s, turns)) ELSE GrownBy(s, turns, log)

\* The messages that are chosen of a log, under their ids
LEMMA ChosenLog ==
    ASSUME NEW log, IsLog(log), NEW v \in Seq(Int), Unrepeated(v), ToSet(v) \subseteq ToSet(log.ids)
    PROVE  /\ IsLog(Chosen(log, v)) /\ Chosen(log, v).ids = v
           /\ \A x \in ToSet(v) : Chosen(log, v).body[x] = log.body[x]
<1> DEFINE new == Chosen(log, v)
           body == [x \in ToSet(v) |-> log.body[x]]
<1>1. new = [ids |-> v, body |-> body]
  BY DEF Chosen
<1>2. body \in [ToSet(v) -> MessageSet]
  BY LogDomain
<1>3. \A x \in ToSet(v) : body[x] = log.body[x]
  OBVIOUS
<1> HIDE DEF body, new
<1>4. new.ids = v /\ new.body = body /\ new = [ids |-> new.ids, body |-> new.body]
  BY <1>1
<1>5. IsLog(new)
  BY <1>2, <1>4 DEF IsLog
<1> QED BY <1>3, <1>4, <1>5 DEF new

\* The order after the new turns is that of the log after them.
LEMMA GrownFacts ==
    ASSUME NEW n \in Nat, NEW s, NEW log, Sound(log, n), Indexes(s, log),
           NEW turns, HistoryOK(turns, n), Follows(turns, log, s.order)
    PROVE  /\ GrownOrder(s, turns) \in Seq(Int) /\ Unrepeated(GrownOrder(s, turns))
           /\ ToSet(GrownOrder(s, turns)) = ToSet(s.order) \cup ToSet(IdsOf(turns))
           /\ Only(GrownBy(s, turns, log).ids, ToSet(GrownOrder(s, turns))) = GrownOrder(s, turns)
           /\ IsLog(GrownBy(s, turns, log))
           /\ ToSet(IdsOf(turns)) \subseteq ToSet(GrownBy(s, turns, log).ids)
<1> DEFINE ids == IdsOf(turns)
           added == Added(s, turns)
           big == GrownBy(s, turns, log)
           order == GrownOrder(s, turns)
<1>0. turns \in Seq(HistoryTurns) /\ Unrepeated(ids) /\ IsLog(log) /\ s.order \in Seq(Int)
  BY DEF HistoryOK, Sound, Indexes
<1>1. added \in Seq(Int) /\ Unrepeated(added) /\ ToSet(added) = ToSet(ids) \ ToSet(s.order)
  BY <1>0, AddedFacts
<1>2. GrownAs(big, log, added, NewBodies(s, turns))
  BY <1>0, NewTurns
<1>3. /\ Unrepeated(s.order) /\ ToSet(s.order) \subseteq ToSet(log.ids)
      /\ \A x, y : Precedes(s.order, x, y) <=>
                      Precedes(log.ids, x, y) /\ x \in ToSet(s.order) /\ y \in ToSet(s.order)
  BY <1>0, OrderFacts DEF Indexes
<1>4. order = s.order \o added
  BY Zenon DEF GrownOrder
<1> HIDE DEF order, added, ids, big
<1>5. /\ s.order \o added \in Seq(Int)
      /\ ToSet(s.order \o added) = ToSet(s.order) \cup ToSet(added)
      /\ \A x, y : Precedes(s.order \o added, x, y) <=>
            \/ Precedes(s.order, x, y) \/ Precedes(added, x, y)
            \/ x \in ToSet(s.order) /\ y \in ToSet(added)
      /\ Unrepeated(s.order \o added)
  <2>1. ToSet(s.order) \cap ToSet(added) = {}
    BY <1>1
  <2> QED BY <1>0, <1>1, <1>3, <2>1, ConcatOrder
<1>6. /\ order \in Seq(Int)
      /\ ToSet(order) = ToSet(s.order) \cup ToSet(added)
      /\ \A x, y : Precedes(order, x, y) <=>
            \/ Precedes(s.order, x, y) \/ Precedes(added, x, y)
            \/ x \in ToSet(s.order) /\ y \in ToSet(added)
      /\ Unrepeated(order)
  BY <1>4, <1>5, Zenon
<1>7. /\ IsLog(big)
      /\ ToSet(big.ids) = ToSet(log.ids) \cup ToSet(added)
      /\ \A x, y : Precedes(big.ids, x, y) <=>
            \/ Precedes(log.ids, x, y) \/ Precedes(added, x, y)
            \/ x \in ToSet(log.ids) /\ y \in ToSet(added)
  BY <1>2 DEF GrownAs
<1>8. Only(big.ids, ToSet(order)) = order
  <2>1. big.ids \in Seq(Int) /\ Unrepeated(big.ids)
    BY <1>7 DEF IsLog
  <2>2. ToSet(order) \subseteq ToSet(big.ids)
    BY <1>3, <1>6, <1>7
  <2>3. \A x, y : Precedes(order, x, y) => Precedes(big.ids, x, y)
    BY <1>3, <1>6, <1>7
  <2> QED BY <1>6, <2>1, <2>2, <2>3, OnlyIs
<1>9. ToSet(order) = ToSet(s.order) \cup ToSet(ids)
  BY <1>1, <1>6
<1>10. ToSet(ids) \subseteq ToSet(big.ids)
  BY <1>1, <1>3, <1>7
<1> QED BY <1>6, <1>7, <1>8, <1>9, <1>10 DEF order, added, ids, big

\* The ids of the index that the history does not have
LEMMA GoneFacts ==
    ASSUME NEW s, s.order \in Seq(Int), NEW turns
    PROVE  /\ Gone(s, turns) \in Seq(Int)
           /\ ToSet(Gone(s, turns)) = ToSet(s.order) \ ToSet(IdsOf(turns))
           /\ ToSet(Gone(s, turns)) \cap ToSet(IdsOf(turns)) = {}
<1>1. /\ Gone(s, turns) \in Seq(Int)
      /\ ToSet(Gone(s, turns)) = ToSet(s.order) \cap (ToSet(s.order) \ ToSet(IdsOf(turns)))
  BY OnlyOrder DEF Gone
<1> QED BY <1>1

\* When nothing is found changed, the messages already say what the history says.
LEMMA FollowedAlready ==
    ASSUME NEW n \in Nat, NEW s, NEW log, Sound(log, n), Indexes(s, log),
           NEW turns, HistoryOK(turns, n), Follows(turns, log, s.order),
           ~IsPatched(s, turns)
    PROVE  \A x \in ToSet(GrownBy(s, turns, log).ids) :
              MessageAfter(s, turns, log, x) = GrownBy(s, turns, log).body[x]
<1> SUFFICES ASSUME NEW x \in ToSet(GrownBy(s, turns, log).ids)
             PROVE  MessageAfter(s, turns, log, x) = GrownBy(s, turns, log).body[x]
  OBVIOUS
<1> DEFINE m == GrownBy(s, turns, log).body[x]
<1>1. m \in MessageSet
  BY BecomesFacts
<1>2. x \notin DOMAIN ChangedContents(s, turns) /\ m.tool \notin DOMAIN ChangedResults(s, turns)
  BY DEF IsPatched
<1> HIDE DEF m
<1>3. MessageAfter(s, turns, log, x) =
         [m EXCEPT !.content = m.content, !.result = m.result]
  BY <1>2 DEF MessageAfter, UpdatedMessage, m
<1> QED BY <1>1, <1>3 DEF MessageSet, m

\* When nothing is patched, removed or put in order, the log has followed the
\* history with the new turns alone.
LEMMA LeftAlone ==
    ASSUME NEW n \in Nat, NEW s, NEW log, Sound(log, n), Indexes(s, log),
           NEW turns, HistoryOK(turns, n), Follows(turns, log, s.order),
           ~IsPatched(s, turns), ~Reconciled(s, turns)
    PROVE  FollowedLog(s, turns, log, GrownBy(s, turns, log))
<1> DEFINE ids == IdsOf(turns)
           big == GrownBy(s, turns, log)
           order == GrownOrder(s, turns)
<1>0. /\ turns \in Seq(HistoryTurns) /\ Unrepeated(ids) /\ s.order \in Seq(Int) /\ ids \in Seq(Int)
  BY TurnsIds DEF HistoryOK, Indexes
<1>1. /\ order \in Seq(Int) /\ Unrepeated(order)
      /\ ToSet(order) = ToSet(s.order) \cup ToSet(ids)
      /\ Only(big.ids, ToSet(order)) = order
      /\ IsLog(big) /\ ToSet(ids) \subseteq ToSet(big.ids)
  BY GrownFacts
<1>2. Only(order, ToSet(ids)) = ids /\ Gone(s, turns) = << >>
  BY DEF Reconciled, OrderChanged
<1>3. ToSet(Gone(s, turns)) = {}
  BY <1>2, NoElement
<1> HIDE DEF order, big, ids
<1>4. Only(big.ids, ToSet(ids)) = ids
  <2>1. big.ids \in Seq(Int) /\ Unrepeated(big.ids)
    BY <1>1 DEF IsLog
  <2>2. \A x, y : Precedes(ids, x, y) => Precedes(order, x, y)
    BY <1>1, <1>2, OnlyOrder
  <2>3. \A x, y : Precedes(order, x, y) => Precedes(big.ids, x, y)
    BY <1>1, <2>1, OnlyOrder
  <2> QED BY <1>0, <1>1, <2>1, <2>2, <2>3, OnlyIs
<1>5. Leaves(big.ids, big.ids, Gone(s, turns), ids)
  BY <1>1, <1>3, <1>4 DEF Leaves, IsLog
<1>6. \A x \in ToSet(big.ids) : big.body[x] = MessageAfter(s, turns, log, x)
  BY FollowedAlready DEF big
<1> QED BY <1>1, <1>5, <1>6 DEF FollowedLog, big, ids

\* A rewind that stands for a rollback makes the log follow the history.
LEMMA RolledBackLog ==
    ASSUME NEW n \in Nat, NEW s, NEW log, Sound(log, n), Indexes(s, log),
           NEW turns, HistoryOK(turns, n), Follows(turns, log, s.order),
           RollsBackOnly(s, turns)
    PROVE  FollowedLog(s, turns, log,
              Replayed(GrownBy(s, turns, log), [op |-> "rewind", to |-> Gone(s, turns)[1]]))
<1> DEFINE ids == IdsOf(turns)
           big == GrownBy(s, turns, log)
           gone == Gone(s, turns)
           order == GrownOrder(s, turns)
           v == Until(big.ids, gone[1])
           k == Len(turns)
<1>0. /\ turns \in Seq(HistoryTurns) /\ Unrepeated(ids) /\ s.order \in Seq(Int) /\ ids \in Seq(Int)
      /\ k \in Nat
  BY TurnsIds DEF HistoryOK, Indexes
<1>1. /\ order \in Seq(Int) /\ Unrepeated(order)
      /\ ToSet(order) = ToSet(s.order) \cup ToSet(ids)
      /\ Only(big.ids, ToSet(order)) = order
      /\ IsLog(big) /\ ToSet(ids) \subseteq ToSet(big.ids)
  BY GrownFacts
<1>2. /\ gone # << >> /\ Added(s, turns) = << >> /\ ~IsPatched(s, turns) /\ ~OrderChanged(s, turns)
      /\ SubSeq(s.order, k + 1, Len(s.order)) = gone
  BY DEF RollsBackOnly, IsPureTailRollback
<1>3. order = s.order
  <2>1. order = s.order \o << >>
    BY <1>2, Zenon DEF GrownOrder
  <2>2. s.order \o << >> = s.order
    BY <1>0
  <2> HIDE DEF order
  <2> QED BY <2>1, <2>2, Zenon
<1>4. Only(s.order, ToSet(ids)) = ids
  BY <1>2, <1>3, Zenon DEF OrderChanged
<1>5. ToSet(ids) \subseteq ToSet(s.order)
  BY <1>1, <1>3
<1>6. gone \in Seq(Int) /\ ToSet(gone) = ToSet(s.order) \ ToSet(ids)
  BY <1>0, GoneFacts
<1>7. big.ids \in Seq(Int) /\ Unrepeated(big.ids) /\ DOMAIN big.body = ToSet(big.ids)
  BY <1>1 DEF IsLog
<1> HIDE DEF ids, big, gone, order, k
<1>8. gone[1] \in ToSet(big.ids) /\ Leaves(v, big.ids, gone, ids)
  BY <1>0, <1>1, <1>2, <1>3, <1>4, <1>5, <1>6, <1>7, RollsBack, ZenonT(40)
<1>9. Replayed(big, [op |-> "rewind", to |-> gone[1]]) = Chosen(big, v)
  BY <1>7, <1>8 DEF Replayed
<1> HIDE DEF v
<1>10. v \in Seq(Int) /\ Unrepeated(v) /\ ToSet(v) \subseteq ToSet(big.ids)
  BY <1>8 DEF Leaves
<1>11. /\ IsLog(Chosen(big, v)) /\ Chosen(big, v).ids = v
       /\ \A x \in ToSet(v) : Chosen(big, v).body[x] = big.body[x]
  BY <1>1, <1>10, ChosenLog
<1>12. \A x \in ToSet(v) : Chosen(big, v).body[x] = MessageAfter(s, turns, log, x)
  BY <1>2, <1>10, <1>11, FollowedAlready DEF big
<1>13. FollowedLog(s, turns, log, Chosen(big, v))
  BY <1>8, <1>11, <1>12 DEF FollowedLog, big, gone, ids
<1> QED BY <1>9, <1>13 DEF big, gone

\* The messages of a log after the changes of a patch
LEMMA UpdatedLog ==
    ASSUME NEW log, IsLog(log), NEW contents, NEW results,
           \A x \in ToSet(log.ids) : UpdatedMessage(log.body[x], x, contents, results) \in MessageSet
    PROVE  LET new == Updated(log, contents, results)
           IN /\ IsLog(new) /\ new.ids = log.ids
              /\ \A x \in ToSet(log.ids) : new.body[x] = UpdatedMessage(log.body[x], x, contents, results)
<1> DEFINE new == Updated(log, contents, results)
           body == [x \in DOMAIN log.body |-> UpdatedMessage(log.body[x], x, contents, results)]
<1>0. DOMAIN log.body = ToSet(log.ids)
  BY LogDomain
<1>1. new = [ids |-> log.ids, body |-> body]
  BY DEF Updated
<1>2. body \in [ToSet(log.ids) -> MessageSet]
  BY <1>0
<1>3. \A x \in ToSet(log.ids) : body[x] = UpdatedMessage(log.body[x], x, contents, results)
  BY <1>0
<1> HIDE DEF body, new
<1>4. new.ids = log.ids /\ new.body = body /\ new = [ids |-> new.ids, body |-> new.body]
  BY <1>1
<1>5. IsLog(new)
  BY <1>2, <1>4 DEF IsLog
<1> QED BY <1>3, <1>4, <1>5 DEF new

\* A patch makes the log follow the history.
LEMMA PatchedLog ==
    ASSUME NEW n \in Nat, NEW s, NEW log, Sound(log, n), Indexes(s, log),
           NEW turns, HistoryOK(turns, n), Follows(turns, log, s.order)
    PROVE  FollowedLog(s, turns, log, Replayed(GrownBy(s, turns, log), PatchOf(s, turns)))
<1> DEFINE ids == IdsOf(turns)
           big == GrownBy(s, turns, log)
           gone == Gone(s, turns)
           order == GrownOrder(s, turns)
           ordered == IF OrderChanged(s, turns) THEN ids ELSE << >>
           contents == ChangedContents(s, turns)
           results == ChangedResults(s, turns)
           updated == Updated(big, contents, results)
           v == Reordered(big.ids, gone, ordered)
<1>0. /\ turns \in Seq(HistoryTurns) /\ Unrepeated(ids) /\ s.order \in Seq(Int) /\ ids \in Seq(Int)
  BY TurnsIds DEF HistoryOK, Indexes
<1>1. /\ order \in Seq(Int) /\ Unrepeated(order)
      /\ ToSet(order) = ToSet(s.order) \cup ToSet(ids)
      /\ Only(big.ids, ToSet(order)) = order
      /\ IsLog(big) /\ ToSet(ids) \subseteq ToSet(big.ids)
  BY GrownFacts
<1>2. /\ IsLog(updated) /\ updated.ids = big.ids
      /\ \A x \in ToSet(big.ids) : updated.body[x] = MessageAfter(s, turns, log, x)
  <2>1. \A x \in ToSet(big.ids) : UpdatedMessage(big.body[x], x, contents, results) \in MessageSet
    BY BecomesFacts DEF BecomesMessage
  <2> QED BY <1>1, <2>1, UpdatedLog DEF MessageAfter
<1>3. gone \in Seq(Int) /\ ToSet(gone) \cap ToSet(ids) = {}
  BY <1>0, GoneFacts
<1>4. big.ids \in Seq(Int) /\ Unrepeated(big.ids)
  BY <1>1 DEF IsLog
<1>5. Leaves(v, big.ids, gone, ids)
  <2>1. CASE OrderChanged(s, turns)
    <3>1. ordered = ids
      BY <2>1
    <3> HIDE DEF ordered, ids, big, gone
    <3> QED BY <1>0, <1>1, <1>3, <1>4, <3>1, ChangesOrder
  <2>2. CASE ~OrderChanged(s, turns)
    <3>1. ordered = << >> /\ Only(order, ToSet(ids)) = ids /\ ToSet(ids) \subseteq ToSet(order)
      BY <1>1, <2>2 DEF OrderChanged
    <3> HIDE DEF ordered, ids, big, gone, order
    <3> QED BY <1>0, <1>1, <1>3, <1>4, <3>1, KeepsOrder
  <2> QED BY <2>1, <2>2
<1>6. Replayed(big, PatchOf(s, turns)) = Chosen(updated, v)
  <2> HIDE DEF big
  <2>1. Replayed(big, PatchOf(s, turns)) =
           Chosen(Updated(big, contents, results), Reordered(big.ids, gone, ordered))
    BY DEF Replayed, PatchOf
  <2> QED BY <2>1
<1> HIDE DEF v, updated, big, gone, ids, ordered
<1>7. v \in Seq(Int) /\ Unrepeated(v) /\ ToSet(v) \subseteq ToSet(big.ids)
  BY <1>5 DEF Leaves
<1>8. /\ IsLog(Chosen(updated, v)) /\ Chosen(updated, v).ids = v
      /\ \A x \in ToSet(v) : Chosen(updated, v).body[x] = updated.body[x]
  <2>1. ToSet(v) \subseteq ToSet(updated.ids)
    BY <1>2, <1>7
  <2> QED BY <1>2, <1>7, <2>1, ChosenLog
<1>9. FollowedLog(s, turns, log, Chosen(updated, v))
  BY <1>2, <1>5, <1>7, <1>8 DEF FollowedLog, big, gone, ids
<1> QED BY <1>6, <1>9 DEF big

\* Whichever record updateMessagesFromHistory writes, the log follows the history.
LEMMA LogIsFollowed ==
    ASSUME NEW n \in Nat, NEW s, NEW log, Sound(log, n), Indexes(s, log),
           NEW turns, HistoryOK(turns, n), Follows(turns, log, s.order)
    PROVE  FollowedLog(s, turns, log, LogFollowing(s, turns, log))
<1>1. CASE ~(IsPatched(s, turns) \/ Reconciled(s, turns))
  BY <1>1, LeftAlone DEF LogFollowing
<1>2. CASE IsPatched(s, turns) \/ Reconciled(s, turns)
  <2>1. CASE RollsBackOnly(s, turns)
    BY <1>2, <2>1, RolledBackLog DEF LogFollowing, RecordFor
  <2>2. CASE ~RollsBackOnly(s, turns)
    BY <1>2, <2>2, PatchedLog DEF LogFollowing, RecordFor
  <2> QED BY <2>1, <2>2
<1> QED BY <1>1, <1>2

-----------------------------------------------------------------------------
(* The memory of the service after it has followed a history               *)

\* The parts of the memory in FollowingHistory, by name
WrittenFor(s, turns) ==
    IF IsPatched(s, turns) \/ Reconciled(s, turns)
    THEN Logged(WithNewTurns(s, turns), RecordFor(s, turns)) ELSE WithNewTurns(s, turns)
ChangedWindow(s, turns) ==
    Updated(WithNewTurns(s, turns).window, ChangedContents(s, turns), ChangedResults(s, turns))
SourceFor(s, turns) == IF s.evicted THEN LogAfter(WrittenFor(s, turns)) ELSE ChangedWindow(s, turns)
WindowFor(s, turns) ==
    IF ~Reconciled(s, turns) THEN ChangedWindow(s, turns)
    ELSE IF s.evicted \/ OrderChanged(s, turns)
         THEN Chosen(SourceFor(s, turns), Only(IdsOf(turns), DOMAIN SourceFor(s, turns).body))
         ELSE Chosen(SourceFor(s, turns), Only(SourceFor(s, turns).ids, ToSet(IdsOf(turns))))
PrintsFor(s, turns) ==
    [id \in DOMAIN WithNewTurns(s, turns).prints \ ToSet(Gone(s, turns)) |->
        IF id \in DOMAIN ChangedContents(s, turns)
        THEN ChangedContents(s, turns)[id] ELSE WithNewTurns(s, turns).prints[id]]
ResultsFor(s, turns) ==
    [c \in {c \in DOMAIN s.results : s.results[c].message \notin ToSet(Gone(s, turns))} |->
        IF c \in DOMAIN ChangedResults(s, turns)
        THEN [s.results[c] EXCEPT !.print = ChangedResults(s, turns)[c]] ELSE s.results[c]]
FollowedMemory(s, turns) ==
    [window |-> WindowFor(s, turns), order |-> IdsOf(turns), prints |-> PrintsFor(s, turns),
     results |-> ResultsFor(s, turns), evicted |-> s.evicted, appended |-> WrittenFor(s, turns).appended]
AnyChange(s, turns) ==
    IsPatched(s, turns) \/ Reconciled(s, turns) \/ Added(s, turns) # << >>

\* FollowingHistory, put together of the parts that are named above
LEMMA FollowingIs ==
    ASSUME NEW s, NEW turns
    PROVE  FollowingHistory(s, turns) =
              IF AnyChange(s, turns) THEN Logged(Trimmed(FollowedMemory(s, turns)), [op |-> "set"])
              ELSE Trimmed(FollowedMemory(s, turns))
<1>1. WithNewTurns(s, turns).order = GrownOrder(s, turns)
  BY DEF WithNewTurns, GrownOrder
<1>2. OrderChanged(s, turns) =
         (Only(WithNewTurns(s, turns).order, ToSet(IdsOf(turns))) # IdsOf(turns))
  BY <1>1, Zenon DEF OrderChanged
<1> QED
  BY <1>2, ZenonT(40) DEF FollowingHistory, Followed, FollowedMemory, WindowFor, PrintsFor, ResultsFor, WrittenFor, SourceFor,
     ChangedWindow, AnyChange, IsPatched, Reconciled, RecordFor, RollsBackOnly, PatchOf, Gone

\* The memory after the loop of updateMessagesFromHistory that adds the new turns
LEMMA GrownMemory ==
    ASSUME NEW s, NEW turns
    PROVE  LET g == WithNewTurns(s, turns)
               added == Added(s, turns)
           IN /\ g.window = Grown(s.window, added, NewBodies(s, turns))
                 \/ DOMAIN s.window.body # ToSet(s.window.ids)
              /\ g.prints = [x \in DOMAIN s.prints \cup ToSet(added) |->
                                IF x \in ToSet(added) THEN NewOf(turns, x).content ELSE s.prints[x]]
              /\ Same(g.appended, s.appended \o RecordsOf(added, NewBodies(s, turns)))
<1> DEFINE added == Added(s, turns)
           w == [ids |-> s.window.ids \o added,
                 body |-> [x \in DOMAIN s.window.body \cup ToSet(added) |->
                              IF x \in ToSet(added) THEN NewOf(turns, x) ELSE s.window.body[x]]]
           prints == [x \in DOMAIN s.prints \cup ToSet(added) |->
                        IF x \in ToSet(added) THEN NewOf(turns, x).content ELSE s.prints[x]]
           records == [i \in DOMAIN added |-> MessageRecord(added[i], NewOf(turns, added[i]))]
           appended == s.appended \o records
           order == s.order \o added
<1>1. WithNewTurns(s, turns) =
         [window |-> w, order |-> order, prints |-> prints, results |-> s.results,
          evicted |-> s.evicted, appended |-> appended]
  BY Zenon DEF WithNewTurns, NewOf
<1>2. records = RecordsOf(added, NewBodies(s, turns))
  <2>1. \A i \in DOMAIN added : added[i] \in ToSet(added)
    BY DEF ToSet
  <2>2. \A x \in ToSet(added) : NewBodies(s, turns)[x] = NewOf(turns, x)
    BY DEF NewBodies
  <2> QED BY <2>1, <2>2 DEF RecordsOf
<1>3. DOMAIN s.window.body = ToSet(s.window.ids) => w = Grown(s.window, added, NewBodies(s, turns))
  <2> SUFFICES ASSUME DOMAIN s.window.body = ToSet(s.window.ids)
               PROVE  w = Grown(s.window, added, NewBodies(s, turns))
    OBVIOUS
  <2>1. \A x \in ToSet(added) : NewBodies(s, turns)[x] = NewOf(turns, x)
    BY DEF NewBodies
  <2>2. [x \in DOMAIN s.window.body \cup ToSet(added) |->
              IF x \in ToSet(added) THEN NewOf(turns, x) ELSE s.window.body[x]]
         = [x \in ToSet(s.window.ids) \cup ToSet(added) |->
              IF x \in ToSet(added) THEN NewBodies(s, turns)[x] ELSE s.window.body[x]]
    BY <2>1
  <2> QED BY <2>2, Zenon DEF Grown
<1>4. Same(appended, s.appended \o RecordsOf(added, NewBodies(s, turns)))
  BY <1>2, Zenon DEF Same
<1> HIDE DEF w, prints, appended, order
<1>5. /\ WithNewTurns(s, turns).window = w /\ WithNewTurns(s, turns).prints = prints
      /\ WithNewTurns(s, turns).appended = appended
  BY <1>1
<1> QED BY <1>3, <1>4, <1>5, Zenon DEF prints, added

\* Every record that is written leaves a log that can be resumed.
LEMMA WrittenSafely ==
    ASSUME NEW n \in Nat, NEW s, NEW log, Stands(s, log, n),
           NEW turns, HistoryOK(turns, n), Follows(turns, log, s.order)
    PROVE  /\ Safe(WrittenFor(s, turns).appended, LogFollowing(s, turns, log), n)
           /\ Sound(LogFollowing(s, turns, log), n)
           /\ FollowedLog(s, turns, log, LogFollowing(s, turns, log))
<1> DEFINE added == Added(s, turns)
           f == NewBodies(s, turns)
           big == GrownBy(s, turns, log)
           new == LogFollowing(s, turns, log)
           g == WithNewTurns(s, turns)
           r == RecordFor(s, turns)
<1>1. Indexes(s, log) /\ Sound(log, n) /\ IsLog(log) /\ Safe(s.appended, log, n)
  BY DEF Stands, Knows, Sound
<1>2. FollowedLog(s, turns, log, new)
  BY <1>1, LogIsFollowed
<1>3. Sound(new, n)
  BY <1>1, <1>2, FollowedSound
<1>4. Safe(g.appended, big, n)
  <2>1. added \in Seq(Int) /\ Unrepeated(added)
    BY <1>1, AddedFacts DEF HistoryOK
  <2>2. /\ ToSet(added) \cap ToSet(log.ids) = {}
        /\ \A x \in ToSet(added) : /\ f[x] \in MessageSet /\ f[x].tool = NoCall
                                   /\ x >= 0 => x <= n /\ GoodMessage(x, f[x])
    BY <1>1, NewTurns
  <2> HIDE DEF added, f
  <2>3. Safe(s.appended \o RecordsOf(added, f), Grown(log, added, f), n)
    BY <1>1, <2>1, <2>2, SafeMessages
  <2>4. Same(g.appended, s.appended \o RecordsOf(added, f))
    BY GrownMemory, Zenon DEF added, f
  <2>5. Grown(log, added, f) = big
    BY Zenon DEF GrownBy, added, f
  <2>6. g.appended = s.appended \o RecordsOf(added, f)
    BY <2>4, Zenon DEF Same
  <2> QED BY <2>3, <2>5, <2>6, Zenon
<1>5. CASE ~(IsPatched(s, turns) \/ Reconciled(s, turns))
  <2>1. WrittenFor(s, turns) = g /\ new = big
    BY <1>5, Zenon DEF WrittenFor, LogFollowing
  <2> QED BY <1>2, <1>3, <1>4, <2>1, Zenon
<1>6. CASE IsPatched(s, turns) \/ Reconciled(s, turns)
  <2>1. new = Replayed(big, r)
    BY <1>6, Zenon DEF LogFollowing
  <2>2. WrittenFor(s, turns) = Logged(g, r)
    BY <1>6, Zenon DEF WrittenFor
  <2>3. Logged(g, r).appended = Append(g.appended, r)
    <3>1. g = [window |-> g.window, order |-> g.order, prints |-> g.prints, results |-> g.results,
               evicted |-> g.evicted, appended |-> g.appended]
      BY DEF WithNewTurns
    <3> HIDE DEF g
    <3> QED BY <3>1 DEF Logged
  <2> HIDE DEF g, r, big, new
  <2>4. Safe(Append(g.appended, r), Replayed(big, r), n)
    BY <1>3, <1>4, <2>1, SafeAppend
  <2>5. WrittenFor(s, turns).appended = Append(g.appended, r)
    BY <2>2, <2>3, Zenon
  <2>6. Safe(WrittenFor(s, turns).appended, new, n)
    BY <2>1, <2>4, <2>5, Zenon
  <2> QED BY <1>2, <1>3, <2>6 DEF new
<1> QED BY <1>5, <1>6

\* The fingerprints are those of the contents the log holds then.
LEMMA FollowedPrints ==
    ASSUME NEW n \in Nat, NEW s, NEW log, Sound(log, n), Indexes(s, log),
           NEW turns, HistoryOK(turns, n), Follows(turns, log, s.order),
           NEW new, FollowedLog(s, turns, log, new)
    PROVE  PrintsFor(s, turns) = [x \in ToSet(IdsOf(turns)) |-> new.body[x].content]
<1> DEFINE ids == IdsOf(turns)
           added == Added(s, turns)
           contents == ChangedContents(s, turns)
           grown == [x \in DOMAIN s.prints \cup ToSet(added) |->
                       IF x \in ToSet(added) THEN NewOf(turns, x).content ELSE s.prints[x]]
           S == DOMAIN grown \ ToSet(Gone(s, turns))
           V(x) == IF x \in DOMAIN contents THEN contents[x] ELSE grown[x]
<1>0. turns \in Seq(HistoryTurns) /\ Unrepeated(ids) /\ IsLog(log) /\ s.order \in Seq(Int)
  BY DEF HistoryOK, Sound, Indexes
<1>1. ToSet(added) = ToSet(ids) \ ToSet(s.order)
  BY <1>0, AddedFacts
<1>2. s.prints = [x \in ToSet(s.order) |-> log.body[x].content] /\ DOMAIN s.prints = ToSet(s.order)
  BY DEF Indexes
<1>3. PrintsFor(s, turns) = [x \in S |-> V(x)]
  <2>1. WithNewTurns(s, turns).prints = grown
    BY GrownMemory, ZenonT(40)
  <2> QED BY <2>1, Zenon DEF PrintsFor
<1>4. ToSet(Gone(s, turns)) = ToSet(s.order) \ ToSet(ids)
  BY <1>0, GoneFacts
<1>5. S = ToSet(ids)
  <2>1. DOMAIN grown = ToSet(s.order) \cup ToSet(added)
    BY <1>2
  <2> HIDE DEF grown, added, ids
  <2> QED BY <1>1, <1>4, <2>1
<1>6. /\ DOMAIN contents \subseteq ToSet(ids) \cap ToSet(s.order)
      /\ \A y \in DOMAIN contents : contents[y] = ContentOf(turns, y)
      /\ \A y \in ToSet(ids) \cap ToSet(s.order) :
            y \notin DOMAIN contents => log.body[y].content = ContentOf(turns, y)
  BY <1>0, Changes
<1>7. ASSUME NEW x \in ToSet(ids) PROVE V(x) = ContentOf(turns, x)
  <2>1. CASE x \in DOMAIN contents
    BY <1>6, <2>1
  <2>2. CASE x \notin DOMAIN contents /\ x \in ToSet(added)
    <3>1. grown[x] = NewOf(turns, x).content
      BY <2>2
    <3>2. NewOf(turns, x).content = ContentOf(turns, x)
      BY DEF NewOf, NewMessage
    <3> QED BY <2>2, <3>1, <3>2
  <2>3. CASE x \notin DOMAIN contents /\ x \notin ToSet(added)
    <3>1. x \in ToSet(s.order)
      BY <1>1, <2>3
    <3>2. grown[x] = log.body[x].content
      BY <1>2, <2>3, <3>1
    <3> QED BY <1>6, <2>3, <3>1, <3>2
  <2> QED BY <2>1, <2>2, <2>3
<1>8. ASSUME NEW x \in ToSet(ids) PROVE new.body[x].content = ContentOf(turns, x)
  <2>1. x \in ToSet(new.ids)
    BY DEF FollowedLog, Leaves
  <2> QED BY <2>1, FollowedMessages DEF BecomesMessage
<1> HIDE DEF V, S
<1>9. \A x \in ToSet(ids) : V(x) = new.body[x].content
  BY <1>7, <1>8
<1> QED BY <1>3, <1>5, <1>9 DEF ids

\* The results of calls are those the log holds then.
LEMMA FollowedResults ==
    ASSUME NEW n \in Nat, NEW s, NEW log, Sound(log, n), Indexes(s, log),
           NEW turns, HistoryOK(turns, n), Follows(turns, log, s.order),
           NEW new, FollowedLog(s, turns, log, new)
    PROVE  /\ DOMAIN ResultsFor(s, turns) = ToolsIn(new, IdsOf(turns))
           /\ \A c \in DOMAIN ResultsFor(s, turns) :
                 LET r == ResultsFor(s, turns)[c]
                 IN /\ r = [message |-> r.message, print |-> r.print]
                    /\ r.message \in ToSet(IdsOf(turns))
                    /\ new.body[r.message].tool = c /\ new.body[r.message].result = r.print
<1> DEFINE ids == IdsOf(turns)
           changed == ChangedResults(s, turns)
           left == {c \in DOMAIN s.results : s.results[c].message \notin ToSet(Gone(s, turns))}
           R(c) == IF c \in DOMAIN changed THEN [s.results[c] EXCEPT !.print = changed[c]]
                   ELSE s.results[c]
<1>0. turns \in Seq(HistoryTurns) /\ Unrepeated(ids) /\ IsLog(log) /\ s.order \in Seq(Int)
  BY DEF HistoryOK, Sound, Indexes
<1>1. ToSet(s.order) \subseteq ToSet(log.ids)
  BY <1>0, OrderFacts DEF Indexes
<1>2. ToSet(Gone(s, turns)) = ToSet(s.order) \ ToSet(ids)
  BY <1>0, GoneFacts
<1>3. ResultsFor(s, turns) = [c \in left |-> R(c)]
  BY DEF ResultsFor
<1>4. DOMAIN s.results = ToolsIn(log, s.order) /\ \A c \in DOMAIN s.results : KnowsResult(s, log, c)
  BY DEF Indexes
<1>5. \A x \in ToSet(ids) : x \in ToSet(new.ids)
  BY DEF FollowedLog, Leaves
<1>6. \A x \in ToSet(ids) : /\ x \notin ToSet(log.ids) => new.body[x].tool = NoCall
                            /\ x \in ToSet(log.ids) => new.body[x].tool = log.body[x].tool
  BY <1>5, FollowedMessages DEF BecomesMessage
<1>7. ASSUME NEW c \in left
      PROVE  /\ s.results[c].message \in ToSet(ids)
             /\ new.body[s.results[c].message].tool = c
             /\ new.body[s.results[c].message].result =
                   IF c \in DOMAIN changed THEN changed[c] ELSE s.results[c].print
  <2> DEFINE x == s.results[c].message
  <2>1. /\ x \in ToSet(s.order) /\ x \in ToSet(ids)
        /\ log.body[x].tool = c /\ log.body[x].result = s.results[c].print
    BY <1>2, <1>4 DEF KnowsResult
  <2> HIDE DEF x
  <2>2. x \in ToSet(new.ids) /\ x \in ToSet(log.ids)
    BY <1>1, <1>5, <2>1
  <2>3. BecomesMessage(s, turns, log, x, GrownBy(s, turns, log).body[x], new.body[x])
    BY <2>2, FollowedMessages
  <2>4. GrownBy(s, turns, log).body[x] = log.body[x]
    BY <2>2, <2>3 DEF BecomesMessage
  <2>5. new.body[x].tool = c
        /\ new.body[x].result = IF c \in DOMAIN changed THEN changed[c] ELSE s.results[c].print
    BY <2>1, <2>3, <2>4 DEF BecomesMessage
  <2> QED BY <2>1, <2>5 DEF x
<1>8. ASSUME NEW c \in left
      PROVE  /\ R(c).message = s.results[c].message
             /\ R(c).print = IF c \in DOMAIN changed THEN changed[c] ELSE s.results[c].print
             /\ R(c) = [message |-> R(c).message, print |-> R(c).print]
  <2>1. s.results[c] = [message |-> s.results[c].message, print |-> s.results[c].print]
    BY <1>4 DEF KnowsResult
  <2> QED BY <2>1
<1>9. left = ToolsIn(new, ids)
  <2>1. ASSUME NEW c \in left PROVE c \in ToolsIn(new, ids)
    <3>1. c # NoCall
      BY <1>4 DEF ToolsIn
    <3> QED BY <1>7, <3>1 DEF ToolsIn
  <2>2. ASSUME NEW c \in ToolsIn(new, ids) PROVE c \in left
    <3>1. PICK x \in ToSet(ids) : new.body[x].tool = c /\ c # NoCall
      BY DEF ToolsIn
    <3>2. x \in ToSet(log.ids) /\ log.body[x].tool = c
      BY <1>6, <3>1
    <3>3. x \in ToSet(s.order)
      <4> SUFFICES ASSUME x \notin ToSet(s.order) PROVE FALSE
        OBVIOUS
      <4>1. log.body[x].type = "info" /\ GoodMessage(x, log.body[x])
        BY <3>2 DEF Indexes, Sound
      <4> QED BY <3>1, <3>2, <4>1 DEF GoodMessage
    <3>4. c \in DOMAIN s.results
      BY <1>4, <3>1, <3>2, <3>3 DEF ToolsIn
    <3>5. s.results[c].message \in ToSet(log.ids) /\ log.body[s.results[c].message].tool = c
      BY <1>1, <1>4, <3>4 DEF KnowsResult
    <3>6. s.results[c].message = x
      BY <3>1, <3>2, <3>5 DEF Sound, OneMessagePerTool
    <3> QED BY <1>2, <3>4, <3>6
  <2> HIDE DEF left
  <2> QED BY <2>1, <2>2
<1> HIDE DEF R, left
<1>10. DOMAIN ResultsFor(s, turns) = left /\ \A c \in left : ResultsFor(s, turns)[c] = R(c)
  BY <1>3
<1>11. \A c \in left : /\ R(c) = [message |-> R(c).message, print |-> R(c).print]
                       /\ R(c).message \in ToSet(ids)
                       /\ new.body[R(c).message].tool = c /\ new.body[R(c).message].result = R(c).print
  BY <1>7, <1>8
<1> QED BY <1>9, <1>10, <1>11 DEF ids

\* Parts of the window, which is changed in memory, are those of the log.
LEMMA WindowFollows ==
    ASSUME NEW n \in Nat, NEW s, NEW log, Sound(log, n), Knows(s, log),
           NEW turns, HistoryOK(turns, n), Follows(turns, log, s.order),
           NEW new, FollowedLog(s, turns, log, new)
    PROVE  LET changed == ChangedWindow(s, turns)
               e == Ending(s.order, Window)
           IN /\ Same(changed.ids, e \o Added(s, turns))
              /\ DOMAIN changed.body = ToSet(e) \cup ToSet(Added(s, turns))
              /\ changed = [ids |-> changed.ids, body |-> changed.body]
              /\ changed.body = [x \in DOMAIN changed.body |-> changed.body[x]]
              /\ \A x \in DOMAIN changed.body : x \in ToSet(new.ids) => changed.body[x] = new.body[x]
<1> DEFINE e == Ending(s.order, Window)
           added == Added(s, turns)
           f == NewBodies(s, turns)
           w == Grown(s.window, added, f)
           contents == ChangedContents(s, turns)
           results == ChangedResults(s, turns)
           changed == ChangedWindow(s, turns)
           big == GrownBy(s, turns, log)
<1>0. IsLog(log) /\ Indexes(s, log) /\ s.order \in Seq(Int) /\ Window \in Nat
  BY RecordingConstants DEF Sound, Knows, Indexes
<1>1. ToSet(s.order) \subseteq ToSet(log.ids)
  BY <1>0, OrderFacts DEF Indexes
<1>2. ToSet(e) \subseteq ToSet(log.ids)
  BY <1>0, <1>1, EndingOrder
<1> HIDE DEF e
<1>3. s.window = Chosen(log, e)
  BY DEF Knows, e
<1>4. s.window.ids = e /\ s.window.body = [x \in ToSet(e) |-> log.body[x]]
  BY <1>3 DEF Chosen
<1>5. WithNewTurns(s, turns).window = w
  BY <1>4, GrownMemory
<1>6. changed = Updated(w, contents, results)
  BY <1>5 DEF ChangedWindow
<1> DEFINE S == ToSet(e) \cup ToSet(added)
           body == [x \in S |-> IF x \in ToSet(added) THEN f[x] ELSE s.window.body[x]]
<1>7. w = [ids |-> e \o added, body |-> body]
  BY <1>4 DEF Grown
<1>8. Same(w.ids, e \o added) /\ w.body = body /\ DOMAIN w.body = S
  <2> DEFINE all == e \o added
  <2>1. w = [ids |-> all, body |-> body]
    BY <1>7
  <2> HIDE DEF all, w
  <2>2. w.ids = all /\ w.body = body
    BY <2>1
  <2> QED BY <2>2 DEF Same, all
<1> HIDE DEF w
<1>9. changed = [ids |-> w.ids, body |-> [x \in S |-> UpdatedMessage(w.body[x], x, contents, results)]]
  BY <1>6, <1>8 DEF Updated
<1> HIDE DEF changed
<1>10. /\ changed.ids = w.ids /\ DOMAIN changed.body = S
       /\ changed = [ids |-> changed.ids, body |-> changed.body]
       /\ changed.body = [x \in DOMAIN changed.body |-> changed.body[x]]
       /\ \A x \in S : changed.body[x] = UpdatedMessage(w.body[x], x, contents, results)
  BY <1>9
<1>11. \A x \in S : w.body[x] = big.body[x]
  <2>1. GrownAs(big, log, added, f) /\ ToSet(added) \cap ToSet(log.ids) = {}
    BY <1>0, NewTurns
  <2>2. ASSUME NEW x \in ToSet(added) PROVE w.body[x] = big.body[x]
    BY <1>8, <2>1 DEF GrownAs
  <2>3. ASSUME NEW x \in ToSet(e), x \notin ToSet(added) PROVE w.body[x] = big.body[x]
    <3>1. w.body[x] = log.body[x]
      BY <1>4, <1>8, <2>3
    <3> QED BY <1>2, <2>1, <3>1 DEF GrownAs
  <2> QED BY <2>2, <2>3
<1>12. \A x \in S : x \in ToSet(new.ids) => changed.body[x] = new.body[x]
  BY <1>10, <1>11 DEF FollowedLog, MessageAfter, contents, results, big
<1>13. Same(changed.ids, e \o added)
  BY <1>8, <1>10, Zenon DEF Same
<1> QED BY <1>10, <1>12, <1>13 DEF changed, e, added

\* What is chosen depends on the messages of the ids that are chosen.
LEMMA ChosenAlike ==
    ASSUME NEW a, NEW b, NEW v, \A x \in ToSet(v) : a.body[x] = b.body[x]
    PROVE  Chosen(a, v) = Chosen(b, v)
BY DEF Chosen

\* The window is made of the log that has followed the history, whether from the
\* messages in memory or, when some were evicted, from the log itself.
LEMMA FollowedWindow ==
    ASSUME NEW n \in Nat, NEW s, NEW log, Stands(s, log, n),
           NEW turns, HistoryOK(turns, n), Follows(turns, log, s.order)
    PROVE  \E w \in Seq(Int) : /\ WindowFor(s, turns) = Chosen(LogFollowing(s, turns, log), w)
                               /\ Ending(w, Window) = Ending(IdsOf(turns), Window)
<1> DEFINE new == LogFollowing(s, turns, log)
           ids == IdsOf(turns)
           added == Added(s, turns)
           e == Ending(s.order, Window)
           changed == ChangedWindow(s, turns)
           all == GrownOrder(s, turns)
<1>0. /\ Knows(s, log) /\ Indexes(s, log) /\ Sound(log, n) /\ IsLog(log)
      /\ s.order \in Seq(Int) /\ Window \in Nat
      /\ turns \in Seq(HistoryTurns) /\ Unrepeated(ids) /\ ids \in Seq(Int)
  BY RecordingConstants, TurnsIds DEF Stands, Knows, Sound, Indexes, HistoryOK
<1>1. Safe(WrittenFor(s, turns).appended, new, n) /\ FollowedLog(s, turns, log, new)
  BY WrittenSafely
<1>2. /\ IsLog(new) /\ ToSet(ids) \subseteq ToSet(new.ids)
  BY <1>1 DEF FollowedLog, Leaves
<1>3. /\ Same(changed.ids, e \o added)
      /\ DOMAIN changed.body = ToSet(e) \cup ToSet(added)
      /\ changed = [ids |-> changed.ids, body |-> changed.body]
      /\ changed.body = [x \in DOMAIN changed.body |-> changed.body[x]]
      /\ \A x \in DOMAIN changed.body : x \in ToSet(new.ids) => changed.body[x] = new.body[x]
  <2> HIDE DEF new
  <2>1. Sound(log, n) /\ Knows(s, log) /\ FollowedLog(s, turns, log, new)
    BY <1>0, <1>1
  <2> QED BY <2>1, WindowFollows
<1>4. /\ all \in Seq(Int) /\ Unrepeated(all)
      /\ ToSet(all) = ToSet(s.order) \cup ToSet(ids)
  <2>1. /\ GrownOrder(s, turns) \in Seq(Int) /\ Unrepeated(GrownOrder(s, turns))
        /\ ToSet(GrownOrder(s, turns)) = ToSet(s.order) \cup ToSet(IdsOf(turns))
        /\ Only(GrownBy(s, turns, log).ids, ToSet(GrownOrder(s, turns))) = GrownOrder(s, turns)
    <3>1. Sound(log, n) /\ Indexes(s, log)
      BY <1>0
    <3> HIDE <1>0
    <3> QED BY <3>1, GrownFacts
  <2> QED BY <2>1
<1>5. added \in Seq(Int) /\ ToSet(added) = ToSet(ids) \ ToSet(s.order)
  BY <1>0, AddedFacts
<1>6. e \in Seq(Int) /\ ToSet(e) \subseteq ToSet(s.order)
  BY <1>0, EndingOrder
<1> HIDE DEF ids, added, new, changed
<1>7. CASE ~Reconciled(s, turns)
  <2>1. Gone(s, turns) = << >> /\ Only(all, ToSet(ids)) = ids
    BY <1>7 DEF Reconciled, OrderChanged, ids
  <2>2. ToSet(s.order) \subseteq ToSet(ids)
    <3>1. ToSet(Gone(s, turns)) = ToSet(s.order) \ ToSet(ids)
      BY <1>0, GoneFacts DEF ids
    <3>2. ToSet(Gone(s, turns)) = {}
      BY <2>1, NoElement
    <3> QED BY <3>1, <3>2
  <2>3. all = ids
    <3>1. ToSet(all) \subseteq ToSet(ids)
      BY <1>4, <2>2
    <3> HIDE DEF all
    <3> QED BY <1>4, <2>1, <3>1, OnlyAll
  <2> DEFINE w == e \o added
  <2>4. w \in Seq(Int) /\ ToSet(w) = ToSet(e) \cup ToSet(added)
    <3> HIDE DEF e
    <3> QED BY <1>5, <1>6, ConcatOrder
  <2>5. Ending(w, Window) = Ending(ids, Window)
    <3>1. Ending(w, Window) = Ending(s.order \o added, Window)
      BY <1>0, <1>5, EndingConcat
    <3>2. s.order \o added = ids
      BY <2>3, Zenon DEF GrownOrder, added
    <3> QED BY <3>1, <3>2, Zenon
  <2>6. WindowFor(s, turns) = changed
    BY <1>7, Zenon DEF WindowFor, changed
  <2>7. changed.ids = w
    BY <1>3, Zenon DEF Same
  <2> HIDE DEF w, e
  <2>8. changed = Chosen(changed, w)
    <3>1. changed.body = [x \in ToSet(w) |-> changed.body[x]]
      BY <1>3, <2>4, Zenon
    <3>2. Chosen(changed, w) = [ids |-> w, body |-> changed.body]
      BY <3>1, Zenon DEF Chosen
    <3> QED BY <1>3, <2>7, <3>2, Zenon
  <2>9. \A x \in ToSet(w) : changed.body[x] = new.body[x]
    BY <1>2, <1>3, <1>5, <1>6, <2>2, <2>4
  <2>10. changed = Chosen(new, w)
    BY <2>8, <2>9, ChosenAlike
  <2> QED BY <2>4, <2>5, <2>6, <2>10 DEF new, ids
<1>8. CASE Reconciled(s, turns) /\ s.evicted
  <2>1. SourceFor(s, turns) = new
    <3>1. Written(disk, WrittenFor(s, turns).appended) = [log |-> new, torn |-> FALSE]
      BY <1>1 DEF Safe
    <3>2. SourceFor(s, turns) = Written(disk, WrittenFor(s, turns).appended).log
      BY <1>8, Zenon DEF SourceFor, LogAfter
    <3> QED BY <3>1, <3>2
  <2>2. Only(ids, DOMAIN new.body) = ids
    BY <1>0, <1>2, LogDomain, OnlyAll DEF ids
  <2>3. WindowFor(s, turns) = Chosen(new, Only(ids, DOMAIN new.body))
    BY <1>8, <2>1, Zenon DEF WindowFor, ids
  <2> QED BY <1>0, <2>2, <2>3, Zenon DEF ids, new
<1>9. CASE Reconciled(s, turns) /\ ~s.evicted
  <2>1. e = s.order
    <3>1. Len(s.order) <= Window
      <4>1. ~(Len(s.order) > Window)
        BY <1>0, <1>9, Zenon DEF Knows
      <4>2. Len(s.order) \in Nat
        BY <1>0
      <4> QED BY <1>0, <4>1, <4>2
    <3> QED BY <1>0, <3>1, EndingOfAll
  <2>2. DOMAIN changed.body = ToSet(s.order) \cup ToSet(added)
    BY <1>3, <2>1
  <2>3. ToSet(ids) \subseteq DOMAIN changed.body
    BY <1>5, <2>2
  <2>4. Chosen(changed, ids) = Chosen(new, ids)
    BY <1>2, <1>3, <2>3, ChosenAlike
  <2>5. SourceFor(s, turns) = changed
    BY <1>9, Zenon DEF SourceFor, changed
  <2>6. WindowFor(s, turns) = Chosen(changed, ids)
    <3>1. CASE OrderChanged(s, turns)
      <4>1. WindowFor(s, turns) = Chosen(changed, Only(ids, DOMAIN changed.body))
        BY <1>9, <2>5, <3>1, Zenon DEF WindowFor, ids
      <4>2. Only(ids, DOMAIN changed.body) = ids
        BY <1>0, <2>3, OnlyAll DEF ids
      <4> QED BY <4>1, <4>2
    <3>2. CASE ~OrderChanged(s, turns)
      <4>1. WindowFor(s, turns) = Chosen(changed, Only(changed.ids, ToSet(ids)))
        BY <1>9, <2>5, <3>2, Zenon DEF WindowFor, ids
      <4>2. changed.ids = all
        BY <1>3, <2>1, Zenon DEF Same, GrownOrder, added
      <4>3. Only(all, ToSet(ids)) = ids
        BY <3>2, Zenon DEF OrderChanged, ids
      <4> QED BY <4>1, <4>2, <4>3, Zenon
    <3> QED BY <3>1, <3>2
  <2> QED BY <1>0, <2>4, <2>6 DEF ids, new
<1> QED BY <1>7, <1>8, <1>9

\* updateMessagesFromHistory: the memory knows the log that has followed the
\* history, its index has the ids of the turns, and it writes safely.
LEMMA FollowingStands ==
    ASSUME NEW n \in Nat, NEW s, NEW log, Stands(s, log, n),
           NEW turns, HistoryOK(turns, n), Follows(turns, log, s.order)
    PROVE  /\ Stands(FollowingHistory(s, turns), LogFollowing(s, turns, log), n)
           /\ FollowingHistory(s, turns).order = IdsOf(turns)
           /\ FollowedLog(s, turns, log, LogFollowing(s, turns, log))
<1> DEFINE new == LogFollowing(s, turns, log)
           ids == IdsOf(turns)
           f == FollowedMemory(s, turns)
           t == Trimmed(f)
           h == FollowingHistory(s, turns)
           set == [op |-> "set"]
<1>0. /\ Indexes(s, log) /\ Sound(log, n) /\ ids \in Seq(Int)
  BY TurnsIds DEF Stands, Knows, HistoryOK
<1>1. Safe(WrittenFor(s, turns).appended, new, n) /\ Sound(new, n) /\ FollowedLog(s, turns, log, new)
  BY WrittenSafely
<1> HIDE DEF new
<1>2. IsLog(new) /\ Only(new.ids, ToSet(ids)) = ids
  BY <1>1 DEF FollowedLog, Leaves
<1>3. PICK w \in Seq(Int) : WindowFor(s, turns) = Chosen(new, w)
                            /\ Ending(w, Window) = Ending(ids, Window)
  BY FollowedWindow DEF new
<1>4. PrintsFor(s, turns) = [x \in ToSet(ids) |-> new.body[x].content]
  BY <1>0, <1>1, FollowedPrints
<1>5. /\ DOMAIN ResultsFor(s, turns) = ToolsIn(new, ids)
      /\ \A c \in DOMAIN ResultsFor(s, turns) :
            LET r == ResultsFor(s, turns)[c]
            IN /\ r = [message |-> r.message, print |-> r.print]
               /\ r.message \in ToSet(ids)
               /\ new.body[r.message].tool = c /\ new.body[r.message].result = r.print
  BY <1>0, <1>1, FollowedResults
<1>6. /\ f.window = WindowFor(s, turns) /\ f.order = ids /\ f.prints = PrintsFor(s, turns)
      /\ f.results = ResultsFor(s, turns) /\ f.appended = WrittenFor(s, turns).appended
      /\ IsMemory(f)
  BY DEF FollowedMemory, IsMemory
<1> HIDE DEF f
<1>7. \A x \in ToSet(new.ids) \ ToSet(ids) : new.body[x].type = "info"
  BY <1>0, <1>1, FollowedMessages
<1>8. Indexes(f, new)
  BY <1>0, <1>2, <1>4, <1>5, <1>6, <1>7 DEF Indexes, KnowsResult
<1>9. /\ Knows(t, new) /\ t.order = ids /\ t.appended = WrittenFor(s, turns).appended
  BY <1>2, <1>3, <1>6, <1>8, TrimmedKnows
<1> HIDE DEF t
<1>10. CASE ~AnyChange(s, turns)
  <2>1. h = t
    BY <1>10, FollowingIs DEF t, f
  <2> QED BY <1>1, <1>9, <2>1 DEF Stands, new
<1>11. CASE AnyChange(s, turns)
  <2>1. h = Logged(t, set)
    BY <1>11, FollowingIs DEF t, f
  <2> HIDE DEF h
  <2>2. IsMemory(t)
    BY <1>9 DEF Knows
  <2> DEFINE records == Append(t.appended, set)
  <2>3. h = [window |-> t.window, order |-> t.order, prints |-> t.prints, results |-> t.results,
             evicted |-> t.evicted, appended |-> records]
    <3> HIDE DEF records, set
    <3>1. h = [t EXCEPT !.appended = records]
      BY <2>1, Zenon DEF Logged, records
    <3> QED BY <2>2, <3>1 DEF IsMemory
  <2>4. Safe(records, new, n)
    <3>1. Replayed(new, set) = new
      BY DEF Replayed
    <3>2. Safe(Append(t.appended, set), Replayed(new, set), n)
      BY <1>1, <1>9, <3>1, SafeAppend
    <3> QED BY <3>1, <3>2
  <2> HIDE DEF records
  <2>5. /\ h.window = t.window /\ h.order = t.order /\ h.prints = t.prints /\ h.results = t.results
        /\ h.evicted = t.evicted /\ h.appended = records /\ IsMemory(h)
    BY <2>3 DEF IsMemory
  <2>6. Knows(h, new)
    BY <1>9, <2>5 DEF Knows, Indexes, KnowsResult
  <2> QED BY <1>1, <1>9, <2>4, <2>5, <2>6 DEF Stands, new, h
<1> QED BY <1>10, <1>11

-----------------------------------------------------------------------------
(* The memory that is rebuilt from messages of the log                     *)

\* The messages are those of the log, without some notices.
FoundIn(messages, log) ==
    /\ IsLog(messages)
    /\ Only(log.ids, ToSet(messages.ids)) = messages.ids
    /\ \A x \in ToSet(messages.ids) : log.body[x] = messages.body[x]
    /\ \A x \in ToSet(log.ids) \ ToSet(messages.ids) : log.body[x].type = "info"

\* Messages that are found in a log are chosen of it.
LEMMA ChosenFound ==
    ASSUME NEW messages, NEW log, FoundIn(messages, log)
    PROVE  messages = Chosen(log, messages.ids)
<1>1. messages = [ids |-> messages.ids, body |-> messages.body]
  BY DEF FoundIn, IsLog
<1>2. messages.body = [x \in ToSet(messages.ids) |-> messages.body[x]]
  BY DEF FoundIn, IsLog
<1>3. [x \in ToSet(messages.ids) |-> messages.body[x]] = [x \in ToSet(messages.ids) |-> log.body[x]]
  BY DEF FoundIn
<1>4. messages.body = [x \in ToSet(messages.ids) |-> log.body[x]]
  BY <1>2, <1>3, Zenon
<1>5. Chosen(log, messages.ids) = [ids |-> messages.ids, body |-> messages.body]
  BY <1>4, Zenon DEF Chosen
<1> QED BY <1>1, <1>5, Zenon

\* The results of calls in Rebuilt, by name
RebuiltResults(messages) ==
    LET ids == messages.ids
        toolAt(i) == messages.body[ids[i]].tool
        lastWith(c) == CHOOSE i \in DOMAIN ids :
                          toolAt(i) = c /\ \A j \in i + 1 .. Len(ids) : toolAt(j) # c
    IN [c \in {toolAt(i) : i \in DOMAIN ids} \ {NoCall} |->
            LET id == ids[lastWith(c)] IN ToolOf(id, messages.body[id])]

\* The results that rebuildIndexAndWindow finds are those of the messages.
LEMMA RebuiltResultsFacts ==
    ASSUME NEW messages, IsLog(messages)
    PROVE  /\ DOMAIN RebuiltResults(messages) = ToolsIn(messages, messages.ids)
           /\ \A c \in DOMAIN RebuiltResults(messages) :
                 LET r == RebuiltResults(messages)[c]
                 IN /\ r = [message |-> r.message, print |-> r.print]
                    /\ r.message \in ToSet(messages.ids)
                    /\ messages.body[r.message].tool = c
                    /\ messages.body[r.message].result = r.print
<1> DEFINE ids == messages.ids
           toolAt(i) == messages.body[ids[i]].tool
           lastWith(c) == CHOOSE i \in DOMAIN ids :
                             toolAt(i) = c /\ \A j \in i + 1 .. Len(ids) : toolAt(j) # c
           tools == {toolAt(i) : i \in DOMAIN ids} \ {NoCall}
           R(c) == ToolOf(ids[lastWith(c)], messages.body[ids[lastWith(c)]])
<1>0. ids \in Seq(Int) /\ DOMAIN ids = 1 .. Len(ids) /\ Len(ids) \in Nat
  BY DEF IsLog
<1>1. RebuiltResults(messages) = [c \in tools |-> R(c)]
  BY DEF RebuiltResults
<1>2. tools = ToolsIn(messages, ids)
  BY DEF ToolsIn, ToSet
<1> HIDE DEF ids
<1>3. ASSUME NEW c \in tools
      PROVE  lastWith(c) \in DOMAIN ids /\ toolAt(lastWith(c)) = c
  <2> DEFINE S == {i \in DOMAIN ids : toolAt(i) = c}
  <2>1. S \in SUBSET (1 .. Len(ids)) /\ S # {}
    BY <1>0
  <2>2. PICK m \in S : \A k \in S : k <= m
    <3> HIDE DEF S
    <3> QED BY <1>0, <2>1, GreatestOne
  <2>3. m \in DOMAIN ids /\ toolAt(m) = c
    BY <2>2
  <2>4. ASSUME NEW j \in m + 1 .. Len(ids) PROVE toolAt(j) # c
    <3>1. j \in DOMAIN ids /\ ~(j <= m)
      BY <1>0, <2>3
    <3> QED BY <2>2, <3>1
  <2> HIDE DEF toolAt
  <2> QED BY <2>3, <2>4
<1>4. ASSUME NEW c \in tools
      PROVE  /\ R(c) = [message |-> R(c).message, print |-> R(c).print]
             /\ R(c).message \in ToSet(ids)
             /\ messages.body[R(c).message].tool = c
             /\ messages.body[R(c).message].result = R(c).print
  <2> DEFINE i == lastWith(c)
  <2>1. i \in DOMAIN ids /\ toolAt(i) = c
    BY <1>3
  <2>2. R(c) = [message |-> ids[i], print |-> messages.body[ids[i]].result]
    BY DEF ToolOf
  <2> HIDE DEF i, R
  <2>3. R(c).message = ids[i] /\ R(c).print = messages.body[ids[i]].result
    BY <2>2
  <2>4. ids[i] \in ToSet(ids)
    BY <2>1 DEF ToSet
  <2> QED BY <2>1, <2>2, <2>3, <2>4
<1> HIDE DEF R, tools
<1>5. DOMAIN RebuiltResults(messages) = tools /\ \A c \in tools : RebuiltResults(messages)[c] = R(c)
  BY <1>1
<1> QED BY <1>2, <1>4, <1>5 DEF ids

\* rebuildIndexAndWindow yields a memory that knows the log the messages are of.
LEMMA RebuiltKnows ==
    ASSUME NEW s, NEW messages, NEW log, IsLog(log), FoundIn(messages, log)
    PROVE  /\ Knows(Rebuilt(s, messages), log)
           /\ Rebuilt(s, messages).order = messages.ids
           /\ Rebuilt(s, messages).appended = s.appended
<1> DEFINE ids == messages.ids
           prints == [x \in ToSet(ids) |-> messages.body[x].content]
           f == [window |-> messages, order |-> Distinct(ids), prints |-> prints,
                 results |-> RebuiltResults(messages), evicted |-> FALSE, appended |-> s.appended]
<1>0. /\ IsLog(messages) /\ ids \in Seq(Int) /\ Unrepeated(ids)
      /\ Only(log.ids, ToSet(ids)) = ids
      /\ \A x \in ToSet(ids) : log.body[x] = messages.body[x]
      /\ \A x \in ToSet(log.ids) \ ToSet(ids) : log.body[x].type = "info"
  BY DEF FoundIn, IsLog
<1>1. Rebuilt(s, messages) = Trimmed(f)
  BY Zenon DEF Rebuilt, RebuiltResults
<1>2. Distinct(ids) = ids
  BY <1>0, DistinctOrder
<1>3. /\ f.window = messages /\ f.order = ids /\ f.prints = prints
      /\ f.results = RebuiltResults(messages) /\ f.appended = s.appended /\ IsMemory(f)
  <2> HIDE DEF ids, prints
  <2> QED BY <1>2 DEF IsMemory
<1> HIDE DEF f
<1>4. prints = [x \in ToSet(ids) |-> log.body[x].content]
  BY <1>0
<1> HIDE DEF prints
<1>5. ToolsIn(messages, ids) = ToolsIn(log, ids)
  BY <1>0 DEF ToolsIn
<1>6. /\ DOMAIN RebuiltResults(messages) = ToolsIn(log, ids)
      /\ \A c \in DOMAIN RebuiltResults(messages) :
            LET r == RebuiltResults(messages)[c]
            IN /\ r = [message |-> r.message, print |-> r.print]
               /\ r.message \in ToSet(ids)
               /\ log.body[r.message].tool = c /\ log.body[r.message].result = r.print
  BY <1>0, <1>5, RebuiltResultsFacts
<1> HIDE DEF ids
<1>7. Indexes(f, log)
  BY <1>0, <1>3, <1>4, <1>6 DEF Indexes, KnowsResult
<1>8. f.window = Chosen(log, ids)
  BY <1>3, ChosenFound DEF ids
<1>9. Knows(Trimmed(f), log) /\ Trimmed(f).order = f.order /\ Trimmed(f).appended = f.appended
  BY <1>0, <1>3, <1>7, <1>8, TrimmedKnows
<1> QED BY <1>1, <1>3, <1>9 DEF ids

\* A sound log is still sound without some of its notices.
LEMMA FoundSound ==
    ASSUME NEW n \in Nat, NEW messages, NEW log, Sound(log, n), FoundIn(messages, log)
    PROVE  Sound(messages, n)
<1> DEFINE ids == messages.ids
<1>0. /\ IsLog(messages) /\ ids \in Seq(Int) /\ Unrepeated(ids)
      /\ Only(log.ids, ToSet(ids)) = ids
      /\ \A x \in ToSet(ids) : log.body[x] = messages.body[x]
      /\ \A x \in ToSet(log.ids) \ ToSet(ids) : log.body[x].type = "info"
      /\ IsLog(log)
  BY DEF FoundIn, IsLog, Sound
<1>1. /\ ToSet(ids) \subseteq ToSet(log.ids)
      /\ \A x, y : Precedes(ids, x, y) <=>
                      Precedes(log.ids, x, y) /\ x \in ToSet(ids) /\ y \in ToSet(ids)
  BY <1>0, OrderFacts
<1>2. Within(ToSet(ids), n)
  BY <1>1 DEF Sound, Within
<1>3. \A x \in ToSet(ids) : GoodMessage(x, messages.body[x])
  BY <1>0, <1>1 DEF Sound
<1>4. OneMessagePerTool(messages)
  BY <1>0, <1>1 DEF Sound, OneMessagePerTool
<1>5. ASSUME NEW x \in ToSet(ids), x < 0 PROVE Echo(messages, x)
  <2>1. Echo(log, x)
    BY <1>1, <1>5 DEF Sound
  <2>2. /\ -x \in ToSet(log.ids) /\ log.body[-x].tool # NoCall
        /\ log.body[x].content[2] = log.body[-x].tool
        /\ Precedes(log.ids, -x, x)
        /\ \A y : Precedes(log.ids, -x, y) /\ Precedes(log.ids, y, x) => log.body[y].type = "info"
    BY <2>1 DEF Echo
  <2>3. -x \in ToSet(ids)
    <3> SUFFICES ASSUME -x \notin ToSet(ids) PROVE FALSE
      OBVIOUS
    <3>1. log.body[-x].type = "info" /\ GoodMessage(-x, log.body[-x])
      BY <1>0, <2>2 DEF Sound
    <3> QED BY <2>2, <3>1 DEF GoodMessage
  <2>4. ASSUME NEW y, Precedes(ids, -x, y), Precedes(ids, y, x) PROVE messages.body[y].type = "info"
    BY <1>0, <1>1, <2>2, <2>4
  <2> QED BY <1>0, <1>1, <1>5, <2>2, <2>3, <2>4 DEF Echo
<1> QED BY <1>0, <1>2, <1>3, <1>4, <1>5 DEF Sound

-----------------------------------------------------------------------------
(* The log and the memory after a rewind                                   *)

\* A sound log is still sound when it is cut at a message, and a rewind cuts it.
LEMMA CutSound ==
    ASSUME NEW n \in Nat, NEW log, Sound(log, n), NEW id \in ToSet(log.ids)
    PROVE  LET new == Chosen(log, Until(log.ids, id))
           IN /\ Sound(new, n) /\ Replayed(log, [op |-> "rewind", to |-> id]) = new
              /\ ToSet(new.ids) = {x \in ToSet(log.ids) : Precedes(log.ids, x, id)}
              /\ \A x, y : Precedes(new.ids, x, y) <=> Precedes(log.ids, x, y) /\ Precedes(log.ids, y, id)
              /\ \A x \in ToSet(new.ids) : new.body[x] = log.body[x]
<1> DEFINE v == Until(log.ids, id)
           new == Chosen(log, v)
<1>0. IsLog(log) /\ log.ids \in Seq(Int) /\ Unrepeated(log.ids) /\ DOMAIN log.body = ToSet(log.ids)
  BY DEF Sound, IsLog
<1>1. /\ v \in Seq(Int) /\ Unrepeated(v)
      /\ ToSet(v) = {x \in ToSet(log.ids) : Precedes(log.ids, x, id)}
      /\ \A x, y : Precedes(v, x, y) <=> Precedes(log.ids, x, y) /\ Precedes(log.ids, y, id)
  BY <1>0, UntilOrder
<1>2. Replayed(log, [op |-> "rewind", to |-> id]) = new
  BY <1>0 DEF Replayed
<1> HIDE DEF v
<1>3. IsLog(new) /\ new.ids = v /\ \A x \in ToSet(v) : new.body[x] = log.body[x]
  BY <1>0, <1>1, ChosenLog
<1> HIDE DEF new
<1>4. Within(ToSet(new.ids), n)
  BY <1>1, <1>3 DEF Sound, Within
<1>5. \A x \in ToSet(new.ids) : GoodMessage(x, new.body[x])
  BY <1>1, <1>3 DEF Sound
<1>6. OneMessagePerTool(new)
  BY <1>1, <1>3 DEF Sound, OneMessagePerTool
<1>7. ASSUME NEW x \in ToSet(new.ids), x < 0 PROVE Echo(new, x)
  <2>1. x \in ToSet(log.ids) /\ Precedes(log.ids, x, id)
    BY <1>1, <1>3, <1>7
  <2>2. /\ -x \in ToSet(log.ids) /\ log.body[-x].tool # NoCall
        /\ log.body[x].content[2] = log.body[-x].tool
        /\ Precedes(log.ids, -x, x)
        /\ \A y : Precedes(log.ids, -x, y) /\ Precedes(log.ids, y, x) => log.body[y].type = "info"
    BY <1>7, <2>1 DEF Sound, Echo
  <2>3. Precedes(log.ids, -x, id)
    BY <1>0, <2>1, <2>2, PrecedesIsOrder
  <2>4. -x \in ToSet(new.ids) /\ Precedes(new.ids, -x, x)
    BY <1>1, <1>3, <2>1, <2>2, <2>3
  <2>5. ASSUME NEW y, Precedes(new.ids, -x, y), Precedes(new.ids, y, x) PROVE new.body[y].type = "info"
    <3>1. Precedes(log.ids, -x, y) /\ Precedes(log.ids, y, x) /\ Precedes(log.ids, y, id)
      BY <1>1, <1>3, <2>5
    <3>2. y \in ToSet(log.ids)
      BY <1>0, <3>1, PrecedesIsOrder
    <3>3. y \in ToSet(v)
      BY <1>1, <3>1, <3>2
    <3> QED BY <1>3, <2>2, <3>1, <3>3
  <2> QED BY <1>3, <1>7, <2>2, <2>4, <2>5 DEF Echo
<1>8. Sound(new, n)
  BY <1>3, <1>4, <1>5, <1>6, <1>7 DEF Sound
<1> QED BY <1>1, <1>2, <1>3, <1>8 DEF new, v

\* The record of rewindTo, and the log after it
RewindTo(id) == [op |-> "rewind", to |-> id]
CutLog(log, id) == Chosen(log, Until(log.ids, id))

\* The messages that rewindTo keeps are those of the log it cuts.
LEMMA RewoundFound ==
    ASSUME NEW n \in Nat, NEW s, NEW log, Stands(s, log, n), NEW id \in ToSet(s.order)
    PROVE  FoundIn(RewoundMessages(s, id), CutLog(log, id))
<1> DEFINE new == CutLog(log, id)
           messages == RewoundMessages(s, id)
           order == s.order
<1>0. /\ Knows(s, log) /\ Indexes(s, log) /\ Sound(log, n) /\ IsLog(log)
      /\ order \in Seq(Int) /\ Window \in Nat /\ log.ids \in Seq(Int) /\ Unrepeated(log.ids)
      /\ DOMAIN log.body = ToSet(log.ids)
      /\ Only(log.ids, ToSet(order)) = order
  BY RecordingConstants DEF Stands, Knows, Sound, Indexes, IsLog
<1>1. /\ Unrepeated(order) /\ ToSet(order) \subseteq ToSet(log.ids)
      /\ \A x, y : Precedes(order, x, y) <=>
                      Precedes(log.ids, x, y) /\ x \in ToSet(order) /\ y \in ToSet(order)
  BY <1>0, OrderFacts
<1>2. /\ Sound(new, n)
      /\ ToSet(new.ids) = {x \in ToSet(log.ids) : Precedes(log.ids, x, id)}
      /\ \A x, y : Precedes(new.ids, x, y) <=> Precedes(log.ids, x, y) /\ Precedes(log.ids, y, id)
      /\ \A x \in ToSet(new.ids) : new.body[x] = log.body[x]
  BY <1>0, <1>1, CutSound DEF CutLog
<1>3. IsLog(new) /\ new.ids \in Seq(Int) /\ Unrepeated(new.ids)
  BY <1>2 DEF Sound, IsLog
<1>4. CASE s.evicted
  <2>1. LogAfter(s) = log
    <3>1. Written(disk, s.appended) = [log |-> log, torn |-> FALSE]
      BY DEF Stands, Safe
    <3> QED BY <3>1 DEF LogAfter
  <2>2. CASE s.order[1] = id
    <3>1. messages = NoMessages
      BY <1>4, <2>2 DEF RewoundMessages
    <3>2. /\ IsLog(NoMessages) /\ NoMessages.ids = << >> /\ ToSet(NoMessages.ids) = {}
      BY NoElement DEF NoMessages, IsLog
    <3>3. Only(new.ids, {}) = << >>
      <4>1. Only(new.ids, {}) \in Seq(Int) /\ ToSet(Only(new.ids, {})) = {}
        BY <1>3, OnlyOrder
      <4> DEFINE t == Only(new.ids, {})
      <4> HIDE DEF t
      <4>2. t \in Seq(Int) /\ \A i \in DOMAIN t : t[i] \in ToSet(t)
        BY <4>1 DEF ToSet, t
      <4>3. DOMAIN t = {}
        BY <4>1, <4>2 DEF t
      <4>4. t = << >>
        BY <4>2, <4>3
      <4> QED BY <4>4 DEF t
    <3>4. ASSUME NEW x \in ToSet(new.ids) PROVE new.body[x].type = "info"
      <4>1. x \in ToSet(log.ids) /\ Precedes(log.ids, x, id)
        BY <1>2
      <4>2. x \notin ToSet(order)
        <5> SUFFICES ASSUME x \in ToSet(order) PROVE FALSE
          OBVIOUS
        <5>1. Precedes(order, x, id)
          BY <1>1, <4>1
        <5>2. PICK i, j \in DOMAIN order : i < j /\ order[i] = x /\ order[j] = id
          BY <5>1 DEF Precedes
        <5>3. 1 \in DOMAIN order /\ i >= 1
          BY <1>0, <5>2
        <5>4. j = 1
          BY <1>1, <2>2, <5>2, <5>3 DEF Unrepeated
        <5> QED BY <1>0, <5>2, <5>3, <5>4
      <4> QED BY <1>0, <1>2, <4>1, <4>2 DEF Indexes
    <3> QED BY <3>1, <3>2, <3>3, <3>4 DEF FoundIn
  <2>3. CASE s.order[1] # id
    <3>1. messages = new
      BY <1>0, <1>1, <1>4, <2>1, <2>3 DEF RewoundMessages, CutLog
    <3>2. Only(new.ids, ToSet(new.ids)) = new.ids
      BY <1>3, OnlyAll
    <3> QED BY <1>3, <3>1, <3>2 DEF FoundIn
  <2> QED BY <2>2, <2>3
<1>5. CASE ~s.evicted
  <2> DEFINE v == Until(order, id)
  <2>1. s.window = Chosen(log, order)
    <3>1. ~(Len(order) > Window)
      BY <1>0, <1>5, Zenon DEF Knows
    <3>2. Len(order) \in Nat
      BY <1>0
    <3>3. Len(order) <= Window
      BY <1>0, <3>1, <3>2
    <3>4. Ending(order, Window) = order
      BY <1>0, <3>3, EndingOfAll
    <3> QED BY <1>0, <3>4 DEF Knows
  <2>2. s.window.ids = order /\ DOMAIN s.window.body = ToSet(order)
    BY <2>1 DEF Chosen
  <2>3. messages = Chosen(s.window, v)
    BY <1>5, <2>2 DEF RewoundMessages
  <2>4. /\ v \in Seq(Int) /\ Unrepeated(v)
        /\ ToSet(v) = {x \in ToSet(order) : Precedes(order, x, id)}
        /\ \A x, y : Precedes(v, x, y) <=> Precedes(order, x, y) /\ Precedes(order, y, id)
    BY <1>0, <1>1, UntilOrder
  <2> HIDE DEF v
  <2>5. messages = Chosen(log, v)
    <3>1. ToSet(v) \subseteq ToSet(order)
      BY <2>4
    <3> QED BY <2>1, <2>3, <3>1, ChosenChosen
  <2>6. /\ IsLog(messages) /\ messages.ids = v
        /\ \A x \in ToSet(v) : messages.body[x] = log.body[x]
    <3>1. ToSet(v) \subseteq ToSet(log.ids)
      BY <1>1, <2>4
    <3> QED BY <1>0, <2>4, <2>5, <3>1, ChosenLog
  <2>7. ToSet(v) \subseteq ToSet(new.ids)
    BY <1>1, <1>2, <2>4
  <2>8. Only(new.ids, ToSet(v)) = v
    <3>1. \A x, y : Precedes(v, x, y) => Precedes(new.ids, x, y)
      BY <1>1, <1>2, <2>4
    <3> QED BY <1>3, <2>4, <2>7, <3>1, OnlyIs
  <2>9. ASSUME NEW x \in ToSet(new.ids), x \notin ToSet(v) PROVE new.body[x].type = "info"
    <3>1. x \in ToSet(log.ids) /\ Precedes(log.ids, x, id)
      BY <1>2
    <3>2. x \notin ToSet(order)
      BY <1>1, <2>4, <2>9, <3>1
    <3> QED BY <1>0, <1>2, <3>1, <3>2 DEF Indexes
  <2> QED BY <1>2, <2>6, <2>7, <2>8, <2>9 DEF FoundIn
<1> QED BY <1>4, <1>5

\* rewindTo: the memory knows the log it has cut.
LEMMA RewoundStands ==
    ASSUME NEW n \in Nat, NEW s, NEW log, Stands(s, log, n), NEW id \in ToSet(s.order)
    PROVE  /\ Stands(Rewound(s, id), CutLog(log, id), n)
           /\ Rewound(s, id).order = RewoundMessages(s, id).ids
<1> DEFINE new == CutLog(log, id)
           messages == RewoundMessages(s, id)
           more == Logged(s, RewindTo(id))
           records == Append(s.appended, RewindTo(id))
<1>0. /\ Knows(s, log) /\ IsMemory(s) /\ Sound(log, n) /\ IsLog(log) /\ Safe(s.appended, log, n)
      /\ id \in ToSet(log.ids)
  <2>1. /\ Knows(s, log) /\ IsMemory(s) /\ Sound(log, n) /\ IsLog(log) /\ Safe(s.appended, log, n)
        /\ Indexes(s, log)
    BY DEF Stands, Knows, Sound
  <2> QED BY <2>1, OrderFacts DEF Indexes
<1>1. Sound(new, n) /\ Replayed(log, RewindTo(id)) = new
  BY <1>0, CutSound DEF CutLog, RewindTo
<1>2. FoundIn(messages, new)
  BY RewoundFound
<1>3. more.appended = records
  <2> HIDE DEF records
  <2>1. more = [s EXCEPT !.appended = records]
    BY Zenon DEF Logged, records
  <2> QED BY <1>0, <2>1 DEF IsMemory
<1>4. Rewound(s, id) = Rebuilt(more, messages)
  BY Zenon DEF Rewound, RewindTo
<1> HIDE DEF more, messages, new
<1>5. Safe(records, new, n)
  <2>1. Safe(Append(s.appended, RewindTo(id)), Replayed(log, RewindTo(id)), n)
    BY <1>0, <1>1, SafeAppend
  <2> QED BY <1>1, <2>1, Zenon
<1> HIDE DEF records
<1>6. /\ Knows(Rebuilt(more, messages), new) /\ Rebuilt(more, messages).order = messages.ids
      /\ Rebuilt(more, messages).appended = more.appended
  <2>1. IsLog(new)
    BY <1>1 DEF Sound
  <2> QED BY <1>2, <2>1, RebuiltKnows
<1> QED BY <1>1, <1>3, <1>4, <1>5, <1>6 DEF Stands, new, messages

\* initialize with a session to resume: the memory knows the log it has read.
LEMMA ReopenedStands ==
    ASSUME NEW n \in Nat, NEW s, s.appended = << >>, IsMemory(s), Sound(disk.log, n),
           FoundIn(loaded, disk.log)
    PROVE  /\ Stands(Reopened(s), disk.log, n)
           /\ Reopened(s).order = loaded.ids
<1> DEFINE log == disk.log
           set == [op |-> "set"]
           b == Rebuilt(s, loaded)
           r == Reopened(s)
<1>0. IsLog(log)
  BY DEF Sound
<1>1. Knows(b, log) /\ b.order = loaded.ids /\ b.appended = << >> /\ IsMemory(b)
  BY <1>0, RebuiltKnows DEF Knows
<1>2. r = Logged(b, set)
  BY Zenon DEF Reopened
<1> HIDE DEF b, r
<1>3. r = [window |-> b.window, order |-> b.order, prints |-> b.prints, results |-> b.results,
           evicted |-> b.evicted, appended |-> <<set>>]
  <2>1. Append(b.appended, set) = <<set>>
    BY <1>1
  <2> DEFINE records == <<set>>
  <2>2. r = [b EXCEPT !.appended = records]
    BY <1>2, <2>1, Zenon DEF Logged
  <2> HIDE DEF records
  <2>3. r = [window |-> b.window, order |-> b.order, prints |-> b.prints, results |-> b.results,
             evicted |-> b.evicted, appended |-> records]
    BY <1>1, <2>2 DEF IsMemory
  <2> QED BY <2>3 DEF records
<1>4. /\ r.window = b.window /\ r.order = b.order /\ r.prints = b.prints /\ r.results = b.results
      /\ r.evicted = b.evicted /\ r.appended = <<set>> /\ IsMemory(r)
  BY <1>3 DEF IsMemory
<1>5. Knows(r, log)
  BY <1>1, <1>4, SMTT(30) DEF Knows, Indexes, KnowsResult
<1>6. Safe(<<set>>, log, n)
  <2> DEFINE records == <<set>>
  <2>1. /\ records \in Seq({set}) /\ Len(records) = 1 /\ records = Append(<< >>, set)
    OBVIOUS
  <2>1a. << >> \in Seq({set})
    OBVIOUS
  <2>2. records \in Seq(ToSet(records))
    BY <2>1, SeqOfOwn
  <2>3. Written(disk, records) = AppendRecord(disk, set)
    <3>1. Written(disk, Append(<< >>, set)) = AppendRecord(Written(disk, << >>), set)
      BY <2>1a, WrittenAppend
    <3>2. Written(disk, << >>) = disk
      BY WrittenNothing
    <3> HIDE DEF records
    <3> QED BY <2>1, <3>1, <3>2, Zenon
  <2>4. AppendRecord(disk, set) = [log |-> log, torn |-> FALSE]
    BY DEF AppendRecord, Replayed
  <2>5. SubSeq(records, 1, 0) = << >> /\ SubSeq(records, 1, 1) = records
    <3>1. SubSeq(records, 1, 0) = << >>
      BY <2>1, NoPrefix
    <3>2. SubSeq(records, 1, Len(records)) = records
      BY <2>1, WholePrefix
    <3> QED BY <2>1, <3>1, <3>2
  <2> HIDE DEF records
  <2>6. ASSUME NEW k \in 0 .. Len(records) PROVE Sound(Written(disk, SubSeq(records, 1, k)).log, n)
    <3>1. k = 0 \/ k = 1
      BY <2>1
    <3>2. CASE k = 0
      <4>1. Written(disk, SubSeq(records, 1, k)) = disk
        BY <2>5, <3>2, WrittenNothing, Zenon
      <4> QED BY <4>1
    <3>3. CASE k = 1
      <4>1. Written(disk, SubSeq(records, 1, k)) = [log |-> log, torn |-> FALSE]
        BY <2>3, <2>4, <2>5, <3>3, Zenon
      <4> QED BY <4>1
    <3> QED BY <3>1, <3>2, <3>3
  <2>7. Safe(records, log, n)
    BY <2>2, <2>3, <2>4, <2>6 DEF Safe
  <2> QED BY <2>7 DEF records
<1> QED BY <1>1, <1>4, <1>5, <1>6 DEF Stands, r

-----------------------------------------------------------------------------
(* The history that is made of the messages of a log                       *)

\* The parts of ConvertedToHistory, by name
OfPlace(k) == (k + 1) \div 2
PlacesOf(messages) == 1 .. 2 * Len(messages.ids)
TurnAt(messages, k) ==
    LET m == messages.body[messages.ids[OfPlace(k)]]
    IN IF k = 2 * OfPlace(k) THEN HistoryTurn(-messages.ids[OfPlace(k)], m.result)
       ELSE HistoryTurn(messages.ids[OfPlace(k)],
                        IF m.type = "gemini" THEN ModelContent(m) ELSE m.content)
IsTurnAt(messages, k) ==
    LET m == messages.body[messages.ids[OfPlace(k)]]
    IN /\ BecomesTurn(m)
       /\ k = 2 * OfPlace(k) => m.tool # NoCall /\ ~AnsweredIn(messages, OfPlace(k))
TurnPlaces(messages) == {k \in PlacesOf(messages) : IsTurnAt(messages, k)}

\* convertSessionToClientHistory, put together of the parts that are named above
LEMMA ConvertedIs ==
    ASSUME NEW messages
    PROVE  ConvertedToHistory(messages) =
              Selected([k \in PlacesOf(messages) |-> TurnAt(messages, k)], TurnPlaces(messages))
BY Zenon DEF ConvertedToHistory, PlacesOf, TurnAt, IsTurnAt, TurnPlaces, OfPlace

\* The place of a message from the place of its turn
LEMMA PlaceFacts ==
    ASSUME NEW l \in Nat, NEW k \in 1 .. 2 * l
    PROVE  /\ OfPlace(k) \in 1 .. l
           /\ k = 2 * OfPlace(k) - 1 \/ k = 2 * OfPlace(k)
BY DEF OfPlace

\* The places of the two turns of a message
LEMMA PlacesOfMessage ==
    ASSUME NEW l \in Nat, NEW i \in 1 .. l
    PROVE  /\ 2 * i - 1 \in 1 .. 2 * l /\ 2 * i \in 1 .. 2 * l
           /\ OfPlace(2 * i - 1) = i /\ OfPlace(2 * i) = i
BY DEF OfPlace

\* What a message becomes: a turn under its id that calls what the message calls ...
OwnTurn(messages, i, t) ==
    LET x == messages.ids[i]
        m == messages.body[x]
    IN /\ BecomesTurn(m) /\ t.id = x /\ x # EnvId /\ t \in HistoryTurns
       /\ x < 0 => t.content = m.content /\ Answering(t.content)
       /\ m.content[1] = "call" => t.content = m.content
       /\ t.content[1] = "call" => m.tool \in {NoCall, t.content[2]}
\* ... and a response under the negated id, when its call is not answered behind it
MadeUpTurn(messages, i, t) ==
    LET x == messages.ids[i]
        m == messages.body[x]
    IN /\ BecomesTurn(m) /\ t.id = -x /\ x > 0 /\ t \in HistoryTurns
       /\ m.tool # NoCall /\ ~AnsweredIn(messages, i)
       /\ Answering(t.content) /\ t.content[2] = m.tool

\* What a message becomes: a turn of its own, and the response made up for its call
LEMMA ConvertedMessage ==
    ASSUME NEW n \in Nat, NEW messages, Sound(messages, n), NEW k \in TurnPlaces(messages)
    PROVE  LET i == OfPlace(k)
           IN /\ i \in DOMAIN messages.ids
              /\ \/ k = 2 * i - 1 /\ OwnTurn(messages, i, TurnAt(messages, k))
                 \/ k = 2 * i /\ MadeUpTurn(messages, i, TurnAt(messages, k))
<1> DEFINE ids == messages.ids
           i == OfPlace(k)
           x == ids[i]
           m == messages.body[x]
           t == TurnAt(messages, k)
<1>0. IsLog(messages) /\ ids \in Seq(Int) /\ DOMAIN ids = 1 .. Len(ids) /\ Len(ids) \in Nat
  BY DEF Sound, IsLog
<1>1. k \in 1 .. 2 * Len(ids) /\ IsTurnAt(messages, k)
  BY DEF TurnPlaces, PlacesOf
<1>2. i \in DOMAIN ids /\ (k = 2 * i - 1 \/ k = 2 * i)
  BY <1>0, <1>1, PlaceFacts
<1>3. BecomesTurn(m) /\ (k = 2 * i => m.tool # NoCall /\ ~AnsweredIn(messages, i))
  BY <1>1 DEF IsTurnAt
<1>4. t = IF k = 2 * i THEN HistoryTurn(-x, m.result)
          ELSE HistoryTurn(x, IF m.type = "gemini" THEN ModelContent(m) ELSE m.content)
  BY DEF TurnAt
<1> HIDE DEF t, i
<1>5. x \in ToSet(ids) /\ x \in Int
  BY <1>0, <1>2 DEF ToSet
<1> HIDE DEF x
<1>6. m \in MessageSet /\ GoodMessage(x, m)
  BY <1>0, <1>5, LogDomain DEF Sound
<1> HIDE DEF m
<1>7. /\ m.type \in {"user", "gemini", "info"} /\ m.content \in Contents /\ m.tool \in Int
      /\ m.result \in Contents
  BY <1>6 DEF MessageSet
<1>8. i \in Nat /\ 2 * i - 1 # 2 * i
  BY <1>0, <1>2
<1>9. CASE k = 2 * i
  <2>1. t = [id |-> -x, content |-> m.result]
    BY <1>4, <1>9 DEF HistoryTurn
  <2>2. x > 0 /\ m.tool # NoCall /\ m.result \in {Response(m.tool), Masked(m.tool)}
    BY <1>3, <1>6, <1>9 DEF GoodMessage
  <2>3. t \in HistoryTurns /\ t.id = -x /\ t.content = m.result
    BY <1>5, <1>7, <2>1 DEF HistoryTurns
  <2>4. Answering(t.content) /\ t.content[2] = m.tool
    BY <2>2, <2>3 DEF Answering, Response, Masked
  <2>5. MadeUpTurn(messages, i, t)
    BY <1>3, <1>9, <2>2, <2>3, <2>4 DEF MadeUpTurn, x, m
  <2> QED BY <1>2, <1>9, <2>5 DEF t, i
<1>10. CASE k = 2 * i - 1
  <2> DEFINE c == IF m.type = "gemini" THEN ModelContent(m) ELSE m.content
  <2>1. t = [id |-> x, content |-> c]
    BY <1>4, <1>8, <1>10 DEF HistoryTurn
  <2>2. c \in Contents
    BY <1>7 DEF ModelContent, Calling, Contents, Kinds
  <2>3. m.content[1] = "call" => c = m.content
    BY DEF ModelContent
  <2>4. c[1] = "call" => m.tool \in {NoCall, c[2]}
    <3>1. CASE m.type = "gemini"
      <4>1. CASE m.content[1] = "call"
        BY <1>6, <2>3, <3>1, <4>1 DEF GoodMessage
      <4>2. CASE m.content[1] # "call" /\ m.tool # NoCall
        BY <3>1, <4>2 DEF ModelContent, Calling
      <4>3. CASE m.tool = NoCall
        BY <4>3
      <4> QED BY <4>1, <4>2, <4>3
    <3>2. CASE m.type # "gemini"
      BY <1>6, <3>2 DEF GoodMessage
    <3> QED BY <3>1, <3>2
  <2>5. x < 0 => c = m.content /\ Answering(c)
    BY <1>6 DEF GoodMessage
  <2>6. x # EnvId
    BY <1>3, <1>6 DEF GoodMessage, BecomesTurn
  <2> HIDE DEF c
  <2>7. t \in HistoryTurns /\ t.id = x /\ t.content = c
    BY <1>5, <2>1, <2>2 DEF HistoryTurns
  <2>8. OwnTurn(messages, i, t)
    BY <1>3, <2>3, <2>4, <2>5, <2>6, <2>7 DEF OwnTurn, x, m
  <2> QED BY <1>2, <1>10, <2>8 DEF t, i
<1> QED BY <1>2, <1>9, <1>10

\* A response that was made up and written to the log answers its call, so that none
\* is made up again: this fails for a log that a step left before it was patched.
LEMMA EchoAnswers ==
    ASSUME NEW n \in Nat, NEW messages, Sound(messages, n),
           NEW i \in DOMAIN messages.ids, messages.ids[i] < 0
    PROVE  \E j \in DOMAIN messages.ids :
              /\ j < i /\ messages.ids[j] = -messages.ids[i] /\ AnsweredIn(messages, j)
              /\ BecomesTurn(messages.body[messages.ids[j]])
              /\ messages.body[messages.ids[j]].tool # NoCall
              /\ messages.body[messages.ids[i]].content[2] = messages.body[messages.ids[j]].tool
              /\ \A l \in j + 1 .. i - 1 : ~BecomesTurn(messages.body[messages.ids[l]])
<1> DEFINE ids == messages.ids
           x == ids[i]
           body(k) == messages.body[ids[k]]
<1>0. IsLog(messages) /\ ids \in Seq(Int) /\ DOMAIN ids = 1 .. Len(ids) /\ Len(ids) \in Nat
      /\ Unrepeated(ids)
  BY DEF Sound, IsLog
<1>1. x \in ToSet(ids) /\ x \in Int
  BY <1>0 DEF ToSet
<1>2. /\ messages.body[-x].tool # NoCall /\ messages.body[x].content[2] = messages.body[-x].tool
      /\ Precedes(ids, -x, x)
      /\ \A y : Precedes(ids, -x, y) /\ Precedes(ids, y, x) => messages.body[y].type = "info"
      /\ -x \in ToSet(ids)
  BY <1>1 DEF Sound, Echo
<1>3. PICK j, h \in DOMAIN ids : j < h /\ ids[j] = -x /\ ids[h] = x
  BY <1>2 DEF Precedes
<1>4. h = i
  BY <1>0, <1>3 DEF Unrepeated
<1>5. j < i /\ ids[j] = -x /\ j \in Nat /\ i \in Nat
  BY <1>0, <1>3, <1>4
<1>6. ASSUME NEW l \in j + 1 .. i - 1 PROVE body(l).type = "info"
  <2>1. l \in DOMAIN ids /\ j < l /\ l < i
    BY <1>0, <1>5, SMTT(30)
  <2>2. Precedes(ids, -x, ids[l]) /\ Precedes(ids, ids[l], x)
    BY <1>3, <1>5, <2>1 DEF Precedes
  <2> QED BY <1>2, <2>2
<1>7. \A l \in j + 1 .. i - 1 : ~BecomesTurn(body(l))
  BY <1>6 DEF BecomesTurn
<1>8. GoodMessage(x, messages.body[x]) /\ GoodMessage(-x, messages.body[-x])
      /\ messages.body[-x] \in MessageSet
  BY <1>0, <1>1, <1>2, LogDomain DEF Sound
<1>9. body(j) = messages.body[-x] /\ body(i) = messages.body[x]
  BY <1>5
<1>10. BecomesTurn(body(j))
  <2>1. body(j).type = "gemini" /\ body(j).tool # NoCall
    BY <1>2, <1>8, <1>9 DEF GoodMessage
  <2>2. ModelContent(body(j)) # Empty
    BY <2>1 DEF ModelContent, Empty, Calling
  <2> QED BY <2>1, <2>2 DEF BecomesTurn
<1>11. AnsweredIn(messages, j)
  <2>1. i \in j + 1 .. Len(ids)
    BY <1>0, <1>5
  <2>2. body(i).type = "user" /\ body(i).content[2] = body(j).tool
    BY <1>2, <1>8, <1>9 DEF GoodMessage
  <2>3. \A l \in j + 1 .. i : body(l).type # "gemini"
    <3> SUFFICES ASSUME NEW l \in j + 1 .. i PROVE body(l).type # "gemini"
      OBVIOUS
    <3>1. CASE l = i
      BY <2>2, <3>1
    <3>2. CASE l # i
      <4>1. l \in j + 1 .. i - 1
        BY <1>5, <3>2
      <4> QED BY <1>6, <4>1
    <3> QED BY <3>1, <3>2
  <2> QED BY <2>1, <2>2, <2>3 DEF AnsweredIn
<1> QED BY <1>2, <1>3, <1>5, <1>7, <1>9, <1>10, <1>11

\* No two turns of the converted history have the same id.
LEMMA ConvertedApart ==
    ASSUME NEW n \in Nat, NEW messages, Sound(messages, n),
           NEW k \in TurnPlaces(messages), NEW l \in TurnPlaces(messages),
           TurnAt(messages, k).id = TurnAt(messages, l).id
    PROVE  k = l
<1> DEFINE ids == messages.ids
           i == OfPlace(k)
           j == OfPlace(l)
<1>0. IsLog(messages) /\ ids \in Seq(Int) /\ DOMAIN ids = 1 .. Len(ids) /\ Len(ids) \in Nat
      /\ Unrepeated(ids)
  BY DEF Sound, IsLog
<1>1. ASSUME NEW a \in DOMAIN ids, NEW b \in DOMAIN ids, NEW t, NEW u,
             OwnTurn(messages, a, t), MadeUpTurn(messages, b, u), t.id = u.id
      PROVE  FALSE
  <2>1. ids[a] = -ids[b] /\ ids[b] > 0 /\ ids[a] \in Int /\ ids[b] \in Int
    BY <1>0, <1>1 DEF OwnTurn, MadeUpTurn
  <2>2. ids[a] < 0
    BY <2>1
  <2>3. PICK d \in DOMAIN ids : ids[d] = -ids[a] /\ AnsweredIn(messages, d)
    BY <2>2, EchoAnswers
  <2>4. d = b
    BY <1>0, <2>1, <2>3 DEF Unrepeated
  <2> QED BY <1>1, <2>3, <2>4 DEF MadeUpTurn
<1>2. /\ i \in DOMAIN ids
      /\ \/ k = 2 * i - 1 /\ OwnTurn(messages, i, TurnAt(messages, k))
         \/ k = 2 * i /\ MadeUpTurn(messages, i, TurnAt(messages, k))
  BY ConvertedMessage
<1>3. /\ j \in DOMAIN ids
      /\ \/ l = 2 * j - 1 /\ OwnTurn(messages, j, TurnAt(messages, l))
         \/ l = 2 * j /\ MadeUpTurn(messages, j, TurnAt(messages, l))
  BY ConvertedMessage
<1> HIDE DEF i, j
<1>4. CASE /\ OwnTurn(messages, i, TurnAt(messages, k)) /\ k = 2 * i - 1
           /\ OwnTurn(messages, j, TurnAt(messages, l)) /\ l = 2 * j - 1
  <2>1. ids[i] = ids[j]
    BY <1>4 DEF OwnTurn
  <2>2. i = j
    BY <1>0, <1>2, <1>3, <2>1 DEF Unrepeated
  <2> QED BY <1>4, <2>2
<1>5. CASE /\ MadeUpTurn(messages, i, TurnAt(messages, k)) /\ k = 2 * i
           /\ MadeUpTurn(messages, j, TurnAt(messages, l)) /\ l = 2 * j
  <2>1. -ids[i] = -ids[j] /\ ids[i] \in Int /\ ids[j] \in Int
    BY <1>0, <1>2, <1>3, <1>5, SMTT(30) DEF MadeUpTurn
  <2>1a. ids[i] = ids[j]
    BY <2>1
  <2>2. i = j
    BY <1>0, <1>2, <1>3, <2>1a DEF Unrepeated
  <2> QED BY <1>5, <2>2
<1>6. CASE OwnTurn(messages, i, TurnAt(messages, k)) /\ MadeUpTurn(messages, j, TurnAt(messages, l))
  BY <1>1, <1>2, <1>3, <1>6
<1>7. CASE MadeUpTurn(messages, i, TurnAt(messages, k)) /\ OwnTurn(messages, j, TurnAt(messages, l))
  BY <1>1, <1>2, <1>3, <1>7
<1> QED BY <1>2, <1>3, <1>4, <1>5, <1>6, <1>7

\* A response with the id of a call stands right behind the turn of the call.
LEMMA ConvertedBefore ==
    ASSUME NEW n \in Nat, NEW messages, Sound(messages, n),
           NEW k \in TurnPlaces(messages), TurnAt(messages, k).id < 0
    PROVE  \E p \in TurnPlaces(messages) :
              /\ p < k /\ TurnAt(messages, p).id = -TurnAt(messages, k).id
              /\ \A l \in TurnPlaces(messages) : ~(p < l /\ l < k)
              /\ Answering(TurnAt(messages, k).content)
              /\ -TurnAt(messages, k).id \in ToSet(messages.ids)
              /\ messages.body[-TurnAt(messages, k).id].tool # NoCall
              /\ TurnAt(messages, k).content[2] = messages.body[-TurnAt(messages, k).id].tool
<1> DEFINE ids == messages.ids
           i == OfPlace(k)
           t == TurnAt(messages, k)
<1>0. IsLog(messages) /\ ids \in Seq(Int) /\ DOMAIN ids = 1 .. Len(ids) /\ Len(ids) \in Nat
      /\ Unrepeated(ids)
  BY DEF Sound, IsLog
<1>1. /\ i \in DOMAIN ids
      /\ \/ k = 2 * i - 1 /\ OwnTurn(messages, i, t)
         \/ k = 2 * i /\ MadeUpTurn(messages, i, t)
  BY ConvertedMessage
<1>2. ASSUME NEW j \in DOMAIN ids, BecomesTurn(messages.body[ids[j]])
      PROVE  /\ 2 * j - 1 \in TurnPlaces(messages)
             /\ TurnAt(messages, 2 * j - 1).id = ids[j]
  <2>0. j \in 1 .. Len(ids)
    BY <1>0
  <2>a. 2 * j - 1 \in 1 .. 2 * Len(ids) /\ OfPlace(2 * j - 1) = j
    BY <1>0, <2>0, PlacesOfMessage
  <2>1. 2 * j - 1 \in PlacesOf(messages) /\ OfPlace(2 * j - 1) = j /\ 2 * j - 1 # 2 * j
    BY <1>0, <2>0, <2>a DEF PlacesOf
  <2>2. IsTurnAt(messages, 2 * j - 1)
    BY <1>2, <2>1 DEF IsTurnAt
  <2> QED BY <2>1, <2>2 DEF TurnPlaces, TurnAt, HistoryTurn
<1>3. ASSUME NEW l \in TurnPlaces(messages)
      PROVE  /\ OfPlace(l) \in DOMAIN ids /\ BecomesTurn(messages.body[ids[OfPlace(l)]])
             /\ l = 2 * OfPlace(l) - 1 \/ (l = 2 * OfPlace(l) /\ ~AnsweredIn(messages, OfPlace(l)))
  BY ConvertedMessage DEF OwnTurn, MadeUpTurn
<1> HIDE DEF i, t
<1>4. CASE k = 2 * i /\ MadeUpTurn(messages, i, t)
  <2> DEFINE p == 2 * i - 1
  <2>1. /\ t.id = -ids[i] /\ BecomesTurn(messages.body[ids[i]]) /\ Answering(t.content)
        /\ messages.body[ids[i]].tool # NoCall /\ t.content[2] = messages.body[ids[i]].tool
    BY <1>4 DEF MadeUpTurn
  <2>2. p \in TurnPlaces(messages) /\ TurnAt(messages, p).id = ids[i]
    BY <1>1, <1>2, <2>1
  <2>3. ids[i] \in Int /\ ids[i] \in ToSet(ids)
    BY <1>0, <1>1 DEF ToSet
  <2>4. -t.id = ids[i]
    BY <2>1, <2>3
  <2>5. p < k
    BY <1>0, <1>1, <1>4
  <2>6. ASSUME NEW l \in TurnPlaces(messages), p < l, l < k PROVE FALSE
    <3>1. l \in Int /\ i \in Int
      BY <1>0, <1>1 DEF TurnPlaces, PlacesOf
    <3> QED BY <1>4, <2>6, <3>1
  <2> HIDE DEF p
  <2> QED BY <2>1, <2>2, <2>3, <2>4, <2>5, <2>6 DEF t
<1>5. CASE k = 2 * i - 1 /\ OwnTurn(messages, i, t)
  <2>1. t.id = ids[i] /\ ids[i] < 0 /\ t.content = messages.body[ids[i]].content /\ Answering(t.content)
    BY <1>5 DEF OwnTurn, t
  <2>2. PICK j \in DOMAIN ids :
           /\ j < i /\ ids[j] = -ids[i] /\ AnsweredIn(messages, j)
           /\ BecomesTurn(messages.body[ids[j]])
           /\ messages.body[ids[j]].tool # NoCall
           /\ messages.body[ids[i]].content[2] = messages.body[ids[j]].tool
           /\ \A l \in j + 1 .. i - 1 : ~BecomesTurn(messages.body[ids[l]])
    BY <1>1, <2>1, EchoAnswers
  <2> DEFINE p == 2 * j - 1
  <2>3. p \in TurnPlaces(messages) /\ TurnAt(messages, p).id = ids[j]
    BY <1>2, <2>2
  <2>4. p < k
    BY <1>0, <1>1, <1>5, <2>2
  <2>5. -t.id = ids[j] /\ ids[j] \in ToSet(ids)
    BY <2>1, <2>2 DEF ToSet
  <2>6. ASSUME NEW l \in TurnPlaces(messages), p < l, l < k PROVE FALSE
    <3> DEFINE h == OfPlace(l)
    <3>1. /\ h \in DOMAIN ids /\ BecomesTurn(messages.body[ids[h]])
          /\ l = 2 * h - 1 \/ (l = 2 * h /\ ~AnsweredIn(messages, h))
      BY <1>3
    <3> HIDE DEF h
    <3>2. h \in Int /\ i \in Int /\ j \in Int
      BY <1>0, <1>1, <3>1
    <3>3. j <= h /\ h < i
      BY <1>5, <2>6, <3>1, <3>2
    <3>4. CASE h = j
      <4>1. l = 2 * j
        BY <2>6, <3>1, <3>2, <3>4
      <4> QED BY <2>2, <3>1, <3>2, <3>4, <4>1
    <3>5. CASE h # j
      <4>1. h \in j + 1 .. i - 1
        BY <3>2, <3>3, <3>5
      <4> QED BY <2>2, <3>1, <4>1
    <3> QED BY <3>4, <3>5
  <2> HIDE DEF p
  <2> QED BY <2>1, <2>2, <2>3, <2>4, <2>5, <2>6 DEF t
<1> QED BY <1>1, <1>4, <1>5

\* The index of the log it is made of can follow every turn that is converted.
LEMMA ConvertedTurn ==
    ASSUME NEW n \in Nat, NEW messages, NEW log, Sound(messages, n), Sound(log, n),
           FoundIn(messages, log), NEW k \in TurnPlaces(messages)
    PROVE  LET t == TurnAt(messages, k)
           IN /\ t \in HistoryTurns /\ t.id # EnvId /\ -n <= t.id /\ t.id <= n
              /\ FollowsTurn(t, log, messages.ids)
<1> DEFINE ids == messages.ids
           i == OfPlace(k)
           x == ids[i]
           m == messages.body[x]
           t == TurnAt(messages, k)
<1>0. /\ IsLog(messages) /\ ids \in Seq(Int) /\ DOMAIN ids = 1 .. Len(ids) /\ Len(ids) \in Nat
      /\ IsLog(log) /\ log.ids \in Seq(Int)
  BY DEF Sound, IsLog
<1>1. /\ i \in DOMAIN ids
      /\ \/ k = 2 * i - 1 /\ OwnTurn(messages, i, t)
         \/ k = 2 * i /\ MadeUpTurn(messages, i, t)
  BY ConvertedMessage
<1>2. x \in ToSet(ids) /\ x \in Int /\ -n <= x /\ x <= n
  <2> HIDE DEF i
  <2>1. x \in ToSet(ids) /\ x \in Int
    BY <1>0, <1>1 DEF ToSet
  <2> QED BY <2>1 DEF Sound, Within
<1> HIDE DEF i, t
<1>3. t \in HistoryTurns /\ (t.id = x \/ t.id = -x) /\ t.id # EnvId
  BY <1>1, <1>2 DEF OwnTurn, MadeUpTurn, EnvId
<1>4. -n <= t.id /\ t.id <= n /\ t.id \in Int
  BY <1>2, <1>3
<1>5. ASSUME t.id < 0
      PROVE  /\ -t.id \in ToSet(log.ids) /\ log.body[-t.id].tool # NoCall
             /\ t.content[2] = log.body[-t.id].tool
  <2>1. /\ -t.id \in ToSet(ids) /\ messages.body[-t.id].tool # NoCall
        /\ t.content[2] = messages.body[-t.id].tool
    BY <1>5, ConvertedBefore DEF t
  <2>2. ToSet(ids) \subseteq ToSet(log.ids)
    BY <1>0, OrderFacts DEF FoundIn
  <2> QED BY <2>1, <2>2 DEF FoundIn
<1>6. ASSUME t.id \in ToSet(log.ids)
      PROVE  /\ t.id \in ToSet(ids)
             /\ log.body[t.id].content[1] = "call" => t.content = log.body[t.id].content
             /\ t.content[1] = "call" => log.body[t.id].tool \in {NoCall, t.content[2]}
  <2>1. CASE OwnTurn(messages, i, t)
    BY <1>2, <2>1 DEF OwnTurn, FoundIn, m
  <2>2. CASE MadeUpTurn(messages, i, t)
    <3>1. t.id = -x /\ x > 0 /\ ~AnsweredIn(messages, i)
      BY <2>2 DEF MadeUpTurn
    <3>2. t.id < 0
      BY <1>2, <3>1
    <3>3. t.id \in ToSet(ids)
      <4> SUFFICES ASSUME t.id \notin ToSet(ids) PROVE FALSE
        OBVIOUS
      <4>1. log.body[t.id].type = "info" /\ GoodMessage(t.id, log.body[t.id])
        BY <1>6 DEF FoundIn, Sound
      <4>2. t.id > 0
        BY <4>1 DEF GoodMessage
      <4> QED BY <1>4, <3>2, <4>2
    <3>4. PICK h \in DOMAIN ids : ids[h] = t.id
      BY <3>3 DEF ToSet
    <3>5. PICK j \in DOMAIN ids : ids[j] = -ids[h] /\ AnsweredIn(messages, j)
      BY <3>2, <3>4, EchoAnswers
    <3>6. ids[j] = ids[i]
      BY <1>2, <3>1, <3>4, <3>5
    <3>7. j = i
      BY <1>0, <1>1, <3>6 DEF IsLog, Unrepeated
    <3> QED BY <3>1, <3>5, <3>7
  <2> QED BY <1>1, <2>1, <2>2
<1>7. FollowsTurn(t, log, ids)
  BY <1>5, <1>6 DEF FollowsTurn
<1> QED BY <1>3, <1>4, <1>7 DEF t

\* convertSessionToClientHistory: the history it makes of a log is one that the
\* index of the log can follow.
LEMMA ConvertedHistory ==
    ASSUME NEW n \in Nat, NEW messages, NEW log, Sound(messages, n), Sound(log, n),
           FoundIn(messages, log)
    PROVE  LET turns == ConvertedToHistory(messages)
           IN /\ HistoryOK(turns, n) /\ Follows(turns, log, messages.ids)
              /\ \A i \in DOMAIN turns : turns[i].id # EnvId
<1> DEFINE places == PlacesOf(messages)
           all == [k \in places |-> TurnAt(messages, k)]
           at == TurnPlaces(messages)
           turns == ConvertedToHistory(messages)
           N == 2 * Len(messages.ids)
<1>0. Len(messages.ids) \in Nat /\ places = 1 .. N /\ N \in Nat
  BY DEF Sound, IsLog, PlacesOf
<1>1. at \subseteq places
  BY DEF TurnPlaces
<1> HIDE DEF places, N
<1>2. /\ all \in Seq({TurnAt(messages, k) : k \in places}) /\ DOMAIN all = places
      /\ \A k \in places : all[k] = TurnAt(messages, k)
  <2>1. all = [k \in 1 .. N |-> TurnAt(messages, k)]
    BY <1>0
  <2>2. \A k \in 1 .. N : TurnAt(messages, k) \in {TurnAt(messages, l) : l \in places}
    BY <1>0
  <2> QED BY <1>0, <2>1, <2>2, SMTT(30)
<1> HIDE DEF all, at
<1>3. PICK g : PlacesIn(Selected(all, at), all, at, g)
  BY <1>1, <1>2, SelectedPlaces
<1>4. turns = Selected(all, at) /\ turns \in Seq({TurnAt(messages, k) : k \in places})
  <2>1. turns = Selected(all, at)
    BY ConvertedIs DEF all, at, places
  <2> QED BY <1>1, <1>2, <2>1, SelectedPlaces
<1> HIDE DEF turns
<1>5. /\ DOMAIN turns = 1 .. Len(turns) /\ Len(turns) \in Nat
      /\ g \in [DOMAIN turns -> at]
      /\ \A k \in DOMAIN turns : turns[k] = TurnAt(messages, g[k]) /\ g[k] \in at /\ g[k] \in places
      /\ \A k, l \in DOMAIN turns : k < l => g[k] < g[l]
      /\ \A i \in at : \E k \in DOMAIN turns : g[k] = i
  <2>1. DOMAIN turns = 1 .. Len(turns) /\ Len(turns) \in Nat
    BY <1>4
  <2>2. PlacesIn(turns, all, at, g)
    BY <1>3, <1>4
  <2>3. g \in [DOMAIN turns -> at]
    BY <2>1, <2>2 DEF PlacesIn
  <2>4. \A k \in DOMAIN turns : turns[k] = all[g[k]] /\ g[k] \in at
    BY <2>1, <2>2, <2>3 DEF PlacesIn
  <2>5. \A k, l \in DOMAIN turns : k < l => g[k] < g[l]
    BY <2>1, <2>2 DEF PlacesIn
  <2>6. \A i \in at : \E k \in DOMAIN turns : g[k] = i
    BY <2>1, <2>2 DEF PlacesIn
  <2> QED BY <1>1, <1>2, <2>1, <2>3, <2>4, <2>5, <2>6
<1>6. \A k \in DOMAIN turns : g[k] \in Nat
  BY <1>0, <1>5
<1>7. \A k \in DOMAIN turns :
         /\ turns[k] \in HistoryTurns /\ turns[k].id # EnvId /\ -n <= turns[k].id /\ turns[k].id <= n
         /\ FollowsTurn(turns[k], log, messages.ids)
  BY <1>5, ConvertedTurn DEF at
<1>8. turns \in Seq(HistoryTurns)
  <2>1. turns = [k \in 1 .. Len(turns) |-> turns[k]]
    BY <1>4
  <2>2. [k \in 1 .. Len(turns) |-> turns[k]] \in Seq(HistoryTurns)
    BY <1>5, <1>7
  <2> HIDE <2>1
  <2> QED BY <2>1, <2>2
<1>9. Unrepeated(IdsOf(turns))
  <2>1. ASSUME NEW k \in DOMAIN turns, NEW l \in DOMAIN turns, turns[k].id = turns[l].id PROVE k = l
    <3>1. g[k] = g[l]
      BY <1>5, <2>1, ConvertedApart DEF at
    <3>2. ~(k < l) /\ ~(l < k)
      BY <1>5, <1>6, <3>1
    <3> QED BY <1>5, <3>2
  <2>2. DOMAIN IdsOf(turns) = DOMAIN turns /\ \A k \in DOMAIN turns : IdsOf(turns)[k] = turns[k].id
    BY DEF IdsOf
  <2> QED BY <2>1, <2>2 DEF Unrepeated
<1>10. ASSUME NEW i \in DOMAIN turns, turns[i].id < 0
       PROVE  i > 1 /\ turns[i - 1].id = -turns[i].id /\ Answering(turns[i].content)
  <2>1. PICK p \in at : /\ p < g[i] /\ TurnAt(messages, p).id = -turns[i].id
                        /\ \A l \in at : ~(p < l /\ l < g[i])
                        /\ Answering(turns[i].content)
    BY <1>5, <1>10, ConvertedBefore DEF at
  <2>2. PICK k \in DOMAIN turns : g[k] = p
    BY <1>5
  <2>3. k < i
    <3>1. ~(i < k) /\ i # k
      BY <1>5, <1>6, <2>1, <2>2
    <3> QED BY <1>5, <3>1
  <2>4. k = i - 1
    <3> SUFFICES ASSUME k # i - 1 PROVE FALSE
      OBVIOUS
    <3>1. k + 1 \in DOMAIN turns /\ k < k + 1 /\ k + 1 < i
      BY <1>5, <2>3
    <3>2. p < g[k + 1] /\ g[k + 1] < g[i] /\ g[k + 1] \in at
      BY <1>5, <2>2, <3>1
    <3> QED BY <2>1, <3>2
  <2>5. turns[k] = TurnAt(messages, p)
    BY <1>5, <2>2
  <2> QED BY <1>5, <2>1, <2>3, <2>4, <2>5
<1>11. HistoryOK(turns, n)
  BY <1>7, <1>8, <1>9, <1>10 DEF HistoryOK
<1> QED BY <1>7, <1>11 DEF Follows, turns

-----------------------------------------------------------------------------
(* The chat and the service between two steps                              *)

\* The turns of the chat are in the log in their order (LogFollowsChat).
HasTurns(turns, log) ==
    /\ Only(IdsOf(turns), ToSet(log.ids)) = Only(log.ids, ToSet(IdsOf(turns)))
    /\ \A i \in DOMAIN turns :
          \/ turns[i].id \in ToSet(log.ids)
          \/ turns[i].content = Text /\ i > 1 /\ Answering(turns[i - 1].content)

\* What stands behind the last turn, when that is a call, is the result of the call.
Waits(turns, log, order) ==
    \A i \in DOMAIN turns, y \in ToSet(order) :
       i = Len(turns) /\ turns[i].content[1] = "call" /\ Precedes(order, turns[i].id, y)
          /\ log.body[y].type = "gemini"
       => log.body[y].tool = turns[i].content[2]

\* The chat and the service between two steps, whatever comes next
SessionReady(s, turns, log, n) ==
    /\ Stands(s, log, n) /\ HistoryOK(turns, n) /\ Follows(turns, log, s.order)
    /\ HasTurns(turns, log) /\ Waits(turns, log, s.order)

\* To have the same ids in the same order, said of the pairs of them
LEMMA SameOrder ==
    ASSUME NEW ids \in Seq(Int), Unrepeated(ids), NEW l \in Seq(Int), Unrepeated(l)
    PROVE  Only(ids, ToSet(l)) = Only(l, ToSet(ids)) <=>
              \A x, y : x \in ToSet(l) /\ y \in ToSet(l) /\ Precedes(ids, x, y) => Precedes(l, x, y)
<1> DEFINE a == Only(ids, ToSet(l))
           b == Only(l, ToSet(ids))
<1>1. /\ a \in Seq(Int) /\ Unrepeated(a) /\ ToSet(a) = ToSet(ids) \cap ToSet(l)
      /\ \A x, y : Precedes(a, x, y) <=> Precedes(ids, x, y) /\ x \in ToSet(l) /\ y \in ToSet(l)
  BY OnlyOrder
<1>2. /\ b \in Seq(Int) /\ Unrepeated(b) /\ ToSet(b) = ToSet(l) \cap ToSet(ids)
      /\ \A x, y : Precedes(b, x, y) <=> Precedes(l, x, y) /\ x \in ToSet(ids) /\ y \in ToSet(ids)
  BY OnlyOrder
<1> HIDE DEF a, b
<1>3. ASSUME a = b, NEW x \in ToSet(l), NEW y \in ToSet(l), Precedes(ids, x, y) PROVE Precedes(l, x, y)
  BY <1>1, <1>2, <1>3
<1>4. ASSUME \A x, y : x \in ToSet(l) /\ y \in ToSet(l) /\ Precedes(ids, x, y) => Precedes(l, x, y)
      PROVE  a = b
  <2>1. \A x, y : Precedes(ids, x, y) => x \in ToSet(ids) /\ y \in ToSet(ids)
    BY PrecedesIsOrder
  <2>2. \A x, y : Precedes(a, x, y) => Precedes(b, x, y)
    BY <1>1, <1>2, <1>4, <2>1
  <2>3. ToSet(a) = ToSet(b)
    BY <1>1, <1>2
  <2> QED BY <1>1, <1>2, <2>2, <2>3, OrderUnique
<1> QED BY <1>3, <1>4 DEF a, b

\* What was true with fewer ids given is true with more of them.
LEMMA Later ==
    ASSUME NEW n \in Nat, NEW m \in Nat, n <= m
    PROVE  /\ \A log : Sound(log, n) => Sound(log, m)
           /\ \A s, log : Stands(s, log, n) => Stands(s, log, m)
           /\ \A turns : HistoryOK(turns, n) => HistoryOK(turns, m)
<1>1. ASSUME NEW log, Sound(log, n) PROVE Sound(log, m)
  <2>1. Within(ToSet(log.ids), m)
    <3> SUFFICES ASSUME NEW x \in ToSet(log.ids) PROVE -m <= x /\ x <= m
      BY DEF Within
    <3>1. -n <= x /\ x <= n /\ x \in Int
      BY <1>1, LogDomain DEF Sound, Within
    <3> QED BY <3>1
  <2> QED BY <1>1, <2>1 DEF Sound
<1>2. ASSUME NEW s, NEW log, Stands(s, log, n) PROVE Stands(s, log, m)
  BY <1>1, <1>2 DEF Stands, Safe
<1>3. ASSUME NEW turns, HistoryOK(turns, n) PROVE HistoryOK(turns, m)
  <2>1. turns \in Seq(HistoryTurns)
    BY <1>3 DEF HistoryOK
  <2>2. ASSUME NEW i \in DOMAIN turns PROVE -m <= turns[i].id /\ turns[i].id <= m
    <3>1. turns[i].id \in Int
      BY <2>1, TurnsIds
    <3>2. -n <= turns[i].id /\ turns[i].id <= n
      BY <1>3 DEF HistoryOK
    <3> QED BY <3>1, <3>2
  <2> QED BY <1>3, <2>2 DEF HistoryOK
<1> QED BY <1>1, <1>2, <1>3

\* updateMessagesFromHistory leaves the chat and the service ready.
LEMMA FollowingReady ==
    ASSUME NEW n \in Nat, NEW s, NEW log, Stands(s, log, n),
           NEW turns, HistoryOK(turns, n), Follows(turns, log, s.order)
    PROVE  SessionReady(FollowingHistory(s, turns), turns, LogFollowing(s, turns, log), n)
<1> DEFINE h == FollowingHistory(s, turns)
           new == LogFollowing(s, turns, log)
           ids == IdsOf(turns)
<1>1. Stands(h, new, n) /\ h.order = ids /\ FollowedLog(s, turns, log, new)
  BY FollowingStands
<1> HIDE DEF h, new
<1>2. Sound(log, n) /\ Indexes(s, log) /\ IsLog(log) /\ turns \in Seq(HistoryTurns) /\ Unrepeated(ids)
  BY DEF Stands, Knows, Sound, HistoryOK
<1>3. /\ ToSet(ids) \subseteq ToSet(new.ids) /\ Only(new.ids, ToSet(ids)) = ids
  BY <1>1 DEF FollowedLog, Leaves
<1>4. /\ ids \in Seq(Int) /\ Len(ids) = Len(turns) /\ DOMAIN turns = 1 .. Len(turns)
      /\ Len(turns) \in Nat
      /\ \A i \in DOMAIN turns : ids[i] = turns[i].id
      /\ ToSet(ids) = {turns[i].id : i \in DOMAIN turns}
  BY <1>2, TurnsIds
<1>5. ASSUME NEW i \in DOMAIN turns PROVE FollowsTurn(turns[i], new, ids)
  <2> DEFINE t == turns[i]
             x == t.id
  <2>1. x \in ToSet(ids) /\ x \in ToSet(new.ids) /\ ContentOf(turns, x) = t.content
    BY <1>2, <1>3, <1>4, ContentOfTurn
  <2>2. BecomesMessage(s, turns, log, x, GrownBy(s, turns, log).body[x], new.body[x])
    BY <1>1, <1>2, <2>1, FollowedMessages
  <2>3. new.body[x].content = t.content
    BY <2>1, <2>2 DEF BecomesMessage
  <2>4. FollowsTurn(t, log, s.order)
    BY DEF Follows
  <2>5. t.content[1] = "call" => new.body[x].tool \in {NoCall, t.content[2]}
    <3>1. CASE x \in ToSet(log.ids)
      BY <2>2, <2>4, <3>1 DEF BecomesMessage, FollowsTurn
    <3>2. CASE x \notin ToSet(log.ids)
      BY <2>2, <3>2 DEF BecomesMessage
    <3> QED BY <3>1, <3>2
  <2>6. ASSUME x < 0
        PROVE  /\ -x \in ToSet(new.ids) /\ new.body[-x].tool # NoCall
               /\ t.content[2] = new.body[-x].tool
    <3>1. i > 1 /\ turns[i - 1].id = -x
      BY <2>6 DEF HistoryOK
    <3>2. i - 1 \in DOMAIN turns
      BY <1>4, <3>1
    <3>3. -x \in ToSet(new.ids)
      BY <1>3, <1>4, <3>1, <3>2
    <3>4. /\ -x \in ToSet(log.ids) /\ log.body[-x].tool # NoCall
          /\ t.content[2] = log.body[-x].tool
      BY <2>4, <2>6 DEF FollowsTurn
    <3>5. new.body[-x].tool = log.body[-x].tool
      BY <1>1, <1>2, <3>3, <3>4, FollowedMessages DEF BecomesMessage
    <3> QED BY <3>3, <3>4, <3>5
  <2> QED BY <2>1, <2>3, <2>5, <2>6 DEF FollowsTurn
<1>6. HasTurns(turns, new)
  <2>1. Only(ids, ToSet(new.ids)) = ids
    BY <1>2, <1>3, <1>4, OnlyAll
  <2>2. \A i \in DOMAIN turns : turns[i].id \in ToSet(new.ids)
    BY <1>3, <1>4
  <2> QED BY <1>3, <2>1, <2>2 DEF HasTurns
<1>7. Waits(turns, new, ids)
  <2> SUFFICES ASSUME Len(turns) \in DOMAIN turns, NEW y, Precedes(ids, turns[Len(turns)].id, y)
               PROVE  FALSE
    BY DEF Waits
  <2>1. PICK a, b \in DOMAIN ids : a < b /\ ids[a] = turns[Len(turns)].id
    BY DEF Precedes
  <2> HIDE DEF ids
  <2>2. DOMAIN ids = 1 .. Len(turns)
    BY <1>4
  <2>3. ids[Len(turns)] = turns[Len(turns)].id
    BY <1>4
  <2>4. a = Len(turns)
    BY <1>2, <1>4, <2>1, <2>2, <2>3 DEF Unrepeated
  <2> QED BY <1>4, <2>1, <2>2, <2>4
<1> QED BY <1>1, <1>5, <1>6, <1>7 DEF SessionReady, Follows, h, new, ids

\* A history with one more turn that has a new id
LEMMA LongerHistory ==
    ASSUME NEW n \in Nat, NEW turns, HistoryOK(turns, n), NEW content \in Contents
    PROVE  LET more == Append(turns, HistoryTurn(n + 1, content))
           IN /\ HistoryOK(more, n + 1) /\ Len(more) = Len(turns) + 1
              /\ DOMAIN more = DOMAIN turns \cup {Len(turns) + 1}
              /\ Len(turns) + 1 \notin DOMAIN turns
              /\ \A i \in DOMAIN turns : more[i] = turns[i]
              /\ more[Len(turns) + 1] = HistoryTurn(n + 1, content)
              /\ Same(IdsOf(more), Append(IdsOf(turns), n + 1))
              /\ \A x \in ToSet(IdsOf(turns)) : -n <= x /\ x <= n /\ x \in Int
<1> DEFINE t == HistoryTurn(n + 1, content)
           more == Append(turns, t)
           k == Len(turns)
<1>0. turns \in Seq(HistoryTurns) /\ Unrepeated(IdsOf(turns)) /\ k \in Nat /\ DOMAIN turns = 1 .. k
  BY DEF HistoryOK
<1>1. t \in HistoryTurns /\ t.id = n + 1 /\ t.content = content
  BY DEF HistoryTurn, HistoryTurns
<1> HIDE DEF t
<1>2. /\ more \in Seq(HistoryTurns) /\ Len(more) = k + 1 /\ DOMAIN more = 1 .. k + 1
      /\ \A i \in 1 .. k : more[i] = turns[i]
      /\ more[k + 1] = t
  BY <1>0, <1>1
<1> HIDE DEF more
<1>3. /\ IdsOf(turns) \in Seq(Int) /\ Len(IdsOf(turns)) = k
      /\ \A i \in DOMAIN turns : IdsOf(turns)[i] = turns[i].id /\ turns[i].id \in Int
      /\ ToSet(IdsOf(turns)) = {turns[i].id : i \in DOMAIN turns}
  BY <1>0, TurnsIds
<1>4. \A x \in ToSet(IdsOf(turns)) : -n <= x /\ x <= n /\ x \in Int
  BY <1>3 DEF HistoryOK
<1>5. Same(IdsOf(more), Append(IdsOf(turns), n + 1))
  <2> DEFINE ids == IdsOf(turns)
             a == IdsOf(more)
             b == Append(ids, n + 1)
  <2>1. /\ a \in Seq(Int) /\ Len(a) = k + 1 /\ \A i \in 1 .. k + 1 : a[i] = more[i].id
    BY <1>2, TurnsIds
  <2>2. /\ b \in Seq(Int) /\ Len(b) = k + 1 /\ (\A i \in 1 .. k : b[i] = ids[i]) /\ b[k + 1] = n + 1
    <3> HIDE DEF ids
    <3> QED BY <1>3 DEF ids
  <2> HIDE DEF a, b, ids
  <2>3. ASSUME NEW i \in 1 .. k + 1 PROVE a[i] = b[i]
    <3>1. CASE i = k + 1
      BY <1>1, <1>2, <2>1, <2>2, <3>1
    <3>2. CASE i \in 1 .. k
      BY <1>0, <1>2, <1>3, <2>1, <2>2, <3>2 DEF ids
    <3> QED BY <1>0, <3>1, <3>2
  <2>4. a = b
    BY <2>1, <2>2, <2>3, SeqEqual
  <2> QED BY <2>4, Zenon DEF a, b, ids, Same
<1>6. Unrepeated(IdsOf(more))
  <2>1. n + 1 \notin ToSet(IdsOf(turns))
    BY <1>4
  <2>2. Unrepeated(Append(IdsOf(turns), n + 1))
    <3> HIDE DEF more
    <3>1. n + 1 \in Int
      OBVIOUS
    <3> QED BY <1>0, <1>3, <2>1, <3>1, AppendOrder
  <2> QED BY <1>5, <2>2, Zenon DEF Same
<1>7. ASSUME NEW i \in DOMAIN more
      PROVE  /\ -(n + 1) <= more[i].id /\ more[i].id <= n + 1
             /\ more[i].id = EnvId => more[i].content = EnvTurn.content
             /\ more[i].id < 0 => i > 1 /\ more[i - 1].id = -more[i].id /\ Answering(more[i].content)
  <2>1. CASE i = k + 1
    BY <1>1, <1>2, <2>1 DEF EnvId
  <2>2. CASE i \in 1 .. k
    <3>1. more[i] = turns[i] /\ turns[i].id \in Int /\ i \in DOMAIN turns
      BY <1>0, <1>2, <1>3, <2>2
    <3>2. /\ -n <= turns[i].id /\ turns[i].id <= n
          /\ turns[i].id = EnvId => turns[i].content = EnvTurn.content
          /\ turns[i].id < 0 => i > 1 /\ turns[i - 1].id = -turns[i].id /\ Answering(turns[i].content)
      BY <3>1 DEF HistoryOK
    <3>3. i > 1 => more[i - 1] = turns[i - 1]
      BY <1>0, <1>2, <2>2
    <3> QED BY <3>1, <3>2, <3>3
  <2> QED BY <1>0, <1>2, <2>1, <2>2
<1>8. HistoryOK(more, n + 1)
  BY <1>2, <1>6, <1>7 DEF HistoryOK
<1>9. DOMAIN more = DOMAIN turns \cup {k + 1} /\ k + 1 \notin DOMAIN turns
  BY <1>0, <1>2
<1> QED BY <1>0, <1>2, <1>4, <1>5, <1>8, <1>9 DEF more, t

-----------------------------------------------------------------------------
(* One more turn, recorded with its message                                *)

\* The history can be followed as before with one more message at the end of the log.
LEMMA FollowsLonger ==
    ASSUME NEW n \in Nat, NEW log, Sound(log, n), NEW order \in Seq(Int),
           NEW turns, HistoryOK(turns, n), Follows(turns, log, order),
           NEW m, NEW new, Longer(new, log, n + 1, m),
           NEW longer, ToSet(order) \subseteq ToSet(longer)
    PROVE  Follows(turns, new, longer)
<1> SUFFICES ASSUME NEW i \in DOMAIN turns PROVE FollowsTurn(turns[i], new, longer)
  BY DEF Follows
<1> DEFINE x == turns[i].id
<1>1. x \in Int /\ -n <= x /\ x <= n
  BY TurnsIds DEF HistoryOK
<1>2. FollowsTurn(turns[i], log, order)
  BY DEF Follows
<1> HIDE DEF x
<1>3. x # n + 1 /\ -x # n + 1
  BY <1>1
<1>4. ASSUME NEW y, y \in ToSet(new.ids), y # n + 1 PROVE y \in ToSet(log.ids) /\ new.body[y] = log.body[y]
  BY <1>4 DEF Longer
<1>5. x \in ToSet(new.ids) => x \in ToSet(longer) /\ x \in ToSet(log.ids) /\ new.body[x] = log.body[x]
  BY <1>2, <1>3, <1>4 DEF FollowsTurn, x
<1>6. x < 0 => -x \in ToSet(new.ids) /\ new.body[-x] = log.body[-x]
  BY <1>2, <1>3, <1>4 DEF FollowsTurn, x, Longer
<1> QED BY <1>2, <1>5, <1>6 DEF FollowsTurn, x

\* One more message at the end of the log has no place among the turns before it.
LEMMA AgreesLonger ==
    ASSUME NEW n \in Nat, NEW log, Sound(log, n),
           NEW turns, HistoryOK(turns, n), HasTurns(turns, log),
           NEW m, NEW new, Longer(new, log, n + 1, m)
    PROVE  \A x, y : x \in ToSet(new.ids) /\ y \in ToSet(new.ids) /\ Precedes(IdsOf(turns), x, y)
                     => Precedes(new.ids, x, y)
<1> DEFINE ids == IdsOf(turns)
<1>1. /\ ids \in Seq(Int) /\ Unrepeated(ids)
      /\ \A x \in ToSet(ids) : -n <= x /\ x <= n /\ x \in Int
  <2>1. turns \in Seq(HistoryTurns) /\ Unrepeated(ids)
    BY DEF HistoryOK
  <2>2. ids \in Seq(Int) /\ ToSet(ids) = {turns[i].id : i \in DOMAIN turns} /\ \A i \in DOMAIN turns : turns[i].id \in Int
    BY <2>1, TurnsIds
  <2> QED BY <2>1, <2>2 DEF HistoryOK
<1>2. Only(ids, ToSet(log.ids)) = Only(log.ids, ToSet(ids)) /\ log.ids \in Seq(Int) /\ Unrepeated(log.ids)
  BY DEF HasTurns, Sound, IsLog
<1> HIDE DEF ids
<1> SUFFICES ASSUME NEW x \in ToSet(new.ids), NEW y \in ToSet(new.ids), Precedes(ids, x, y)
             PROVE  Precedes(new.ids, x, y)
  BY DEF ids
<1>3. x \in ToSet(ids) /\ y \in ToSet(ids)
  BY <1>1, PrecedesIsOrder
<1>4. x # n + 1 /\ y # n + 1
  BY <1>1, <1>3
<1>5. x \in ToSet(log.ids) /\ y \in ToSet(log.ids)
  BY <1>4 DEF Longer
<1>6. Precedes(log.ids, x, y)
  BY <1>1, <1>2, <1>5, SameOrder
<1> QED BY <1>6 DEF Longer

\* A turn that is recorded with a message leaves the chat and the service ready.
LEMMA PushTurn ==
    ASSUME NEW n \in Nat, NEW s, NEW turns, NEW log, SessionReady(s, turns, log, n),
           NEW m \in MessageSet, GoodMessage(n + 1, m), m.tool = NoCall,
           NEW content \in Contents, m.content[1] = "call" => content = m.content
    PROVE  SessionReady(Pushed(s, n + 1, m), Append(turns, HistoryTurn(n + 1, content)),
                 Placed(log, n + 1, m), n + 1)
<1> DEFINE more == Append(turns, HistoryTurn(n + 1, content))
           p == Pushed(s, n + 1, m)
           new == Placed(log, n + 1, m)
           ids == IdsOf(turns)
<1>0. /\ Stands(s, log, n) /\ HistoryOK(turns, n) /\ Follows(turns, log, s.order)
      /\ HasTurns(turns, log) /\ Sound(log, n) /\ IsLog(log) /\ Indexes(s, log) /\ s.order \in Seq(Int)
      /\ log.ids \in Seq(Int) /\ Unrepeated(log.ids)
  BY DEF SessionReady, Stands, Sound, Knows, Indexes, IsLog
<1>1. n + 1 \notin ToSet(log.ids) /\ n + 1 \in Nat /\ n <= n + 1
  <2>1. n + 1 \in ToSet(log.ids) => n + 1 <= n
    BY <1>0 DEF Sound, Within
  <2> QED BY <2>1
<1>2. Stands(s, log, n + 1)
  BY <1>0, <1>1, Later
<1>3. NoCall \notin DOMAIN s.results
  BY <1>0 DEF Indexes, ToolsIn
<1>4. /\ Stands(p, new, n + 1)
      /\ p.order = Append(s.order, n + 1)
  <2>1. m.tool \notin DOMAIN s.results
    BY <1>3
  <2>2. 0 <= n + 1 /\ n + 1 <= n + 1 /\ n + 1 \in Int
    BY <1>1
  <2> QED BY <1>1, <1>2, <2>1, <2>2, PushedNew
<1>5. Longer(new, log, n + 1, m)
  BY <1>0, <1>1, PlacedAtEnd
<1>6. /\ HistoryOK(more, n + 1) /\ Len(more) = Len(turns) + 1
      /\ DOMAIN more = DOMAIN turns \cup {Len(turns) + 1}
      /\ Len(turns) + 1 \notin DOMAIN turns
      /\ \A i \in DOMAIN turns : more[i] = turns[i]
      /\ more[Len(turns) + 1] = HistoryTurn(n + 1, content)
      /\ Same(IdsOf(more), Append(ids, n + 1))
      /\ \A x \in ToSet(ids) : -n <= x /\ x <= n /\ x \in Int
  BY <1>0, LongerHistory
<1> HIDE DEF more, p, new
<1>7. /\ ToSet(p.order) = ToSet(s.order) \cup {n + 1}
  <2>1. n + 1 \in Int
    BY <1>1
  <2> QED BY <1>0, <1>4, <2>1, AppendOrder
<1>8. Follows(more, new, p.order)
  <2>1. Follows(turns, new, p.order)
    BY <1>0, <1>5, <1>7, FollowsLonger
  <2>2. FollowsTurn(HistoryTurn(n + 1, content), new, p.order)
    <3>1. new.body[n + 1] = m /\ n + 1 \in ToSet(p.order)
      BY <1>5, <1>7 DEF Longer
    <3> QED BY <1>1, <3>1 DEF FollowsTurn, HistoryTurn
  <2> QED BY <1>6, <2>1, <2>2 DEF Follows
<1>9. HasTurns(more, new)
  <2>1. /\ ids \in Seq(Int) /\ Unrepeated(ids)
    BY <1>0, TurnsIds DEF HistoryOK
  <2> DEFINE b == IdsOf(more)
  <2>2. /\ b \in Seq(Int) /\ Unrepeated(b) /\ ToSet(b) = ToSet(ids) \cup {n + 1}
        /\ \A x, y : Precedes(b, x, y) <=> Precedes(ids, x, y) \/ (x \in ToSet(ids) /\ y = n + 1)
    <3>1. b \in Seq(Int) /\ Unrepeated(b)
      BY <1>6, TurnsIds DEF HistoryOK
    <3>2. b = Append(ids, n + 1)
      BY <1>6, Zenon DEF Same
    <3> HIDE DEF b, ids
    <3>3. n + 1 \in Int
      BY <1>1
    <3> QED BY <2>1, <3>1, <3>2, <3>3, AppendOrder
  <2>3. new.ids \in Seq(Int) /\ Unrepeated(new.ids) /\ n + 1 \in ToSet(new.ids) /\ ToSet(new.ids) = ToSet(log.ids) \cup {n + 1}
    BY <1>5 DEF Longer, IsLog
  <2>4. \A x, y : x \in ToSet(new.ids) /\ y \in ToSet(new.ids) /\ Precedes(ids, x, y)
                     => Precedes(new.ids, x, y)
    BY <1>0, <1>5, AgreesLonger
  <2>5. \A x \in ToSet(ids) : x \in ToSet(new.ids) => Precedes(new.ids, x, n + 1)
    <3>1. ASSUME NEW x \in ToSet(ids), x \in ToSet(new.ids) PROVE x \in ToSet(log.ids)
      <4>1. x # n + 1
        BY <1>6
      <4> QED BY <2>3, <3>1, <4>1
    <3> QED BY <1>5, <3>1 DEF Longer
  <2>6. Only(b, ToSet(new.ids)) = Only(new.ids, ToSet(b))
    <3>1. \A x, y : x \in ToSet(new.ids) /\ y \in ToSet(new.ids) /\ Precedes(b, x, y) => Precedes(new.ids, x, y)
      BY <2>2, <2>4, <2>5
    <3> HIDE DEF b
    <3> QED BY <2>2, <2>3, <3>1, SameOrder
  <2>7. ASSUME NEW i \in DOMAIN more
        PROVE  \/ more[i].id \in ToSet(new.ids)
               \/ more[i].content = Text /\ i > 1 /\ Answering(more[i - 1].content)
    <3>1. CASE i = Len(turns) + 1
      BY <1>6, <2>3, <3>1 DEF HistoryTurn
    <3>2. CASE i \in DOMAIN turns
      <4>1. \/ turns[i].id \in ToSet(log.ids)
            \/ turns[i].content = Text /\ i > 1 /\ Answering(turns[i - 1].content)
        BY <1>0, <3>2 DEF HasTurns
      <4>2. i > 1 => i - 1 \in DOMAIN turns
        BY <1>0, <3>2, TurnsIds DEF HistoryOK
      <4> QED BY <1>6, <2>3, <3>2, <4>1, <4>2
    <3> QED BY <1>6, <3>1, <3>2
  <2> QED BY <2>6, <2>7 DEF HasTurns, b
<1>10. Waits(more, new, p.order)
  <2> SUFFICES ASSUME NEW y, Precedes(p.order, n + 1, y) PROVE FALSE
    BY <1>6 DEF Waits, HistoryTurn
  <2>1. Unrepeated(s.order) /\ ToSet(s.order) \subseteq ToSet(log.ids)
    BY <1>0, OrderFacts DEF Indexes
  <2>2. n + 1 \notin ToSet(s.order)
    BY <1>1, <2>1
  <2>3. Precedes(s.order, n + 1, y) \/ n + 1 \in ToSet(s.order)
    <3>1. n + 1 \in Int
      BY <1>1
    <3> QED BY <1>0, <1>4, <3>1, AppendOrder
  <2> QED BY <1>0, <2>1, <2>2, <2>3, PrecedesIsOrder
<1> QED BY <1>4, <1>6, <1>8, <1>9, <1>10 DEF SessionReady, more, p, new

\* The placeholder that closes a response may wait for the next update.
LEMMA WaitTurn ==
    ASSUME NEW n \in Nat, NEW s, NEW turns, NEW log, SessionReady(s, turns, log, n),
           turns # << >>, Answering(turns[Len(turns)].content)
    PROVE  SessionReady(s, Append(turns, HistoryTurn(n + 1, Text)), log, n + 1)
<1> DEFINE more == Append(turns, HistoryTurn(n + 1, Text))
           ids == IdsOf(turns)
<1>0. /\ Stands(s, log, n) /\ HistoryOK(turns, n) /\ Follows(turns, log, s.order)
      /\ HasTurns(turns, log) /\ Sound(log, n) /\ s.order \in Seq(Int)
      /\ log.ids \in Seq(Int) /\ Unrepeated(log.ids)
  BY DEF SessionReady, Stands, Sound, Knows, Indexes, IsLog
<1>1. n + 1 \notin ToSet(log.ids) /\ n + 1 \in Nat /\ n <= n + 1
  <2>1. n + 1 \in ToSet(log.ids) => n + 1 <= n
    BY <1>0 DEF Sound, Within
  <2> QED BY <2>1
<1>2. Stands(s, log, n + 1)
  BY <1>0, <1>1, Later
<1>3. Text \in Contents
  BY DEF Text, Contents, Kinds, NoCall
<1>6. /\ HistoryOK(more, n + 1) /\ Len(more) = Len(turns) + 1
      /\ DOMAIN more = DOMAIN turns \cup {Len(turns) + 1}
      /\ Len(turns) + 1 \notin DOMAIN turns
      /\ \A i \in DOMAIN turns : more[i] = turns[i]
      /\ more[Len(turns) + 1] = HistoryTurn(n + 1, Text)
      /\ Same(IdsOf(more), Append(ids, n + 1))
      /\ \A x \in ToSet(ids) : -n <= x /\ x <= n /\ x \in Int
  BY <1>0, <1>3, LongerHistory
<1> HIDE DEF more
<1>8. Follows(more, log, s.order)
  <2>2. FollowsTurn(HistoryTurn(n + 1, Text), log, s.order)
    BY <1>1 DEF FollowsTurn, HistoryTurn
  <2> QED BY <1>0, <1>6, <2>2 DEF Follows
<1>9. HasTurns(more, log)
  <2>1. /\ ids \in Seq(Int) /\ Unrepeated(ids)
    BY <1>0, TurnsIds DEF HistoryOK
  <2> DEFINE b == IdsOf(more)
  <2>2. /\ b \in Seq(Int) /\ Unrepeated(b)
        /\ \A x, y : Precedes(b, x, y) <=> Precedes(ids, x, y) \/ (x \in ToSet(ids) /\ y = n + 1)
    <3>1. b \in Seq(Int) /\ Unrepeated(b)
      BY <1>6, TurnsIds DEF HistoryOK
    <3>2. b = Append(ids, n + 1)
      BY <1>6, Zenon DEF Same
    <3> HIDE DEF b, ids
    <3>3. n + 1 \in Int
      BY <1>1
    <3> QED BY <2>1, <3>1, <3>2, <3>3, AppendOrder
  <2>4. \A x, y : x \in ToSet(log.ids) /\ y \in ToSet(log.ids) /\ Precedes(ids, x, y)
                     => Precedes(log.ids, x, y)
    <3>1. Only(ids, ToSet(log.ids)) = Only(log.ids, ToSet(ids))
      BY <1>0 DEF HasTurns
    <3> HIDE DEF ids
    <3> QED BY <1>0, <2>1, <3>1, SameOrder
  <2>6. Only(b, ToSet(log.ids)) = Only(log.ids, ToSet(b))
    <3>1. \A x, y : x \in ToSet(log.ids) /\ y \in ToSet(log.ids) /\ Precedes(b, x, y) => Precedes(log.ids, x, y)
      BY <1>1, <2>2, <2>4
    <3> HIDE DEF b
    <3> QED BY <1>0, <2>2, <3>1, SameOrder
  <2>7. ASSUME NEW i \in DOMAIN more
        PROVE  \/ more[i].id \in ToSet(log.ids)
               \/ more[i].content = Text /\ i > 1 /\ Answering(more[i - 1].content)
    <3>0. Len(turns) \in Nat /\ DOMAIN turns = 1 .. Len(turns) /\ Len(turns) > 0
      BY <1>0 DEF HistoryOK
    <3>1. CASE i = Len(turns) + 1
      <4>1. i > 1 /\ i - 1 = Len(turns) /\ Len(turns) \in DOMAIN turns
        BY <3>0, <3>1
      <4>2. more[i - 1] = turns[Len(turns)]
        BY <1>6, <4>1
      <4> QED BY <1>6, <3>1, <4>1, <4>2 DEF HistoryTurn
    <3>2. CASE i \in DOMAIN turns
      <4>1. \/ turns[i].id \in ToSet(log.ids)
            \/ turns[i].content = Text /\ i > 1 /\ Answering(turns[i - 1].content)
        BY <1>0, <3>2 DEF HasTurns
      <4>2. i > 1 => i - 1 \in DOMAIN turns
        BY <3>0, <3>2
      <4> QED BY <1>6, <3>2, <4>1, <4>2
    <3> QED BY <1>6, <3>1, <3>2
  <2> QED BY <2>6, <2>7 DEF HasTurns, b
<1>10. Waits(more, log, s.order)
  BY <1>6 DEF Waits, HistoryTurn, Text
<1> QED BY <1>2, <1>6, <1>8, <1>9, <1>10 DEF SessionReady, more

\* The log still has the turns with one more message at its end.
LEMMA HasTurnsLonger ==
    ASSUME NEW n \in Nat, NEW log, Sound(log, n),
           NEW turns, HistoryOK(turns, n), HasTurns(turns, log),
           NEW m, NEW new, Longer(new, log, n + 1, m)
    PROVE  HasTurns(turns, new)
<1> DEFINE ids == IdsOf(turns)
<1>1. ids \in Seq(Int) /\ Unrepeated(ids) /\ new.ids \in Seq(Int) /\ Unrepeated(new.ids)
  BY TurnsIds DEF HistoryOK, Longer, IsLog
<1>2. \A x, y : x \in ToSet(new.ids) /\ y \in ToSet(new.ids) /\ Precedes(ids, x, y)
                  => Precedes(new.ids, x, y)
  BY AgreesLonger
<1>3. \A i \in DOMAIN turns :
          \/ turns[i].id \in ToSet(new.ids)
          \/ turns[i].content = Text /\ i > 1 /\ Answering(turns[i - 1].content)
  BY DEF HasTurns, Longer
<1>4. Only(ids, ToSet(new.ids)) = Only(new.ids, ToSet(ids))
  <2> HIDE DEF ids
  <2> QED BY <1>1, <1>2, SameOrder
<1> QED BY <1>3, <1>4 DEF HasTurns, ids

\* A message that is no turn, a notice or the result of the last call, leaves the
\* chat and the service ready.
LEMMA PushBehind ==
    ASSUME NEW n \in Nat, NEW s, NEW turns, NEW log, SessionReady(s, turns, log, n),
           NEW m \in MessageSet, GoodMessage(n + 1, m), m.tool \notin DOMAIN s.results,
           \A i \in DOMAIN turns :
              i = Len(turns) /\ turns[i].content[1] = "call" /\ m.type = "gemini"
              => m.tool = turns[i].content[2]
    PROVE  SessionReady(Pushed(s, n + 1, m), turns, Placed(log, n + 1, m), n + 1)
<1> DEFINE p == Pushed(s, n + 1, m)
           new == Placed(log, n + 1, m)
<1>0. /\ Stands(s, log, n) /\ HistoryOK(turns, n) /\ Follows(turns, log, s.order)
      /\ HasTurns(turns, log) /\ Waits(turns, log, s.order)
      /\ Sound(log, n) /\ IsLog(log) /\ Indexes(s, log) /\ s.order \in Seq(Int)
      /\ log.ids \in Seq(Int) /\ Unrepeated(log.ids)
  BY DEF SessionReady, Stands, Sound, Knows, Indexes, IsLog
<1>1. n + 1 \notin ToSet(log.ids) /\ n + 1 \in Nat /\ n <= n + 1
  <2>1. n + 1 \in ToSet(log.ids) => n + 1 <= n
    BY <1>0 DEF Sound, Within
  <2> QED BY <2>1
<1>2. Stands(s, log, n + 1) /\ HistoryOK(turns, n + 1)
  BY <1>0, <1>1, Later
<1>4. /\ Stands(p, new, n + 1)
      /\ p.order = Append(s.order, n + 1)
  <2>2. 0 <= n + 1 /\ n + 1 <= n + 1 /\ n + 1 \in Int
    BY <1>1
  <2> QED BY <1>1, <1>2, <2>2, PushedNew
<1>5. Longer(new, log, n + 1, m)
  BY <1>0, <1>1, PlacedAtEnd
<1> HIDE DEF p, new
<1>6. Unrepeated(s.order) /\ ToSet(s.order) \subseteq ToSet(log.ids)
  BY <1>0, OrderFacts DEF Indexes
<1>7. /\ ToSet(p.order) = ToSet(s.order) \cup {n + 1}
      /\ \A x, y : Precedes(p.order, x, y) <=> Precedes(s.order, x, y) \/ (x \in ToSet(s.order) /\ y = n + 1)
  <2>1. n + 1 \in Int
    BY <1>1
  <2> QED BY <1>0, <1>4, <2>1, AppendOrder
<1>8. Follows(turns, new, p.order)
  BY <1>0, <1>5, <1>7, FollowsLonger
<1>9. HasTurns(turns, new)
  BY <1>0, <1>5, HasTurnsLonger
<1>10. Waits(turns, new, p.order)
  <2> SUFFICES ASSUME NEW i \in DOMAIN turns, i = Len(turns), turns[i].content[1] = "call",
                      NEW y \in ToSet(p.order), Precedes(p.order, turns[i].id, y), new.body[y].type = "gemini"
               PROVE  new.body[y].tool = turns[i].content[2]
    BY DEF Waits
  <2>1. CASE y = n + 1
    BY <2>1, <1>5 DEF Longer
  <2>2. CASE y # n + 1
    <3>1. Precedes(s.order, turns[i].id, y) /\ y \in ToSet(s.order) /\ new.body[y] = log.body[y]
      BY <1>5, <1>6, <1>7, <2>2 DEF Longer
    <3> QED BY <1>0, <3>1 DEF Waits
  <2> QED BY <2>1, <2>2
<1> QED BY <1>2, <1>4, <1>8, <1>9, <1>10 DEF SessionReady, p, new

\* So does the result of the last call with the last message.
LEMMA PushAttached ==
    ASSUME NEW n \in Nat, NEW s, NEW turns, NEW log, SessionReady(s, turns, log, n),
           Len(turns) \in DOMAIN turns, turns[Len(turns)].content[1] = "call",
           turns[Len(turns)].content[2] \notin DOMAIN s.results, AttachesTools(s)
    PROVE  \E new : SessionReady(ToolRecorded(s, turns[Len(turns)].content[2], n + 1), turns, new, n)
<1> DEFINE t == turns[Len(turns)]
           c == t.content[2]
           x == t.id
           old == log.body[x]
           m == [old EXCEPT !.tool = c, !.result = Response(c)]
           new == Placed(log, x, m)
           p == Pushed(s, x, m)
<1>0. /\ Stands(s, log, n) /\ HistoryOK(turns, n) /\ Follows(turns, log, s.order)
      /\ HasTurns(turns, log) /\ Waits(turns, log, s.order)
      /\ Sound(log, n) /\ IsLog(log) /\ Indexes(s, log) /\ s.order \in Seq(Int)
      /\ log.ids \in Seq(Int) /\ Unrepeated(log.ids)
      /\ s.window = Chosen(log, Ending(s.order, Window))
  BY DEF SessionReady, Stands, Sound, Knows, Indexes, IsLog
<1>1. Unrepeated(s.order) /\ ToSet(s.order) \subseteq ToSet(log.ids)
  BY <1>0, OrderFacts DEF Indexes
<1>2. x \in ToSet(s.order) /\ x \in ToSet(log.ids)
  <2>1. t.content # Text
    BY DEF Text
  <2>2. x \in ToSet(log.ids)
    BY <1>0, <2>1 DEF HasTurns
  <2> QED BY <1>0, <2>2 DEF Follows, FollowsTurn
<1>3. c \in Int /\ c # NoCall /\ x \in Int /\ x > 0
  <2>1. t \in HistoryTurns
    BY <1>0 DEF HistoryOK
  <2>2. ~Answering(t.content) /\ t.content # EnvTurn.content
    BY DEF Answering, EnvTurn
  <2>3. x # EnvId /\ ~(x < 0)
    BY <1>0, <2>2 DEF HistoryOK
  <2> QED BY <2>1, <2>3 DEF HistoryTurns, Contents, EnvId
<1>4. \A y \in ToSet(s.order) : log.body[y].tool # c
  BY <1>0, <1>3 DEF Indexes, ToolsIn
<1> DEFINE e == Ending(s.order, Window)
<1>5. /\ e # << >> /\ Last(e) = Last(s.order) /\ s.window.ids = e /\ Last(e) \in ToSet(e)
      /\ s.window.body[Last(e)] = log.body[Last(e)] /\ e \in Seq(Int)
      /\ ToSet(e) \subseteq ToSet(s.order) /\ s.order # << >>
  <2>0. Window \in Nat /\ Window > 0
    BY RecordingConstants
  <2>1. s.order # << >>
    BY <1>2 DEF ToSet
  <2>2. e # << >> /\ Last(e) = Last(s.order) /\ e \in Seq(Int) /\ ToSet(e) \subseteq ToSet(s.order)
    BY <1>0, <2>0, <2>1, EndingOrder
  <2>3. s.window.ids = e /\ s.window.body = [id \in ToSet(e) |-> log.body[id]]
    BY <1>0 DEF Chosen
  <2> HIDE DEF e
  <2>4. Last(e) \in ToSet(e)
    BY <2>2 DEF Last, ToSet
  <2> QED BY <2>1, <2>2, <2>3, <2>4
<1> HIDE DEF e
<1>6. log.body[Last(e)].type = "gemini"
  BY <1>5 DEF AttachesTools, LastMessage
<1>7. Last(e) = x
  <2> SUFFICES ASSUME Last(e) # x PROVE FALSE
    OBVIOUS
  <2>1. Precedes(s.order, x, Last(e))
    <3>1. PICK i \in DOMAIN s.order : s.order[i] = x
      BY <1>2 DEF ToSet
    <3>2. i # Len(s.order)
      BY <1>5, <3>1 DEF Last
    <3>3. i < Len(s.order) /\ Len(s.order) \in DOMAIN s.order
      BY <1>0, <3>1, <3>2
    <3> QED BY <1>5, <3>1, <3>3 DEF Precedes, Last
  <2>2. log.body[Last(e)].tool = c
    BY <1>0, <1>5, <1>6, <2>1 DEF Waits
  <2> QED BY <1>4, <1>5, <2>2
<1>8. old \in MessageSet /\ old.type = "gemini" /\ old.tool = NoCall
  <2>1. old \in MessageSet
    BY <1>0, <1>2, LogDomain
  <2>2. old.tool \in {NoCall, c}
    BY <1>0, <1>2 DEF Follows, FollowsTurn
  <2> QED BY <1>2, <1>4, <1>6, <1>7, <2>1, <2>2
<1>9. Response(c) \in Contents
  BY <1>3 DEF Response, Contents, Kinds
<1>10. /\ m \in MessageSet /\ m.type = "gemini" /\ m.tool = c /\ m.content = old.content
       /\ m.result = Response(c)
  <2> HIDE DEF old, c
  <2> QED BY <1>3, <1>8, <1>9 DEF MessageSet
<1>11. ToolRecorded(s, c, n + 1) = p
  BY <1>5, <1>7 DEF ToolRecorded, LastMessage
<1>12. GoodMessage(x, m)
  <2>1. old.content[1] = "call" => old.content[2] = c
    BY <1>0, <1>2 DEF Follows, FollowsTurn
  <2> QED BY <1>3, <1>10, <2>1 DEF GoodMessage, EnvId
<1>13. Stands(p, new, n) /\ p.order = s.order
  <2>1. x \in ToSet(Ending(s.order, Window))
    BY <1>5, <1>7 DEF e
  <2>2. c \notin DOMAIN s.results
    OBVIOUS
  <2> HIDE DEF m, c, old, x
  <2>3. m.tool # NoCall /\ m.tool \notin DOMAIN s.results /\ log.body[x].type = "gemini" /\ log.body[x].tool = NoCall
    BY <1>3, <1>8, <1>10, <2>2 DEF old
  <2> QED BY <1>0, <1>10, <1>12, <2>1, <2>3, PushedAgain
<1>14. /\ new.ids = log.ids /\ new.body[x] = m
       /\ \A y \in ToSet(log.ids) : y # x => new.body[y] = log.body[y]
  <2>1. DOMAIN log.body = ToSet(log.ids)
    BY <1>0, LogDomain
  <2> HIDE DEF m, x
  <2> QED BY <1>2, <2>1 DEF Placed, Put
<1> HIDE DEF new, p, m
<1>15. Follows(turns, new, s.order)
  <2> SUFFICES ASSUME NEW i \in DOMAIN turns PROVE FollowsTurn(turns[i], new, s.order)
    BY DEF Follows
  <2>1. FollowsTurn(turns[i], log, s.order)
    BY <1>0 DEF Follows
  <2>2. turns[i].id < 0 => -turns[i].id # x
    BY <1>8, <2>1 DEF FollowsTurn
  <2>3. turns[i].id = x => i = Len(turns)
    <3>1. turns \in Seq(HistoryTurns) /\ Unrepeated(IdsOf(turns))
      BY <1>0 DEF HistoryOK
    <3> QED BY <3>1, TurnsIds DEF Unrepeated, IdsOf
  <2>4. CASE turns[i].id = x
    <3>1. turns[i] = t /\ ~(turns[i].id < 0)
      BY <1>3, <2>3, <2>4
    <3> QED BY <1>2, <1>10, <1>14, <2>1, <3>1 DEF FollowsTurn
  <2>5. CASE turns[i].id # x
    BY <1>14, <2>1, <2>2, <2>5 DEF FollowsTurn
  <2> QED BY <2>4, <2>5
<1>16. HasTurns(turns, new)
  BY <1>0, <1>14 DEF HasTurns
<1>17. Waits(turns, new, s.order)
  <2> SUFFICES ASSUME NEW y \in ToSet(s.order), Precedes(s.order, x, y), new.body[y].type = "gemini"
               PROVE  new.body[y].tool = c
    BY DEF Waits
  <2>1. y # x
    BY <1>0, <1>1, PrecedesIsOrder
  <2> QED BY <1>0, <1>1, <1>14, <2>1 DEF Waits
<1> QED BY <1>0, <1>11, <1>13, <1>15, <1>16, <1>17 DEF SessionReady

\* recordToolCalls leaves the chat and the service ready.
LEMMA ToolRecordedReady ==
    ASSUME NEW n \in Nat, NEW s, NEW turns, NEW log, SessionReady(s, turns, log, n),
           Len(turns) \in DOMAIN turns, turns[Len(turns)].content[1] = "call",
           turns[Len(turns)].content[2] \notin DOMAIN s.results
    PROVE  \E new : SessionReady(ToolRecorded(s, turns[Len(turns)].content[2], n + 1), turns, new,
                          IF AttachesTools(s) THEN n ELSE n + 1)
<1> DEFINE c == turns[Len(turns)].content[2]
           m == [NewMessage("gemini", Empty) EXCEPT !.tool = c, !.result = Response(c)]
<1>1. CASE AttachesTools(s)
  BY <1>1, PushAttached
<1>2. CASE ~AttachesTools(s)
  <2>1. c \in Int /\ c # NoCall
    <3>1. turns[Len(turns)] \in HistoryTurns
      BY DEF SessionReady, HistoryOK
    <3> QED BY <3>1 DEF HistoryTurns, Contents
  <2> HIDE DEF c
  <2> DEFINE blank == NewMessage("gemini", Empty)
  <2>2. blank \in MessageSet /\ blank.type = "gemini" /\ blank.content = Empty
    BY DEF NewMessage, MessageSet, Empty, Contents, Kinds, NoCall
  <2>3. /\ m \in MessageSet /\ m.type = "gemini" /\ m.tool = c /\ m.content = Empty
        /\ m.result = Response(c)
    <3>1. Response(c) \in Contents
      BY <2>1 DEF Response, Contents, Kinds
    <3> HIDE DEF blank
    <3>2. m = [blank EXCEPT !.tool = c, !.result = Response(c)]
      BY DEF blank
    <3> QED BY <2>1, <2>2, <3>1, <3>2 DEF MessageSet
  <2>4. GoodMessage(n + 1, m)
    <3> HIDE DEF m
    <3> QED BY <2>3 DEF GoodMessage, Empty, EnvId
  <2>5. ToolRecorded(s, c, n + 1) = Pushed(s, n + 1, m)
    BY <1>2 DEF ToolRecorded
  <2>6. m.tool \notin DOMAIN s.results /\ m.tool = c
    BY <2>3 DEF c
  <2> HIDE DEF m
  <2>7. SessionReady(Pushed(s, n + 1, m), turns, Placed(log, n + 1, m), n + 1)
    BY <2>3, <2>4, <2>6, PushBehind DEF c
  <2> QED BY <1>2, <2>5, <2>7 DEF c
<1> QED BY <1>1, <1>2

-----------------------------------------------------------------------------
(* Histories made of others                                                *)

\* A rolled back history can be followed.
LEMMA PrefixTurns ==
    ASSUME NEW n \in Nat, NEW turns, HistoryOK(turns, n), NEW k \in 0 .. Len(turns),
           NEW log, NEW order, Follows(turns, log, order)
    PROVE  HistoryOK(SubSeq(turns, 1, k), n) /\ Follows(SubSeq(turns, 1, k), log, order)
<1> DEFINE new == SubSeq(turns, 1, k)
<1>1. turns \in Seq(HistoryTurns) /\ Unrepeated(IdsOf(turns)) /\ DOMAIN turns = 1 .. Len(turns)
  BY DEF HistoryOK
<1>2. /\ new \in Seq(HistoryTurns) /\ DOMAIN new = 1 .. k /\ \A i \in 1 .. k : i \in DOMAIN turns /\ new[i] = turns[i]
  BY <1>1, Prefix
<1> HIDE DEF new
<1>3. Unrepeated(IdsOf(new))
  BY <1>1, <1>2 DEF IdsOf, Unrepeated
<1>4. \A i \in DOMAIN new : i > 1 => new[i - 1] = turns[i - 1]
  BY <1>2
<1>5. HistoryOK(new, n)
  BY <1>2, <1>3, <1>4 DEF HistoryOK
<1>6. Follows(new, log, order)
  BY <1>2 DEF Follows
<1> QED BY <1>5, <1>6 DEF new

\* A history with another content in one turn, that calls nothing, can be followed.
LEMMA ChangedTurn ==
    ASSUME NEW n \in Nat, NEW turns, HistoryOK(turns, n), NEW i \in DOMAIN turns,
           NEW content \in Contents, content[1] # "call",
           turns[i].content[1] # "call", turns[i].id # EnvId,
           turns[i].id < 0 => Answering(content) /\ content[2] = turns[i].content[2]
    PROVE  LET new == [turns EXCEPT ![i].content = content]
           IN /\ HistoryOK(new, n) /\ Len(new) = Len(turns) /\ new \in Seq(HistoryTurns)
              /\ \A log, order : Follows(turns, log, order) => Follows(new, log, order)
<1> DEFINE t == [turns[i] EXCEPT !.content = content]
           new == [turns EXCEPT ![i].content = content]
<1>1. turns \in Seq(HistoryTurns) /\ Unrepeated(IdsOf(turns)) /\ turns[i] \in HistoryTurns
  BY DEF HistoryOK
<1>2. t \in HistoryTurns /\ t.id = turns[i].id /\ t.content = content
  BY <1>1 DEF HistoryTurns
<1>3. new = [turns EXCEPT ![i] = t]
  OBVIOUS
<1> HIDE DEF t, new
<1>4. /\ new \in Seq(HistoryTurns) /\ Len(new) = Len(turns) /\ DOMAIN new = DOMAIN turns
      /\ \A j \in DOMAIN turns : new[j] = IF j = i THEN t ELSE turns[j]
  BY <1>1, <1>2, <1>3
<1>5. IdsOf(new) = IdsOf(turns)
  BY <1>2, <1>4 DEF IdsOf
<1>6. ASSUME NEW j \in DOMAIN turns
      PROVE  /\ -n <= new[j].id /\ new[j].id <= n
             /\ new[j].id = EnvId => new[j].content = EnvTurn.content
             /\ new[j].id < 0 => j > 1 /\ new[j - 1].id = -new[j].id /\ Answering(new[j].content)
  <2>1. new[j].id = turns[j].id /\ (j # i => new[j] = turns[j])
    BY <1>2, <1>4
  <2>2. j > 1 => new[j - 1].id = turns[j - 1].id
    <3>1. j > 1 => j - 1 \in DOMAIN turns
      BY <1>1
    <3> QED BY <1>2, <1>4, <3>1
  <2>3. /\ -n <= turns[j].id /\ turns[j].id <= n
        /\ turns[j].id = EnvId => turns[j].content = EnvTurn.content
        /\ turns[j].id < 0 => j > 1 /\ turns[j - 1].id = -turns[j].id /\ Answering(turns[j].content)
    BY DEF HistoryOK
  <2>4. j = i => new[j].content = content
    BY <1>2, <1>4
  <2> QED BY <2>1, <2>2, <2>3, <2>4
<1>7. HistoryOK(new, n)
  BY <1>1, <1>4, <1>5, <1>6 DEF HistoryOK
<1>8. ASSUME NEW log, NEW order, Follows(turns, log, order), NEW j \in DOMAIN new
      PROVE  FollowsTurn(new[j], log, order)
  <2>1. FollowsTurn(turns[j], log, order)
    BY <1>4, <1>8 DEF Follows
  <2>2. CASE j = i
    <3>1. new[j] = t
      BY <1>4, <2>2
    <3> QED BY <1>2, <2>1, <2>2, <3>1 DEF FollowsTurn
  <2>3. CASE j # i
    BY <1>4, <2>1, <2>3
  <2> QED BY <2>2, <2>3
<1> QED BY <1>4, <1>7, <1>8 DEF Follows, new

\* A history with a masked response can be followed.
LEMMA MaskedTurn ==
    ASSUME NEW n \in Nat, NEW turns, HistoryOK(turns, n), NEW i \in DOMAIN turns,
           turns[i].content[1] = "response"
    PROVE  LET new == MaskedAt(turns, i)
           IN /\ HistoryOK(new, n) /\ Len(new) = Len(turns) /\ new \in Seq(HistoryTurns)
              /\ \A log, order : Follows(turns, log, order) => Follows(new, log, order)
<1> DEFINE content == Masked(turns[i].content[2])
<1>1. turns[i] \in HistoryTurns
  BY DEF HistoryOK
<1>2. content \in Contents /\ content[1] = "masked" /\ content[2] = turns[i].content[2]
  BY <1>1 DEF HistoryTurns, Contents, Kinds, Masked
<1>3. turns[i].id # EnvId
  BY DEF HistoryOK, EnvTurn
<1>4. MaskedAt(turns, i) = [turns EXCEPT ![i].content = content]
  BY DEF MaskedAt
<1> HIDE DEF content
<1>5. Answering(content)
  BY <1>2 DEF Answering
<1>6. content[1] # "call" /\ turns[i].content[1] # "call"
  BY <1>2
<1> DEFINE masked == [turns EXCEPT ![i].content = content]
<1>7. /\ HistoryOK(masked, n) /\ Len(masked) = Len(turns) /\ masked \in Seq(HistoryTurns)
      /\ \A log, order : Follows(turns, log, order) => Follows(masked, log, order)
  BY <1>2, <1>3, <1>5, <1>6, ChangedTurn
<1>8. MaskedAt(turns, i) = masked
  BY <1>4
<1> HIDE DEF masked
<1> QED BY <1>7, <1>8

\* A history with an empty answer filled in can be followed.
LEMMA FilledTurn ==
    ASSUME NEW n \in Nat, NEW turns, HistoryOK(turns, n), NEW i \in DOMAIN turns,
           turns[i].content = Empty
    PROVE  LET new == [turns EXCEPT ![i].content = Text]
           IN /\ HistoryOK(new, n) /\ Len(new) = Len(turns)
              /\ \A log, order : Follows(turns, log, order) => Follows(new, log, order)
<1>1. Text \in Contents /\ Text[1] # "call" /\ turns[i].content[1] # "call"
  BY DEF Text, Contents, Kinds, NoCall, Empty
<1>2. turns[i].id # EnvId /\ ~(turns[i].id < 0)
  BY DEF HistoryOK, EnvTurn, Empty, Answering
<1> QED BY <1>1, <1>2, ChangedTurn

\* The places of a sequence with one more element in front
LEMMA FirstPlaces ==
    ASSUME NEW T, NEW x \in T, NEW t \in Seq(T)
    PROVE  LET s == <<x>> \o t
           IN /\ s \in Seq(T) /\ Len(s) = 1 + Len(t) /\ s[1] = x
              /\ \A i \in 1 .. Len(t) : s[1 + i] = t[i]
<1> DEFINE one == <<x>>
<1>1. one \in Seq(T) /\ Len(one) = 1 /\ one[1] = x
  OBVIOUS
<1> HIDE DEF one
<1> DEFINE s == one \o t
<1>2. /\ s \in Seq(T) /\ Len(s) = Len(one) + Len(t)
      /\ \A i \in 1 .. Len(one) : s[i] = one[i]
      /\ \A i \in 1 .. Len(t) : s[Len(one) + i] = t[i]
  BY <1>1, ConcatPlaces
<1> HIDE DEF s
<1>3. s \in Seq(T) /\ Len(s) = 1 + Len(t) /\ s[1] = x /\ \A i \in 1 .. Len(t) : s[1 + i] = t[i]
  BY <1>1, <1>2
<1>4. s = <<x>> \o t
  BY Zenon DEF s, one
<1> QED BY <1>3, <1>4, Zenon

\* The turn of the environment in front of a history
LEMMA WithEnvTurn ==
    ASSUME NEW n \in Nat, NEW turns, HistoryOK(turns, n), \A i \in DOMAIN turns : turns[i].id # EnvId
    PROVE  LET new == <<EnvTurn>> \o turns
           IN /\ HistoryOK(new, n)
              /\ \A i \in DOMAIN new : new[i] = EnvTurn \/ \E j \in DOMAIN turns : new[i] = turns[j]
<1> DEFINE new == <<EnvTurn>> \o turns
           k == Len(turns)
<1>1. turns \in Seq(HistoryTurns) /\ Unrepeated(IdsOf(turns)) /\ k \in Nat /\ DOMAIN turns = 1 .. k
  BY DEF HistoryOK
<1>2. EnvTurn \in HistoryTurns /\ EnvTurn.id = EnvId
  BY DEF EnvTurn, HistoryTurns, Contents, Kinds, EnvId, NoCall
<1>4. /\ new \in Seq(HistoryTurns) /\ Len(new) = 1 + k /\ new[1] = EnvTurn
      /\ \A i \in 1 .. k : new[1 + i] = turns[i]
  BY <1>1, <1>2, FirstPlaces
<1>5. new[1] = EnvTurn /\ DOMAIN new = 1 .. 1 + k
  BY <1>1, <1>4
<1> HIDE DEF new
<1>6. ASSUME NEW i \in DOMAIN new, i # 1 PROVE i - 1 \in DOMAIN turns /\ new[i] = turns[i - 1]
  <2>1. i - 1 \in 1 .. k /\ 1 + (i - 1) = i
    BY <1>1, <1>5, <1>6
  <2> QED BY <1>1, <1>4, <2>1
<1>7. Unrepeated(IdsOf(new))
  <2> SUFFICES ASSUME NEW i \in DOMAIN new, NEW j \in DOMAIN new, new[i].id = new[j].id PROVE i = j
    BY DEF Unrepeated, IdsOf
  <2>1. CASE i = 1 \/ j = 1
    BY <1>2, <1>5, <1>6, <2>1
  <2>2. CASE i # 1 /\ j # 1
    <3>1. i - 1 = j - 1
      BY <1>1, <1>6, <2>2 DEF Unrepeated, IdsOf
    <3> QED BY <1>5, <3>1
  <2> QED BY <2>1, <2>2
<1>8. ASSUME NEW i \in DOMAIN new
      PROVE  /\ -n <= new[i].id /\ new[i].id <= n
             /\ new[i].id = EnvId => new[i].content = EnvTurn.content
             /\ new[i].id < 0 => i > 1 /\ new[i - 1].id = -new[i].id /\ Answering(new[i].content)
  <2>1. CASE i = 1
    BY <1>2, <1>5, <2>1 DEF EnvId
  <2>2. CASE i # 1
    <3>1. i - 1 \in DOMAIN turns /\ new[i] = turns[i - 1] /\ i \in Nat /\ i > 1
      BY <1>5, <1>6, <2>2
    <3>2. /\ -n <= new[i].id /\ new[i].id <= n /\ new[i].id # EnvId
          /\ new[i].id < 0 => /\ i - 1 > 1 /\ turns[(i - 1) - 1].id = -new[i].id
                              /\ Answering(new[i].content)
      BY <3>1 DEF HistoryOK
    <3>3. i - 1 > 1 => i - 1 \in DOMAIN new /\ new[i - 1] = turns[(i - 1) - 1]
      <4>1. i - 1 > 1 => i - 1 \in DOMAIN new /\ i - 1 # 1
        BY <1>5, <3>1
      <4> QED BY <1>6, <4>1
    <3> QED BY <3>1, <3>2, <3>3
  <2> QED BY <2>1, <2>2
<1>9. HistoryOK(new, n)
  BY <1>4, <1>7, <1>8 DEF HistoryOK
<1> QED BY <1>5, <1>6, <1>9 DEF new

\* The turns of a history under new ids
LEMMA RenamedTurns ==
    ASSUME lastId \in Nat, NEW turns \in Seq(HistoryTurns)
    PROVE  LET new == Renamed(turns)
           IN /\ HistoryOK(new, lastId + Len(turns)) /\ Len(new) = Len(turns)
              /\ DOMAIN new = DOMAIN turns
              /\ \A i \in DOMAIN turns : new[i] = HistoryTurn(lastId + i, turns[i].content) /\ new[i] \in HistoryTurns
<1> DEFINE new == Renamed(turns)
           k == Len(turns)
<1>1. k \in Nat /\ DOMAIN turns = 1 .. k
  OBVIOUS
<1>2. DOMAIN new = 1 .. k /\ \A i \in 1 .. k : new[i] = HistoryTurn(lastId + i, turns[i].content)
  BY <1>1 DEF Renamed
<1>3. \A i \in 1 .. k : /\ HistoryTurn(lastId + i, turns[i].content) \in HistoryTurns
                        /\ HistoryTurn(lastId + i, turns[i].content).id = lastId + i
  <2>1. \A i \in 1 .. k : turns[i].content \in Contents
    BY <1>1, TurnsIds
  <2> QED BY <2>1 DEF HistoryTurn, HistoryTurns
<1>4. new = [i \in 1 .. k |-> HistoryTurn(lastId + i, turns[i].content)]
  BY <1>1 DEF Renamed
<1>5. new \in Seq(HistoryTurns) /\ Len(new) = k
  <2>1. new \in [1 .. k -> HistoryTurns]
    BY <1>3, <1>4
  <2> HIDE DEF new
  <2> QED BY <1>1, <2>1
<1> HIDE DEF new
<1>6. Unrepeated(IdsOf(new))
  <2> SUFFICES ASSUME NEW i \in DOMAIN new, NEW j \in DOMAIN new, new[i].id = new[j].id PROVE i = j
    BY DEF Unrepeated, IdsOf
  <2>1. lastId + i = lastId + j /\ i \in Nat /\ j \in Nat
    BY <1>1, <1>2, <1>3
  <2> QED BY <2>1
<1>7. HistoryOK(new, lastId + k)
  <2>1. \A i \in DOMAIN new : new[i].id = lastId + i /\ i \in 1 .. k
    BY <1>2, <1>3
  <2>2. \A i \in DOMAIN new : new[i].id <= lastId + k /\ new[i].id > 0 /\ -(lastId + k) <= new[i].id
    BY <1>1, <2>1
  <2> QED BY <1>5, <1>6, <2>1, <2>2 DEF HistoryOK, EnvId
<1> QED BY <1>1, <1>2, <1>3, <1>5, <1>7 DEF new

-----------------------------------------------------------------------------
(* Every turn recorded again                                               *)

\* How far AllRecorded has come
RecordedUpTo(s, turns, f, n) == IF n = 0 THEN s ELSE Recorded(f[n - 1], turns[n])

\* AllRecorded records turn by turn.
LEMMA RecordedSteps ==
    ASSUME NEW turns \in Seq(HistoryTurns), NEW s
    PROVE  \E f : /\ \A n \in 0 .. Len(turns) : f[n] = RecordedUpTo(s, turns, f, n)
                  /\ AllRecorded(s, turns) = f[Len(turns)]
<1> DEFINE Is(f, k) == f = [n \in 0 .. k |-> RecordedUpTo(s, turns, f, n)]
           S == {k \in Nat : \E f : Is(f, k)}
<1>1. 0 \in S
  <2>1. Is([n \in 0 .. 0 |-> s], 0)
    BY DEF RecordedUpTo
  <2> QED BY <2>1
<1>2. ASSUME NEW k \in Nat, k \in S PROVE k + 1 \in S
  <2>1. PICK f : Is(f, k)
    BY <1>2
  <2> DEFINE g == [n \in 0 .. k + 1 |-> IF n <= k THEN f[n] ELSE RecordedUpTo(s, turns, f, n)]
  <2>2. ASSUME NEW n \in 0 .. k + 1 PROVE g[n] = RecordedUpTo(s, turns, g, n)
    <3>1. CASE n <= k
      <4>1. n \in 0 .. k /\ (n # 0 => n - 1 \in 0 .. k /\ n - 1 \in 0 .. k + 1 /\ n - 1 <= k)
        BY <3>1
      <4>2. g[n] = f[n] /\ f[n] = RecordedUpTo(s, turns, f, n) /\ (n # 0 => g[n - 1] = f[n - 1])
        BY <2>1, <3>1, <4>1
      <4> QED BY <4>2 DEF RecordedUpTo
    <3>2. CASE n = k + 1
      <4>1. n - 1 = k /\ k \in 0 .. k + 1 /\ k <= k /\ ~(n <= k)
        BY <3>2
      <4>2. g[n - 1] = f[n - 1] /\ g[n] = RecordedUpTo(s, turns, f, n)
        BY <4>1
      <4> QED BY <4>2 DEF RecordedUpTo
    <3> QED BY <3>1, <3>2
  <2>3. g = [n \in 0 .. k + 1 |-> RecordedUpTo(s, turns, g, n)]
    <3> HIDE DEF g
    <3>1. g = [n \in 0 .. k + 1 |-> g[n]]
      BY DEF g
    <3> QED BY <2>2, <3>1
  <2> HIDE DEF g
  <2>4. Is(g, k + 1)
    BY <2>3
  <2>5. k + 1 \in Nat
    OBVIOUS
  <2> QED BY <2>4, <2>5
<1>3. PICK f : Is(f, Len(turns))
  <2>1. Len(turns) \in Nat
    OBVIOUS
  <2>2. \A k \in 0 .. Len(turns) - 1 : k \in S => k + 1 \in S
    BY <1>2
  <2>3. Len(turns) \in 0 .. Len(turns)
    BY <2>1
  <2> HIDE DEF S
  <2>4. Len(turns) \in S
    BY <1>1, <2>1, <2>2, <2>3, UpTo
  <2> QED BY <2>4 DEF S
<1> DEFINE c == CHOOSE f_1 : Is(f_1, Len(turns))
<1>4. Is(c, Len(turns))
  BY <1>3
<1>5. AllRecorded(s, turns) = c[Len(turns)]
  BY Zenon DEF AllRecorded, RecordedUpTo
<1> HIDE DEF c
<1>6. \A n \in 0 .. Len(turns) : c[n] = RecordedUpTo(s, turns, c, n)
  BY <1>4
<1> QED BY <1>5, <1>6

\* So far as AllRecorded has come, the log has the turns as new messages.
HasRecorded(s, turns, k, log, n, all) ==
    /\ Stands(s, log, all) /\ Within(ToSet(log.ids), n + k)
    /\ \A i \in 1 .. k : /\ turns[i].id \in ToSet(s.order)
                         /\ log.body[turns[i].id] =
                               NewMessage(RecordedType(turns[i].content), turns[i].content)

\* The message that records a turn is a good one.
LEMMA TurnMessage ==
    ASSUME NEW content \in Contents, NEW id \in Int, id > 0
    PROVE  LET m == NewMessage(RecordedType(content), content)
           IN /\ m \in MessageSet /\ GoodMessage(id, m) /\ m.tool = NoCall /\ m.content = content
<1> DEFINE m == NewMessage(RecordedType(content), content)
<1>1. RecordedType(content) \in {"user", "gemini"} /\ Empty \in Contents
  BY DEF RecordedType, Empty, Contents, Kinds, NoCall
<1>2. /\ m \in MessageSet /\ m.tool = NoCall /\ m.content = content
      /\ m.type \in {"user", "gemini"}
  <2> DEFINE type == RecordedType(content)
  <2> HIDE DEF type
  <2>1. type \in {"user", "gemini"}
    BY <1>1 DEF type
  <2>2. m = [type |-> type, content |-> content, tool |-> NoCall, result |-> Empty]
    BY DEF NewMessage, type
  <2> QED BY <1>1, <2>1, <2>2 DEF MessageSet, NoCall
<1> HIDE DEF m
<1>3. GoodMessage(id, m)
  BY <1>2 DEF GoodMessage, EnvId
<1> QED BY <1>2, <1>3 DEF m

\* Recording every turn under a new id: the memory knows the log, and the history
\* can be followed.
LEMMA AllRecordedStands ==
    ASSUME NEW n \in Nat, NEW s, NEW log, Stands(s, log, n), NEW turns \in Seq(HistoryTurns),
           \A i \in DOMAIN turns : turns[i].id = n + i
    PROVE  \E new : /\ Stands(AllRecorded(s, turns), new, n + Len(turns))
                    /\ Follows(turns, new, AllRecorded(s, turns).order)
<1> DEFINE all == n + Len(turns)
<1>0. Len(turns) \in Nat /\ all \in Nat /\ n <= all /\ DOMAIN turns = 1 .. Len(turns)
  OBVIOUS
<1>1. PICK f : /\ \A k \in 0 .. Len(turns) : f[k] = RecordedUpTo(s, turns, f, k)
               /\ AllRecorded(s, turns) = f[Len(turns)]
  BY RecordedSteps
<1> HIDE DEF all
<1> DEFINE P(k) == \E l : HasRecorded(f[k], turns, k, l, n, all)
           S == {k \in Nat : P(k)}
<1>2. 0 \in S
  <2>1. f[0] = s
    BY <1>0, <1>1 DEF RecordedUpTo
  <2>2. Stands(s, log, all)
    BY <1>0, Later
  <2>3. Within(ToSet(log.ids), n + 0)
    BY DEF Stands, Sound
  <2>4. HasRecorded(f[0], turns, 0, log, n, all)
    BY <2>1, <2>2, <2>3 DEF HasRecorded
  <2> QED BY <2>4
<1>3. ASSUME NEW k \in 0 .. Len(turns) - 1, k \in S PROVE k + 1 \in S
  <2>1. PICK l : HasRecorded(f[k], turns, k, l, n, all)
    BY <1>3
  <2> DEFINE before == f[k]
             t == turns[k + 1]
             x == n + (k + 1)
             m == NewMessage(RecordedType(t.content), t.content)
             new == Placed(l, x, m)
             p == Pushed(before, x, m)
  <2>2. /\ k + 1 \in 0 .. Len(turns) /\ k + 1 \in DOMAIN turns /\ (k + 1) - 1 = k /\ k + 1 # 0
        /\ x \in Nat /\ x > 0 /\ x <= all /\ k \in Nat /\ k + 1 \in Nat
    BY <1>0 DEF all
  <2>3. t.id = x /\ t.content \in Contents
    BY <2>2, TurnsIds
  <2>4. f[k + 1] = p
    BY <1>1, <2>2, <2>3 DEF RecordedUpTo, Recorded
  <2>5. m \in MessageSet /\ GoodMessage(x, m) /\ m.tool = NoCall
    BY <2>2, <2>3, TurnMessage
  <2>6. /\ Stands(before, l, all) /\ Within(ToSet(l.ids), n + k) /\ IsLog(l) /\ Indexes(before, l)
        /\ before.order \in Seq(Int)
    BY <2>1 DEF HasRecorded, Stands, Sound, Knows, Indexes
  <2>7. x \notin ToSet(l.ids)
    <3>1. x \in ToSet(l.ids) => x <= n + k
      BY <2>6 DEF Within
    <3> QED BY <2>2, <3>1
  <2>8. NoCall \notin DOMAIN before.results
    BY <2>6 DEF Indexes, ToolsIn
  <2>a. x \in Int /\ 0 <= x
    BY <2>2
  <2> HIDE DEF m, x, before
  <2>9. Stands(p, new, all) /\ p.order = Append(before.order, x)
    <3>1. m.tool \notin DOMAIN before.results
      BY <2>5, <2>8
    <3> QED BY <1>0, <2>2, <2>a, <2>5, <2>6, <2>7, <3>1, PushedNew
  <2>10. Longer(new, l, x, m)
    BY <2>2, <2>5, <2>6, <2>7, PlacedAtEnd
  <2> HIDE DEF new, p
  <2>11. ToSet(p.order) = ToSet(before.order) \cup {x}
    BY <2>a, <2>6, <2>9, AppendOrder
  <2>12. Within(ToSet(new.ids), n + (k + 1))
    <3> SUFFICES ASSUME NEW y \in ToSet(new.ids) PROVE -(n + (k + 1)) <= y /\ y <= n + (k + 1)
      BY DEF Within
    <3>1. CASE y = x
      BY <2>2, <3>1 DEF x
    <3>2. CASE y # x
      <4>1. y \in ToSet(l.ids)
        BY <2>10, <3>2 DEF Longer
      <4>2. y \in Int /\ -(n + k) <= y /\ y <= n + k
        BY <2>6, <4>1, LogDomain DEF Within
      <4> QED BY <2>2, <4>2
    <3> QED BY <3>1, <3>2
  <2>13. ASSUME NEW i \in 1 .. k + 1
         PROVE  /\ turns[i].id \in ToSet(p.order)
                /\ new.body[turns[i].id] = NewMessage(RecordedType(turns[i].content), turns[i].content)
    <3>1. CASE i = k + 1
      BY <2>3, <2>10, <2>11, <3>1 DEF Longer, m
    <3>2. CASE i \in 1 .. k
      <4>1. /\ turns[i].id \in ToSet(before.order)
            /\ l.body[turns[i].id] = NewMessage(RecordedType(turns[i].content), turns[i].content)
        BY <2>1, <3>2 DEF HasRecorded, before
      <4>2. ToSet(before.order) \subseteq ToSet(l.ids)
        BY <2>6, OrderFacts DEF Indexes
      <4> QED BY <2>10, <2>11, <4>1, <4>2 DEF Longer
    <3> QED BY <2>2, <3>1, <3>2
  <2>14. HasRecorded(f[k + 1], turns, k + 1, new, n, all)
    BY <2>4, <2>9, <2>12, <2>13 DEF HasRecorded
  <2> QED BY <2>2, <2>14
<1>4. Len(turns) \in S
  <2>1. \A k \in 0 .. Len(turns) - 1 : k \in S => k + 1 \in S
    BY <1>3
  <2>2. Len(turns) \in 0 .. Len(turns)
    BY <1>0
  <2> HIDE DEF S
  <2> QED BY <1>0, <1>2, <2>1, <2>2, UpTo
<1>5. PICK new : HasRecorded(f[Len(turns)], turns, Len(turns), new, n, all)
  BY <1>4
<1>6. Follows(turns, new, f[Len(turns)].order)
  <2> SUFFICES ASSUME NEW i \in DOMAIN turns PROVE FollowsTurn(turns[i], new, f[Len(turns)].order)
    BY DEF Follows
  <2> DEFINE t == turns[i]
             m == NewMessage(RecordedType(t.content), t.content)
  <2>1. t.id \in ToSet(f[Len(turns)].order) /\ new.body[t.id] = m
    BY <1>0, <1>5 DEF HasRecorded
  <2>2. t.id \in Int /\ t.id > 0 /\ t.content \in Contents
    BY <1>0, TurnsIds
  <2>3. m.content = t.content /\ m.tool = NoCall
    BY <2>2, TurnMessage
  <2> HIDE DEF m
  <2>4. ~(t.id < 0)
    BY <2>2
  <2> QED BY <2>1, <2>3, <2>4 DEF FollowsTurn
<1> QED BY <1>1, <1>5, <1>6 DEF HasRecorded, all

-----------------------------------------------------------------------------
(* The state of the chat, the service and the log between two steps        *)

\* The log ends in a whole record.
Closed == disk = [log |-> disk.log, torn |-> FALSE]

\* While the session is live, the service knows the log and can follow the history.
LiveOK ==
    /\ Closed /\ Knows(recorder, disk.log) /\ recorder.appended = << >>
    /\ HistoryOK(history, lastId) /\ Follows(history, disk.log, recorder.order)
    /\ HasTurns(history, disk.log) /\ Waits(history, disk.log, recorder.order)

\* The turns of the new chat are not on disk yet.
ReopeningOK ==
    /\ Closed /\ Knows(recorder, disk.log) /\ recorder.appended = << >>
    /\ FoundIn(loaded, disk.log) /\ HistoryOK(history, lastId)
    /\ \A i \in DOMAIN history :
          history[i].id = EnvId \/ (history[i].id > 0 /\ history[i].id \notin ToSet(disk.log.ids))

\* A session that is resumed has the history made of its log.
RestartingOK ==
    /\ recorder = NoMemory /\ loaded = disk.log
    /\ HistoryOK(history, lastId) /\ Follows(history, disk.log, disk.log.ids)

\* What every step preserves
SessionOK ==
    /\ recording \in {"live", "reopening", "restarting", "down"}
    /\ sending \in {"no", "message", "response"}
    /\ lastId \in 0 .. MaxIds
    /\ base \in Nat \cup {-1} /\ (sending # "no" => base \in Nat)
    /\ disk.torn \in BOOLEAN
    /\ Sound(disk.log, lastId)
    /\ recording = "live" => LiveOK
    /\ recording = "reopening" => ReopeningOK
    /\ recording = "restarting" => RestartingOK
    /\ recording = "down" => recorder = NoMemory

\* To write nothing is safe.
LEMMA SafeNothing ==
    ASSUME NEW n \in Nat, NEW log, disk = [log |-> log, torn |-> FALSE], Sound(log, n)
    PROVE  Safe(<< >>, log, n)
<1> DEFINE none == << >>
<1>1. none \in Seq({}) /\ Len(none) = 0 /\ ToSet(none) = {} /\ SubSeq(none, 1, 0) = none
  BY DEF ToSet
<1>2. Written(disk, none) = disk
  BY WrittenNothing
<1> HIDE DEF none
<1>3. ASSUME NEW k \in 0 .. Len(none) PROVE Sound(Written(disk, SubSeq(none, 1, k)).log, n)
  <2>1. k = 0
    BY <1>1
  <2>2. SubSeq(none, 1, k) = none
    BY <1>1, <2>1
  <2>3. disk.log = log
    OBVIOUS
  <2>4. Written(disk, SubSeq(none, 1, k)).log = Written(disk, none).log
    BY <2>2
  <2>5. Written(disk, none).log = disk.log
    BY <1>2
  <2> QED BY <2>3, <2>4, <2>5
<1>4. none \in Seq(ToSet(none))
  BY <1>1
<1>5. Safe(none, log, n)
  BY <1>2, <1>3, <1>4 DEF Safe
<1> QED BY <1>5 DEF none

\* Between two steps of a live session the chat and the service are ready.
LEMMA LiveReady ==
    ASSUME lastId \in Nat, Sound(disk.log, lastId), LiveOK
    PROVE  SessionReady(recorder, history, disk.log, lastId)
<1>1. Safe(recorder.appended, disk.log, lastId)
  BY SafeNothing DEF LiveOK, Closed
<1> QED BY <1>1 DEF SessionReady, Stands, LiveOK

\* The memories hold the same.
SameMemory(t, s) ==
    /\ t.window = s.window /\ t.order = s.order /\ t.prints = s.prints
    /\ t.results = s.results /\ t.evicted = s.evicted
\* Knowing the log is a matter of what the memory holds, not of what it writes.
LEMMA KnowsSame ==
    ASSUME NEW s, NEW t, NEW log, Knows(s, log), IsMemory(t), SameMemory(t, s)
    PROVE  Knows(t, log)
<1>1. Indexes(t, log)
  <2>1. t.order = s.order /\ t.prints = s.prints /\ t.results = s.results /\ Indexes(s, log)
    BY DEF SameMemory, Knows
  <2>2. \A c \in DOMAIN s.results : KnowsResult(t, log, c)
    BY <2>1 DEF Indexes, KnowsResult
  <2> QED BY <2>1, <2>2 DEF Indexes
<1> QED BY <1>1 DEF Knows, SameMemory

\* The memory after a step has nothing left to write.
LEMMA FreshMemory ==
    ASSUME NEW s, IsMemory(s)
    PROVE  LET t == [s EXCEPT !.appended = << >>]
           IN IsMemory(t) /\ SameMemory(t, s) /\ t.appended = << >>
<1> DEFINE none == << >>
<1> HIDE DEF none
<1> DEFINE t == [s EXCEPT !.appended = none]
<1>1. s = [window |-> s.window, order |-> s.order, prints |-> s.prints, results |-> s.results,
           evicted |-> s.evicted, appended |-> s.appended]
  BY DEF IsMemory
<1>2. t = [window |-> s.window, order |-> s.order, prints |-> s.prints, results |-> s.results,
           evicted |-> s.evicted, appended |-> none]
  BY <1>1
<1> HIDE DEF t
<1>3. IsMemory(t) /\ SameMemory(t, s) /\ t.appended = none
  BY <1>2 DEF IsMemory, SameMemory
<1> QED BY <1>3 DEF none, t

\* A step that comes to its end leaves the session live.
LEMMA CompletesKeeps ==
    ASSUME NEW n \in Nat, NEW s, NEW turns, NEW log, SessionReady(s, turns, log, n),
           lastId' = n, Completes(s, turns)
    PROVE  LiveOK' /\ Sound(disk.log, lastId)' /\ disk'.torn = FALSE /\ recording' = "live"
<1>1. Written(disk, s.appended) = [log |-> log, torn |-> FALSE]
  BY DEF SessionReady, Stands, Safe
<1>2. disk'.log = log /\ disk'.torn = FALSE /\ disk' = [log |-> disk'.log, torn |-> FALSE]
  BY <1>1 DEF Completes
<1>3. IsMemory(s) /\ Knows(s, log)
  BY DEF SessionReady, Stands, Knows
<1>4. IsMemory(recorder') /\ SameMemory(recorder', s) /\ recorder'.appended = << >>
  BY <1>3, FreshMemory DEF Completes
<1>5. Knows(recorder', log) /\ recorder'.order = s.order
  BY <1>3, <1>4, KnowsSame DEF SameMemory
<1>6. history' = turns /\ recording' = "live"
  BY DEF Completes
<1>7. /\ HistoryOK(turns, n) /\ Follows(turns, log, s.order) /\ HasTurns(turns, log)
      /\ Waits(turns, log, s.order) /\ Sound(log, n)
  BY DEF SessionReady, Stands
<1> QED BY <1>2, <1>4, <1>5, <1>6, <1>7 DEF LiveOK, Closed

\* A step that is cut short leaves a sound log.
LEMMA StopsKeeps ==
    ASSUME ~Misplaces, NEW n \in Nat, NEW s, NEW turns, NEW log, SessionReady(s, turns, log, n),
           lastId' = n, StopsShort(s)
    PROVE  Sound(disk.log, lastId)' /\ disk'.torn \in BOOLEAN /\ recording' = "down" /\ recorder' = NoMemory
<1>1. PICK k \in 0 .. Len(s.appended) - 1, half \in BOOLEAN :
         LET cut == Written(disk, SubSeq(s.appended, 1, k))
         IN /\ MisplacedAfter(s.appended, k) => Misplaces
            /\ disk' = [log |-> cut.log, torn |-> half \/ cut.torn]
  BY DEF StopsShort
<1>2. s.appended \in Seq(ToSet(s.appended))
  BY DEF SessionReady, Stands, Safe
<1>3. k \in 0 .. Len(s.appended)
  BY <1>2
<1> DEFINE cut == Written(disk, SubSeq(s.appended, 1, k))
<1>4. Sound(cut.log, n)
  BY <1>1, <1>3 DEF SessionReady, Stands, Safe
<1> HIDE DEF cut
<1>5. disk' = [log |-> cut.log, torn |-> half \/ cut.torn]
  BY <1>1 DEF cut
<1>6. disk'.log = cut.log /\ disk'.torn \in BOOLEAN
  BY <1>5
<1> QED BY <1>4, <1>6 DEF StopsShort

\* The step of a chat and service that stay ready keeps the session as it is to be,
\* wherever it stops.
LEMMA PerformsKeeps ==
    ASSUME ~Misplaces, NEW n \in 0 .. MaxIds, NEW s, NEW turns, NEW log, SessionReady(s, turns, log, n),
           lastId' = n, Performs(s, turns),
           sending' \in {"no", "message", "response"}, base' \in Nat \cup {-1},
           sending' # "no" => base' \in Nat
    PROVE  SessionOK'
<1>0. n \in Nat
  BY RecordingConstants
<1>1. CASE Completes(s, turns)
  <2>1. LiveOK' /\ Sound(disk.log, lastId)' /\ disk'.torn = FALSE /\ recording' = "live"
    BY <1>0, <1>1, CompletesKeeps
  <2> QED BY <2>1 DEF SessionOK
<1>2. CASE StopsShort(s)
  <2>1. Sound(disk.log, lastId)' /\ disk'.torn \in BOOLEAN /\ recording' = "down" /\ recorder' = NoMemory
    BY <1>0, <1>2, StopsKeeps
  <2> QED BY <2>1 DEF SessionOK
<1> QED BY <1>1, <1>2 DEF Performs

\* recordMessage of a turn leaves the chat and the service ready.
LEMMA RecordTurn ==
    ASSUME NEW n \in Nat, NEW s, NEW turns, NEW log, SessionReady(s, turns, log, n),
           NEW said \in Contents, NEW content \in Contents, said[1] = "call" => content = said
    PROVE  \E new : SessionReady(Recorded(s, HistoryTurn(n + 1, said)),
                          Append(turns, HistoryTurn(n + 1, content)), new, n + 1)
<1> DEFINE m == NewMessage(RecordedType(said), said)
<1>1. m \in MessageSet /\ GoodMessage(n + 1, m) /\ m.tool = NoCall /\ m.content = said
  BY TurnMessage
<1>2. Recorded(s, HistoryTurn(n + 1, said)) = Pushed(s, n + 1, m)
  BY DEF Recorded, HistoryTurn
<1> HIDE DEF m
<1>3. m.content[1] = "call" => content = m.content
  BY <1>1
<1>4. SessionReady(Pushed(s, n + 1, m), Append(turns, HistoryTurn(n + 1, content)), Placed(log, n + 1, m), n + 1)
  BY <1>1, <1>3, PushTurn
<1> QED BY <1>2, <1>4

\* The last turn, when it calls or answers
LEMMA LastTurn ==
    ASSUME NEW n \in Nat, HistoryOK(history, n),
           LastContent[1] = "call" \/ Answering(LastContent)
    PROVE  /\ Len(history) \in DOMAIN history /\ history # << >>
           /\ history[Len(history)].content = LastContent
           /\ LastContent \in Contents
<1>1. history # << >>
  BY DEF LastContent, Empty, Answering
<1>2. history \in Seq(HistoryTurns)
  BY DEF HistoryOK
<1>3. Len(history) \in DOMAIN history /\ LastContent = history[Len(history)].content
  BY <1>1, <1>2 DEF LastContent, Last
<1>4. history[Len(history)] \in HistoryTurns
  BY <1>2, <1>3
<1> QED BY <1>1, <1>3, <1>4 DEF HistoryTurns

\* What was read of the log is still found in it when a notice is added.
LEMMA FoundLonger ==
    ASSUME NEW messages, NEW log, IsLog(log), FoundIn(messages, log), NEW id, NEW m,
           m.type = "info", id \notin ToSet(log.ids), id \in Int,
           NEW new, Longer(new, log, id, m)
    PROVE  FoundIn(messages, new)
<1>1. /\ IsLog(messages) /\ messages.ids \in Seq(Int) /\ Unrepeated(messages.ids)
      /\ new.ids \in Seq(Int) /\ Unrepeated(new.ids)
  BY DEF FoundIn, IsLog, Longer
<1>2. /\ ToSet(messages.ids) \subseteq ToSet(log.ids)
      /\ \A x, y : Precedes(messages.ids, x, y) => Precedes(log.ids, x, y)
  BY <1>1, OrderFacts DEF FoundIn
<1>3. /\ ToSet(messages.ids) \subseteq ToSet(new.ids)
      /\ \A x, y : Precedes(messages.ids, x, y) => Precedes(new.ids, x, y)
  BY <1>2 DEF Longer
<1>4. Only(new.ids, ToSet(messages.ids)) = messages.ids
  BY <1>1, <1>3, OnlyIs
<1>5. \A x \in ToSet(messages.ids) : new.body[x] = messages.body[x]
  BY <1>2 DEF Longer, FoundIn
<1>6. \A x \in ToSet(new.ids) \ ToSet(messages.ids) : new.body[x].type = "info"
  <2> SUFFICES ASSUME NEW x \in ToSet(new.ids), x \notin ToSet(messages.ids) PROVE new.body[x].type = "info"
    OBVIOUS
  <2>1. CASE x = id
    BY <2>1 DEF Longer
  <2>2. CASE x # id
    BY <2>2 DEF Longer, FoundIn
  <2> QED BY <2>1, <2>2
<1> QED BY <1>1, <1>4, <1>5, <1>6 DEF FoundIn

-----------------------------------------------------------------------------
(* Each step of a session                                                  *)

\* The contents that the steps below use
LEMMA SomeContents ==
    /\ Prompt \in Contents /\ Text \in Contents /\ Empty \in Contents
    /\ \A c \in Int : Response(c) \in Contents /\ Answering(Response(c))
    /\ \A c \in Int : c # NoCall => Calling(c) \in Contents
    /\ Text[1] # "call" /\ Empty[1] # "call" /\ Prompt[1] # "call"
    /\ \A c \in Int : Response(c)[1] # "call"
<1>1. Prompt \in Contents /\ Text \in Contents /\ Empty \in Contents
  BY DEF Prompt, Text, Empty, Contents, Kinds, NoCall
<1>2. ASSUME NEW c \in Int PROVE Response(c) \in Contents /\ Answering(Response(c)) /\ Response(c)[1] # "call"
  BY DEF Response, Contents, Kinds, Answering
<1>3. ASSUME NEW c \in Int, c # NoCall PROVE Calling(c) \in Contents
  BY <1>3 DEF Calling, Contents, Kinds
<1>4. Text[1] # "call" /\ Empty[1] # "call" /\ Prompt[1] # "call"
  BY DEF Prompt, Text, Empty
<1> QED BY <1>1, <1>2, <1>3, <1>4

\* What the steps of a live session start from
LEMMA LiveFacts ==
    ASSUME SessionOK, recording = "live"
    PROVE  /\ SessionReady(recorder, history, disk.log, lastId) /\ lastId \in Nat
           /\ HistoryOK(history, lastId) /\ Follows(history, disk.log, recorder.order)
           /\ Stands(recorder, disk.log, lastId) /\ history \in Seq(HistoryTurns)
           /\ Len(history) \in Nat
<1>1. lastId \in Nat /\ Sound(disk.log, lastId) /\ LiveOK
  BY DEF SessionOK
<1>2. SessionReady(recorder, history, disk.log, lastId)
  BY <1>1, LiveReady
<1>3. HistoryOK(history, lastId) /\ history \in Seq(HistoryTurns)
  BY <1>1 DEF LiveOK, HistoryOK
<1> QED BY <1>1, <1>2, <1>3 DEF SessionReady

\* Reply keeps the session as it is to be.
LEMMA ReplyKeeps ==
    ASSUME ~Misplaces, SessionOK, Reply
    PROVE  SessionOK'
<1> DEFINE id == lastId + 1
           Ends(said, content) ==
              Performs(Recorded(recorder, HistoryTurn(id, said)), Append(history, HistoryTurn(id, content)))
<1>1. /\ recording = "live" /\ sending # "no" /\ GivesIds(1) /\ sending' = "no" /\ base' = base
      /\ Ends(Text, Text) \/ Ends(Empty, Calling(id)) \/ Ends(Empty, Empty)
  BY DEF Reply
<1> HIDE DEF Ends
<1>2. SessionReady(recorder, history, disk.log, lastId) /\ lastId \in Nat
  BY <1>1, LiveFacts
<1>3. lastId' = lastId + 1 /\ lastId + 1 \in 0 .. MaxIds
  BY <1>1, <1>2, RecordingConstants DEF GivesIds
<1>4. ASSUME NEW said \in Contents, NEW content \in Contents, said[1] # "call", Ends(said, content)
      PROVE  SessionOK'
  <2>1. PICK new : SessionReady(Recorded(recorder, HistoryTurn(lastId + 1, said)),
                         Append(history, HistoryTurn(lastId + 1, content)), new, lastId + 1)
    BY <1>2, <1>4, RecordTurn
  <2> DEFINE s == Recorded(recorder, HistoryTurn(lastId + 1, said))
             turns == Append(history, HistoryTurn(lastId + 1, content))
  <2>2. SessionReady(s, turns, new, lastId + 1) /\ Performs(s, turns)
    BY <2>1, <1>4 DEF Ends
  <2> HIDE DEF s, turns
  <2>3. sending' \in {"no", "message", "response"} /\ base' \in Nat \cup {-1} /\ sending' = "no"
    BY <1>1 DEF SessionOK
  <2> QED BY <1>3, <2>2, <2>3, PerformsKeeps
<1>5. Calling(id) \in Contents
  <2>1. id \in Int /\ id # NoCall
    BY <1>2 DEF NoCall
  <2> HIDE DEF id
  <2> QED BY <2>1, SomeContents
<1> QED BY <1>1, <1>4, <1>5, SomeContents

\* SendResponse keeps the session as it is to be.
LEMMA SendResponseKeeps ==
    ASSUME ~Misplaces, SessionOK, SendResponse
    PROVE  SessionOK'
<1> DEFINE c == LastContent[2]
           n == lastId
           response == HistoryTurn(n + 1, Response(c))
           acknowledgment == HistoryTurn(n + 2, Text)
           binary == HistoryTurn(n + 3, Prompt)
           recorded == Recorded(recorder, response)
           m == NewMessage("info", Prompt)
           noted == Pushed(Recorded(recorded, acknowledgment), n + 3, m)
           three == history \o <<response, acknowledgment, binary>>
<1>1. /\ recording = "live" /\ LastContent[1] = "call"
      /\ sending' = "response" /\ base' = (IF base = -1 THEN Len(history) ELSE base)
      /\ \/ GivesIds(1) /\ Performs(recorded, Append(history, response))
         \/ GivesIds(3) /\ Performs(noted, three)
  BY DEF SendResponse, HistoryTurn
<1>2. SessionReady(recorder, history, disk.log, n) /\ n \in Nat /\ HistoryOK(history, n) /\ Len(history) \in Nat
      /\ history \in Seq(HistoryTurns)
  BY <1>1, LiveFacts
<1>3. c \in Int
  <2>1. LastContent \in Contents
    BY <1>1, <1>2, LastTurn
  <2> QED BY <2>1 DEF Contents
<1>4. sending' \in {"no", "message", "response"} /\ base' \in Nat
  BY <1>1, <1>2 DEF SessionOK
<1> HIDE DEF c, n
<1>5. Response(c) \in Contents /\ Text \in Contents /\ Prompt \in Contents
      /\ Response(c)[1] # "call" /\ Text[1] # "call" /\ Prompt[1] # "call"
  BY <1>3, SomeContents
<1>6. PICK log1 : SessionReady(recorded, Append(history, response), log1, n + 1)
  BY <1>2, <1>5, RecordTurn
<1>7. CASE GivesIds(1) /\ Performs(recorded, Append(history, response))
  <2>1. lastId' = n + 1 /\ n + 1 \in 0 .. MaxIds
    BY <1>2, <1>7, RecordingConstants DEF GivesIds, n
  <2> DEFINE turns == Append(history, response)
  <2> HIDE DEF recorded, response, turns
  <2>2. SessionReady(recorded, turns, log1, n + 1) /\ Performs(recorded, turns)
    BY <1>6, <1>7 DEF turns
  <2> QED BY <1>4, <2>1, <2>2, PerformsKeeps
<1>8. CASE GivesIds(3) /\ Performs(noted, three)
  <2>0. n + 1 \in Nat /\ n + 2 \in Nat /\ (n + 1) + 1 = n + 2 /\ (n + 2) + 1 = n + 3 /\ n + 3 > 0 /\ n + 3 \in Int
    BY <1>2
  <2>1. lastId' = n + 3 /\ n + 3 \in 0 .. MaxIds
    BY <1>2, <1>8, RecordingConstants DEF GivesIds, n
  <2> DEFINE one == Append(history, response)
             two == Append(one, acknowledgment)
             all == Append(two, binary)
             twice == Recorded(recorded, acknowledgment)
  <2>2. PICK log2 : SessionReady(twice, two, log2, n + 2)
    <3> HIDE DEF recorded, response, one
    <3>1. SessionReady(recorded, one, log1, n + 1)
      BY <1>6 DEF one
    <3>2. \E new : SessionReady(Recorded(recorded, HistoryTurn((n + 1) + 1, Text)),
                         Append(one, HistoryTurn((n + 1) + 1, Text)), new, (n + 1) + 1)
      BY <1>5, <2>0, <3>1, RecordTurn
    <3> QED BY <2>0, <3>2
  <2>3. m \in MessageSet /\ m.tool = NoCall /\ m.content = Prompt /\ m.type = "info"
    BY <1>5, SomeContents DEF NewMessage, MessageSet, NoCall
  <2>4. GoodMessage(n + 3, m)
    <3> HIDE DEF m
    <3> QED BY <2>0, <2>3 DEF GoodMessage, EnvId, NoCall
  <2>5. SessionReady(noted, all, Placed(log2, n + 3, m), n + 3)
    <3> HIDE DEF recorded, response, two, twice, m
    <3>1. SessionReady(Pushed(twice, (n + 2) + 1, m), Append(two, HistoryTurn((n + 2) + 1, Prompt)),
                Placed(log2, (n + 2) + 1, m), (n + 2) + 1)
      BY <1>5, <2>0, <2>2, <2>3, <2>4, PushTurn
    <3>2. Pushed(twice, n + 3, m) = noted
      BY DEF twice
    <3> QED BY <2>0, <3>1, <3>2
  <2>6. three = all
    <3>1. response \in HistoryTurns /\ acknowledgment \in HistoryTurns /\ binary \in HistoryTurns
      BY <1>2, <1>5 DEF HistoryTurn, HistoryTurns
    <3> HIDE DEF response, acknowledgment, binary
    <3> QED BY <1>2, <3>1
  <2> HIDE DEF noted, three, all
  <2>7. Performs(noted, all)
    BY <1>8, <2>6
  <2> QED BY <1>4, <2>1, <2>5, <2>7, PerformsKeeps
<1> QED BY <1>1, <1>7, <1>8

\* The message of a notice is a good one.
LEMMA NoticeMessage ==
    ASSUME NEW id \in Int, id > 0
    PROVE  LET m == NewMessage("info", Text)
           IN m \in MessageSet /\ GoodMessage(id, m) /\ m.tool = NoCall /\ m.type = "info"
<1> DEFINE m == NewMessage("info", Text)
<1>1. m \in MessageSet /\ m.tool = NoCall /\ m.type = "info"
  BY SomeContents DEF NewMessage, MessageSet, NoCall
<1> HIDE DEF m
<1>2. GoodMessage(id, m)
  BY <1>1 DEF GoodMessage, EnvId
<1> QED BY <1>1, <1>2 DEF m

\* Notice keeps the session as it is to be.
LEMMA NoticeKeeps ==
    ASSUME ~Misplaces, SessionOK, Notice
    PROVE  SessionOK'
<1> DEFINE n == lastId
           m == NewMessage("info", Text)
           noted == Pushed(recorder, n + 1, m)
<1>1. /\ GivesIds(1) /\ UNCHANGED <<loaded, sending, base>>
      /\ \/ recording = "live" /\ Performs(noted, history)
         \/ /\ recording = "reopening" /\ disk' = Written(disk, noted.appended)
            /\ recorder' = [noted EXCEPT !.appended = << >>] /\ UNCHANGED <<recording, history>>
  BY DEF Notice
<1>2. n \in Nat /\ n + 1 \in Nat /\ n <= n + 1
  BY DEF SessionOK
<1>3. lastId' = n + 1 /\ n + 1 \in 0 .. MaxIds
  BY <1>1, <1>2, RecordingConstants DEF GivesIds
<1>4. /\ m \in MessageSet /\ GoodMessage(n + 1, m) /\ m.tool = NoCall /\ m.type = "info"
  BY <1>2, NoticeMessage
<1> HIDE DEF m
<1>5. CASE recording = "live" /\ Performs(noted, history)
  <2>1. SessionReady(recorder, history, disk.log, n)
    BY <1>5, LiveFacts
  <2>2. NoCall \notin DOMAIN recorder.results
    BY <2>1 DEF SessionReady, Stands, Knows, Indexes, ToolsIn
  <2>3. SessionReady(noted, history, Placed(disk.log, n + 1, m), n + 1)
    <3> HIDE DEF n
    <3>1. m.tool \notin DOMAIN recorder.results /\ m.type # "gemini"
      BY <1>4, <2>2
    <3> QED BY <1>2, <1>4, <2>1, <3>1, PushBehind
  <2>4. sending' \in {"no", "message", "response"} /\ base' \in Nat \cup {-1} /\ (sending' # "no" => base' \in Nat)
    BY <1>1 DEF SessionOK
  <2> HIDE DEF noted
  <2> QED BY <1>3, <1>5, <2>3, <2>4, PerformsKeeps
<1>6. CASE /\ recording = "reopening" /\ disk' = Written(disk, noted.appended)
           /\ recorder' = [noted EXCEPT !.appended = << >>] /\ UNCHANGED <<recording, history>>
  <2> DEFINE new == Placed(disk.log, n + 1, m)
  <2>1. ReopeningOK /\ Sound(disk.log, n)
    BY <1>6 DEF SessionOK
  <2>2. Stands(recorder, disk.log, n)
    BY <1>2, <2>1, SafeNothing DEF ReopeningOK, Stands, Closed
  <2>3. Stands(recorder, disk.log, n + 1) /\ HistoryOK(history, n + 1)
    BY <1>2, <2>1, <2>2, Later DEF ReopeningOK
  <2>4. n + 1 \notin ToSet(disk.log.ids) /\ IsLog(disk.log)
    <3>1. n + 1 \in ToSet(disk.log.ids) => n + 1 <= n
      BY <2>1 DEF Sound, Within
    <3> QED BY <1>2, <2>1, <3>1 DEF Sound
  <2>5. Stands(noted, new, n + 1)
    <3>1. NoCall \notin DOMAIN recorder.results
      BY <2>2 DEF Stands, Knows, Indexes, ToolsIn
    <3>2. m.tool \notin DOMAIN recorder.results /\ 0 <= n + 1 /\ n + 1 <= n + 1 /\ n + 1 \in Int
      BY <1>2, <1>4, <3>1
    <3> HIDE DEF n
    <3> QED BY <1>2, <1>4, <2>3, <2>4, <3>2, PushedNew
  <2>6. Longer(new, disk.log, n + 1, m)
    BY <1>2, <1>4, <2>4, PlacedAtEnd
  <2> HIDE DEF noted, new
  <2>7. disk' = [log |-> new, torn |-> FALSE] /\ Sound(new, n + 1) /\ Knows(noted, new) /\ IsMemory(noted)
    BY <1>6, <2>5 DEF Stands, Safe, Knows
  <2>8. disk'.log = new /\ disk'.torn = FALSE /\ Closed'
    BY <2>7 DEF Closed
  <2>9. Knows(recorder', new) /\ recorder'.appended = << >>
    <3>1. IsMemory(recorder') /\ SameMemory(recorder', noted) /\ recorder'.appended = << >>
      BY <1>6, <2>7, FreshMemory
    <3> QED BY <2>7, <3>1, KnowsSame
  <2>10. FoundIn(loaded, new)
    <3>1. FoundIn(loaded, disk.log)
      BY <2>1 DEF ReopeningOK
    <3> QED BY <1>2, <1>4, <2>4, <2>6, <3>1, FoundLonger
  <2>11. ASSUME NEW i \in DOMAIN history
         PROVE  history[i].id = EnvId \/ (history[i].id > 0 /\ history[i].id \notin ToSet(new.ids))
    <3>1. history[i].id = EnvId \/ (history[i].id > 0 /\ history[i].id \notin ToSet(disk.log.ids))
      BY <2>1 DEF ReopeningOK
    <3>2. history[i].id \in Int /\ history[i].id <= n
      BY <2>1, TurnsIds DEF ReopeningOK, HistoryOK
    <3>3. history[i].id # n + 1
      BY <1>2, <3>2
    <3> QED BY <2>6, <3>1, <3>3 DEF Longer
  <2>12. ReopeningOK'
    BY <1>1, <1>3, <1>6, <2>3, <2>8, <2>9, <2>10, <2>11 DEF ReopeningOK
  <2>13. Sound(disk.log, lastId)' /\ disk'.torn \in BOOLEAN
    BY <1>3, <2>7, <2>8
  <2> QED BY <1>1, <1>3, <1>6, <2>12, <2>13 DEF SessionOK
<1> QED BY <1>1, <1>5, <1>6

\* A step that follows a history it may follow keeps the session as it is to be.
LEMMA FollowingKeeps ==
    ASSUME ~Misplaces, NEW n \in 0 .. MaxIds, NEW s, NEW log, Stands(s, log, n),
           NEW turns, HistoryOK(turns, n), Follows(turns, log, s.order),
           lastId' = n, Performs(FollowingHistory(s, turns), turns),
           sending' \in {"no", "message", "response"}, base' \in Nat \cup {-1},
           sending' # "no" => base' \in Nat
    PROVE  SessionOK'
<1> DEFINE h == FollowingHistory(s, turns)
<1>1. n \in Nat
  BY RecordingConstants
<1>2. SessionReady(h, turns, LogFollowing(s, turns, log), n)
  BY <1>1, FollowingReady
<1> HIDE DEF h
<1>3. Performs(h, turns)
  BY DEF h
<1> QED BY <1>2, <1>3, PerformsKeeps

\* SendFails keeps the session as it is to be.
LEMMA SendFailsKeeps ==
    ASSUME ~Misplaces, SessionOK, SendFails
    PROVE  SessionOK'
<1> DEFINE kept == IF base <= Len(history) THEN SubSeq(history, 1, base) ELSE history
<1>1. /\ recording = "live" /\ sending # "no" /\ sending' = "no" /\ UNCHANGED <<loaded, lastId>>
      /\ \/ Performs(FollowingHistory(recorder, kept), kept) /\ base' = -1
         \/ Completes(recorder, history) /\ base' = base
  BY DEF SendFails
<1>2. /\ SessionReady(recorder, history, disk.log, lastId) /\ lastId \in Nat /\ HistoryOK(history, lastId)
      /\ Follows(history, disk.log, recorder.order) /\ Stands(recorder, disk.log, lastId)
      /\ Len(history) \in Nat
  BY <1>1, LiveFacts
<1>3. base \in Nat /\ lastId \in 0 .. MaxIds /\ lastId' = lastId
  BY <1>1 DEF SessionOK
<1>4. HistoryOK(kept, lastId) /\ Follows(kept, disk.log, recorder.order)
  <2>1. CASE base <= Len(history)
    <3>1. base \in 0 .. Len(history)
      BY <1>2, <1>3, <2>1
    <3> QED BY <1>2, <2>1, <3>1, PrefixTurns
  <2>2. CASE ~(base <= Len(history))
    BY <1>2, <2>2
  <2> QED BY <2>1, <2>2
<1> HIDE DEF kept
<1>5. sending' \in {"no", "message", "response"} /\ sending' = "no"
  BY <1>1
<1>6. CASE Performs(FollowingHistory(recorder, kept), kept) /\ base' = -1
  <2>1. base' \in Nat \cup {-1}
    BY <1>6
  <2> QED BY <1>2, <1>3, <1>4, <1>5, <1>6, <2>1, FollowingKeeps
<1>7. CASE Completes(recorder, history) /\ base' = base
  <2>1. Performs(recorder, history)
    BY <1>7 DEF Performs
  <2>2. base' \in Nat \cup {-1}
    BY <1>3, <1>7
  <2> QED BY <1>2, <1>3, <1>5, <2>1, <2>2, PerformsKeeps
<1> QED BY <1>1, <1>6, <1>7

\* ToolCompletes keeps the session as it is to be.
LEMMA ToolCompletesKeeps ==
    ASSUME ~Misplaces, SessionOK, ToolCompletes
    PROVE  SessionOK'
<1> DEFINE c == LastContent[2]
           n == IF AttachesTools(recorder) THEN lastId ELSE lastId + 1
           s == ToolRecorded(recorder, c, lastId + 1)
<1>1. /\ recording = "live" /\ LastContent[1] = "call" /\ c \notin DOMAIN recorder.results
      /\ IF AttachesTools(recorder) THEN UNCHANGED lastId ELSE GivesIds(1)
      /\ Performs(s, history) /\ UNCHANGED <<loaded, sending, base>>
  BY DEF ToolCompletes
<1>2. SessionReady(recorder, history, disk.log, lastId) /\ lastId \in Nat /\ HistoryOK(history, lastId)
  BY <1>1, LiveFacts
<1>3. /\ Len(history) \in DOMAIN history
      /\ history[Len(history)].content = LastContent
  BY <1>1, <1>2, LastTurn
<1>4. lastId' = n /\ n \in 0 .. MaxIds
  <2>1. CASE AttachesTools(recorder)
    BY <1>1, <2>1 DEF SessionOK
  <2>2. CASE ~AttachesTools(recorder)
    BY <1>1, <1>2, <2>2, RecordingConstants DEF GivesIds
  <2> QED BY <2>1, <2>2
<1>5. PICK new : SessionReady(s, history, new, n)
  <2> DEFINE d == history[Len(history)].content[2]
  <2>1. d = c /\ history[Len(history)].content[1] = "call"
    BY <1>1, <1>3
  <2>2. \E new : SessionReady(ToolRecorded(recorder, d, lastId + 1), history, new, n)
    <3>1. d \notin DOMAIN recorder.results
      BY <1>1, <2>1
    <3> QED BY <1>2, <1>3, <2>1, <3>1, ToolRecordedReady
  <2> HIDE DEF c, d, n
  <2> QED BY <2>1, <2>2
<1>6. sending' \in {"no", "message", "response"} /\ base' \in Nat \cup {-1} /\ (sending' # "no" => base' \in Nat)
  BY <1>1 DEF SessionOK
<1> HIDE DEF s, n
<1> QED BY <1>1, <1>4, <1>5, <1>6, PerformsKeeps

\* DiscardCalls keeps the session as it is to be.
LEMMA DiscardCallsKeeps ==
    ASSUME ~Misplaces, SessionOK, DiscardCalls
    PROVE  SessionOK'
<1> DEFINE kept == SubSeq(history, 1, Len(history) - 1)
<1>1. /\ recording = "live" /\ LastContent[1] = "call"
      /\ Performs(FollowingHistory(recorder, Front(history)), Front(history))
      /\ UNCHANGED <<loaded, sending, base, lastId>>
  BY DEF DiscardCalls
<1>2. /\ lastId \in Nat /\ HistoryOK(history, lastId)
      /\ Follows(history, disk.log, recorder.order) /\ Stands(recorder, disk.log, lastId)
      /\ Len(history) \in Nat
  BY <1>1, LiveFacts
<1>3. Front(history) = kept /\ Len(history) - 1 \in 0 .. Len(history)
  <2>1. Len(history) \in DOMAIN history /\ history \in Seq(HistoryTurns)
    BY <1>1, <1>2, LastTurn DEF HistoryOK
  <2> QED BY <2>1 DEF Front
<1>4. HistoryOK(kept, lastId) /\ Follows(kept, disk.log, recorder.order)
  BY <1>2, <1>3, PrefixTurns
<1> HIDE DEF kept
<1>5. lastId \in 0 .. MaxIds /\ lastId' = lastId /\ Performs(FollowingHistory(recorder, kept), kept)
  BY <1>1, <1>3 DEF SessionOK
<1>6. sending' \in {"no", "message", "response"} /\ base' \in Nat \cup {-1} /\ (sending' # "no" => base' \in Nat)
  BY <1>1 DEF SessionOK
<1> QED BY <1>2, <1>4, <1>5, <1>6, FollowingKeeps

\* CollapseResponse keeps the session as it is to be.
LEMMA CollapseResponseKeeps ==
    ASSUME ~Misplaces, SessionOK, CollapseResponse
    PROVE  SessionOK'
<1>1. /\ recording = "live" /\ UNCHANGED <<loaded, sending, base, lastId>>
  BY DEF CollapseResponse
<1>2. PICK i \in DOMAIN history :
         /\ history[i].content[1] = "response"
         /\ Performs(FollowingHistory(recorder, MaskedAt(history, i)), MaskedAt(history, i))
  BY DEF CollapseResponse
<1> DEFINE turns == MaskedAt(history, i)
<1>3. /\ lastId \in Nat /\ HistoryOK(history, lastId)
      /\ Follows(history, disk.log, recorder.order) /\ Stands(recorder, disk.log, lastId)
  BY <1>1, LiveFacts
<1>4. HistoryOK(turns, lastId) /\ Follows(turns, disk.log, recorder.order)
  BY <1>2, <1>3, MaskedTurn
<1> HIDE DEF turns
<1>5. lastId \in 0 .. MaxIds /\ lastId' = lastId /\ Performs(FollowingHistory(recorder, turns), turns)
  BY <1>1, <1>2 DEF SessionOK, turns
<1>6. sending' \in {"no", "message", "response"} /\ base' \in Nat \cup {-1} /\ (sending' # "no" => base' \in Nat)
  BY <1>1 DEF SessionOK
<1> QED BY <1>3, <1>4, <1>5, <1>6, FollowingKeeps

\* MaskResponses keeps the session as it is to be.
LEMMA MaskResponsesKeeps ==
    ASSUME ~Misplaces, SessionOK, MaskResponses
    PROVE  SessionOK'
<1>1. /\ recording = "live" /\ GivesIds(Len(history)) /\ UNCHANGED <<loaded, sending, base>>
  BY DEF MaskResponses
<1>2. PICK i \in DOMAIN history :
         LET turns == Renamed(MaskedAt(history, i))
         IN /\ history[i].content[1] = "response"
            /\ Performs(FollowingHistory(AllRecorded(recorder, turns), turns), turns)
  BY DEF MaskResponses
<1> DEFINE masked == MaskedAt(history, i)
           turns == Renamed(masked)
           n == lastId + Len(history)
           s == AllRecorded(recorder, turns)
<1>3. /\ lastId \in Nat /\ HistoryOK(history, lastId) /\ Stands(recorder, disk.log, lastId)
      /\ Len(history) \in Nat
  BY <1>1, LiveFacts
<1>4. masked \in Seq(HistoryTurns) /\ Len(masked) = Len(history)
  BY <1>2, <1>3, MaskedTurn
<1>5. Performs(FollowingHistory(s, turns), turns)
  BY <1>2
<1> HIDE DEF masked
<1>6. /\ HistoryOK(turns, lastId + Len(masked)) /\ Len(turns) = Len(masked)
      /\ DOMAIN turns = DOMAIN masked
      /\ \A j \in DOMAIN masked : turns[j] = HistoryTurn(lastId + j, masked[j].content)
  BY <1>3, <1>4, RenamedTurns
<1> HIDE DEF turns
<1>7. turns \in Seq(HistoryTurns) /\ \A j \in DOMAIN turns : turns[j].id = lastId + j
  BY <1>6 DEF HistoryOK, HistoryTurn
<1>8. PICK new : Stands(s, new, lastId + Len(turns)) /\ Follows(turns, new, s.order)
  BY <1>3, <1>7, AllRecordedStands
<1> HIDE DEF s
<1>9. n \in 0 .. MaxIds /\ lastId' = n
  BY <1>1, <1>3, RecordingConstants DEF GivesIds
<1>10. HistoryOK(turns, n) /\ Stands(s, new, n)
  BY <1>4, <1>6, <1>8
<1>11. sending' \in {"no", "message", "response"} /\ base' \in Nat \cup {-1} /\ (sending' # "no" => base' \in Nat)
  BY <1>1 DEF SessionOK
<1> HIDE DEF n
<1> QED BY <1>5, <1>8, <1>9, <1>10, <1>11, FollowingKeeps

\* Nothing added to a sequence
LEMMA ConcatNothing ==
    ASSUME NEW T, NEW t \in Seq(T)
    PROVE  Same(t \o << >>, t)
  BY DEF Same

\* One element added to a sequence
LEMMA ConcatOne ==
    ASSUME NEW T, NEW t \in Seq(T), NEW x \in T
    PROVE  Same(t \o <<x>>, Append(t, x))
<1> DEFINE none == << >>
           one == <<x>>
<1>1. none \in Seq(T) /\ one = Append(none, x)
  OBVIOUS
<1>2. Same(t \o Append(none, x), Append(t \o none, x))
  <2> HIDE DEF none
  <2> QED BY <1>1, ConcatAppend
<1>3. t \o none = t
  BY ConcatNothing DEF Same
<1> HIDE DEF none, one
<1>4. Same(t \o one, Append(t, x))
  BY <1>1, <1>2, <1>3, Zenon DEF Same
<1> QED BY <1>4 DEF one

\* The prompt, recorded behind what SendMessage has closed, keeps the session as it
\* is to be.
LEMMA PromptKeeps ==
    ASSUME ~Misplaces, NEW n \in Nat, n + 1 <= MaxIds, lastId' = n + 1,
           NEW s, NEW turns, NEW log, SessionReady(s, turns, log, n),
           NEW all, all = Append(turns, HistoryTurn(n + 1, Prompt)),
           Performs(Recorded(s, HistoryTurn(n + 1, Prompt)), all),
           sending' = "message", base' \in Nat
    PROVE  SessionOK'
<1> DEFINE r == Recorded(s, HistoryTurn(n + 1, Prompt))
           t == Append(turns, HistoryTurn(n + 1, Prompt))
<1>1. PICK new : SessionReady(r, t, new, n + 1)
  BY SomeContents, RecordTurn
<1> HIDE DEF r, t
<1>2. Performs(r, t)
  BY DEF r, t
<1>3. n + 1 \in 0 .. MaxIds
  BY RecordingConstants
<1>4. sending' \in {"no", "message", "response"} /\ base' \in Nat \cup {-1}
  OBVIOUS
<1> QED BY <1>1, <1>2, <1>3, <1>4, PerformsKeeps

\* SendMessage keeps the session as it is to be.
LEMMA SendMessageKeeps ==
    ASSUME ~Misplaces, SessionOK, SendMessage
    PROVE  SessionOK'
<1> DEFINE calls == LastContent[1] = "call"
           answer == HistoryTurn(lastId + 1, Response(LastContent[2]))
           answered == IF calls THEN <<answer>> ELSE << >>
           ends == calls \/ Answering(LastContent)
           placeholder == IF ends THEN <<HistoryTurn(lastId + 1 + Len(answered), Text)>> ELSE << >>
           prompt == HistoryTurn(lastId + 1 + Len(answered \o placeholder), Prompt)
           fills == /\ Len(history) > 1 /\ LastContent = Empty
                    /\ Answering(history[Len(history) - 1].content)
           filled == IF fills THEN [history EXCEPT ![Len(history)].content = Text] ELSE history
           afterFill == IF fills THEN FollowingHistory(recorder, filled) ELSE recorder
           afterAnswer == IF calls THEN Recorded(afterFill, answer) ELSE afterFill
           n == lastId
<1>1. /\ recording = "live" /\ GivesIds(1 + Len(answered \o placeholder))
      /\ sending' = "message" /\ base' = Len(history)
      /\ Performs(Recorded(afterAnswer, prompt), filled \o answered \o placeholder \o <<prompt>>)
  BY DEF SendMessage
<1>2. /\ SessionReady(recorder, history, disk.log, n) /\ n \in Nat /\ HistoryOK(history, n)
      /\ Follows(history, disk.log, recorder.order) /\ Stands(recorder, disk.log, n)
      /\ history \in Seq(HistoryTurns) /\ Len(history) \in Nat
  BY <1>1, LiveFacts
<1>3. base' \in Nat
  BY <1>1, <1>2
<1>4. n + 1 \in Nat /\ n + 2 \in Nat /\ (n + 1) + 1 = n + 2 /\ (n + 2) + 1 = n + 3
  BY <1>2
<1> HIDE DEF n
<1>5. CASE calls
  <2>1. ~fills /\ ends
    BY <1>5 DEF Empty
  <2> DEFINE wait == HistoryTurn(n + 2, Text)
             one == Append(history, answer)
             two == Append(one, wait)
  <2>2. filled = history /\ afterAnswer = Recorded(recorder, answer)
    BY <1>5, <2>1
  <2>3. answered = <<answer>> /\ Len(answered) = 1
    BY <1>5
  <2>4. placeholder = <<wait>> /\ Len(answered \o placeholder) = 2
    <3>1. lastId + 1 + Len(answered) = n + 2
      BY <1>2, <2>3 DEF n
    <3>2. placeholder = <<wait>>
      BY <2>1, <3>1
    <3>3. Len(<<answer>> \o <<wait>>) = 2
      OBVIOUS
    <3> HIDE DEF answered, placeholder
    <3> QED BY <2>3, <3>2, <3>3
  <2>5. prompt = HistoryTurn(n + 3, Prompt) /\ lastId' = n + 3 /\ n + 3 <= MaxIds
    <3> HIDE DEF answered, placeholder
    <3> QED BY <1>1, <1>2, <2>4 DEF GivesIds, n
  <2>6. LastContent[2] \in Int
    <3>1. LastContent \in Contents
      BY <1>2, <1>5, LastTurn
    <3> QED BY <3>1 DEF Contents
  <2>7. PICK log1 : SessionReady(Recorded(recorder, answer), one, log1, n + 1)
    <3>1. Response(LastContent[2]) \in Contents /\ Response(LastContent[2])[1] # "call"
      BY <2>6, SomeContents
    <3> QED BY <1>2, <3>1, RecordTurn DEF n
  <2>8. /\ answer \in HistoryTurns /\ wait \in HistoryTurns /\ HistoryTurn(n + 3, Prompt) \in HistoryTurns
        /\ Answering(answer.content)
    BY <1>2, <2>6, SomeContents DEF HistoryTurn, HistoryTurns, n
  <2> DEFINE s == Recorded(recorder, answer)
             last == HistoryTurn(n + 3, Prompt)
  <2> HIDE DEF answer, wait, answered, placeholder, prompt, filled, afterAnswer, last
  <2>9. /\ one \in Seq(HistoryTurns) /\ one # << >> /\ Len(one) = Len(history) + 1
        /\ one[Len(one)] = answer /\ two \in Seq(HistoryTurns)
    BY <1>2, <2>8
  <2>10. SessionReady(s, two, log1, n + 2)
    <3> HIDE DEF one, s
    <3>1. SessionReady(s, one, log1, n + 1)
      BY <2>7 DEF s
    <3>2. SessionReady(s, Append(one, HistoryTurn((n + 1) + 1, Text)), log1, (n + 1) + 1)
      BY <1>4, <2>8, <2>9, <3>1, WaitTurn
    <3> QED BY <1>4, <3>2 DEF wait
  <2>11. filled \o answered \o placeholder \o <<prompt>> = Append(two, last)
    <3>1. history \o <<answer>> = one
      BY <1>2, <2>8, ConcatOne DEF Same
    <3>2. one \o <<wait>> = two
      <4> HIDE DEF one
      <4> QED BY <2>8, <2>9, ConcatOne DEF Same
    <3>3. two \o <<last>> = Append(two, last)
      <4> HIDE DEF two
      <4>1. last \in HistoryTurns
        BY <2>8 DEF last
      <4> QED BY <2>9, <4>1, ConcatOne DEF Same
    <3>4. prompt = last
      BY <2>5 DEF last
    <3> HIDE DEF one, two
    <3> QED BY <2>2, <2>3, <2>4, <3>1, <3>2, <3>3, <3>4, Zenon
  <2>12. Performs(Recorded(s, HistoryTurn(n + 3, Prompt)), Append(two, HistoryTurn(n + 3, Prompt)))
    <3> DEFINE joined == filled \o answered \o placeholder \o <<prompt>>
    <3>1. Performs(Recorded(afterAnswer, prompt), joined)
      BY <1>1
    <3>2. joined = Append(two, last)
      BY <2>11
    <3> HIDE DEF joined, two, s
    <3>3. afterAnswer = s /\ prompt = last
      BY <2>2, <2>5 DEF s, last
    <3> QED BY <3>1, <3>2, <3>3 DEF last
  <2> HIDE DEF two, s
  <2> DEFINE all == Append(two, HistoryTurn(n + 3, Prompt))
  <2>13. lastId' = (n + 2) + 1 /\ (n + 2) + 1 <= MaxIds /\ n + 3 = (n + 2) + 1 /\ sending' = "message"
    BY <1>1, <1>4, <2>5
  <2>14. Performs(Recorded(s, HistoryTurn((n + 2) + 1, Prompt)), all)
         /\ all = Append(two, HistoryTurn((n + 2) + 1, Prompt))
    BY <2>12, <2>13
  <2> HIDE DEF all
  <2> QED BY <1>3, <1>4, <2>10, <2>13, <2>14, PromptKeeps
<1>6. CASE ~calls /\ Answering(LastContent)
  <2>1. ~fills /\ ends
    BY <1>6 DEF Empty, Answering
  <2> DEFINE wait == HistoryTurn(n + 1, Text)
             one == Append(history, wait)
             last == HistoryTurn(n + 2, Prompt)
  <2>2. filled = history /\ afterAnswer = recorder
    BY <1>6, <2>1
  <2>3. answered = << >> /\ Len(answered) = 0
    BY <1>6
  <2>4. placeholder = <<wait>> /\ Len(answered \o placeholder) = 1
    <3>1. lastId + 1 + Len(answered) = n + 1
      BY <1>2, <2>3 DEF n
    <3>2. placeholder = <<wait>>
      BY <2>1, <3>1
    <3>3. Len(<< >> \o <<wait>>) = 1
      OBVIOUS
    <3> HIDE DEF answered, placeholder
    <3> QED BY <2>3, <3>2, <3>3
  <2>5. prompt = last /\ lastId' = n + 2 /\ n + 2 <= MaxIds
    <3> HIDE DEF answered, placeholder
    <3> QED BY <1>1, <1>2, <2>4 DEF GivesIds, n
  <2>6. history # << >> /\ Answering(history[Len(history)].content)
    BY <1>2, <1>6, LastTurn
  <2>7. SessionReady(recorder, one, disk.log, n + 1)
    BY <1>2, <2>6, WaitTurn
  <2>8. wait \in HistoryTurns /\ last \in HistoryTurns
    BY <1>2, SomeContents DEF HistoryTurn, HistoryTurns
  <2> HIDE DEF wait, last, answered, placeholder, prompt, filled, afterAnswer
  <2>9. one \in Seq(HistoryTurns)
    BY <1>2, <2>8
  <2>10. filled \o answered \o placeholder \o <<prompt>> = Append(one, last)
    <3>1. history \o << >> = history
      BY <1>2, ConcatNothing DEF Same
    <3>2. history \o <<wait>> = one
      BY <1>2, <2>8, ConcatOne DEF Same
    <3> HIDE DEF one
    <3>3. one \o <<last>> = Append(one, last)
      BY <2>8, <2>9, ConcatOne DEF Same
    <3> QED BY <2>2, <2>3, <2>4, <2>5, <3>1, <3>2, <3>3, Zenon
  <2>11. Performs(Recorded(recorder, last), Append(one, last))
    <3> DEFINE joined == filled \o answered \o placeholder \o <<prompt>>
    <3>1. Performs(Recorded(afterAnswer, prompt), joined)
      BY <1>1
    <3>2. joined = Append(one, last)
      BY <2>10
    <3> HIDE DEF joined, one
    <3> QED BY <2>2, <2>5, <3>1, <3>2
  <2> HIDE DEF one
  <2> DEFINE all == Append(one, last)
  <2>12. lastId' = (n + 1) + 1 /\ (n + 1) + 1 <= MaxIds /\ n + 2 = (n + 1) + 1 /\ sending' = "message"
    BY <1>1, <1>4, <2>5
  <2>13. Performs(Recorded(recorder, HistoryTurn((n + 1) + 1, Prompt)), all)
         /\ all = Append(one, HistoryTurn((n + 1) + 1, Prompt))
    BY <2>11, <2>12 DEF last
  <2> HIDE DEF all
  <2> QED BY <1>3, <1>4, <2>7, <2>12, <2>13, PromptKeeps
<1>7. CASE ~calls /\ ~Answering(LastContent)
  <2> DEFINE last == HistoryTurn(n + 1, Prompt)
  <2>1. ~ends
    BY <1>7
  <2>2. answered = << >> /\ placeholder = << >> /\ afterAnswer = afterFill
    BY <1>7, <2>1
  <2>3. Len(answered \o placeholder) = 0
    <3>1. Len(<< >> \o << >>) = 0
      OBVIOUS
    <3> HIDE DEF answered, placeholder
    <3> QED BY <2>2, <3>1
  <2>4. prompt = last /\ lastId' = n + 1 /\ n + 1 <= MaxIds
    <3> HIDE DEF answered, placeholder
    <3> QED BY <1>1, <1>2, <2>3 DEF GivesIds, n
  <2>5. PICK log1 : SessionReady(afterFill, filled, log1, n)
    <3>1. CASE fills
      <4> DEFINE new == [history EXCEPT ![Len(history)].content = Text]
      <4>1. Len(history) \in DOMAIN history /\ history[Len(history)].content = Empty
        BY <1>2, <3>1 DEF LastContent, Last
      <4>2. HistoryOK(new, n) /\ Follows(new, disk.log, recorder.order)
        BY <1>2, <4>1, FilledTurn
      <4>3. filled = new /\ afterFill = FollowingHistory(recorder, filled)
        BY <3>1
      <4> HIDE DEF new, filled, afterFill
      <4>4. SessionReady(FollowingHistory(recorder, new), new, LogFollowing(recorder, new, disk.log), n)
        BY <1>2, <4>2, FollowingReady
      <4> QED BY <4>3, <4>4
    <3>2. CASE ~fills
      <4>1. filled = history /\ afterFill = recorder
        BY <3>2
      <4> QED BY <1>2, <4>1
    <3> QED BY <3>1, <3>2
  <2>6. filled \in Seq(HistoryTurns) /\ last \in HistoryTurns
    <3> HIDE DEF filled, afterFill
    <3>1. last \in HistoryTurns
      BY <1>2, SomeContents DEF HistoryTurn, HistoryTurns
    <3> QED BY <2>5, <3>1 DEF SessionReady, HistoryOK
  <2> HIDE DEF last, answered, placeholder, prompt, filled, afterAnswer, afterFill
  <2>7. filled \o answered \o placeholder \o <<prompt>> = Append(filled, last)
    <3>1. filled \o << >> = filled
      BY <2>6, ConcatNothing DEF Same
    <3>2. filled \o <<last>> = Append(filled, last)
      BY <2>6, ConcatOne DEF Same
    <3> QED BY <2>2, <2>4, <3>1, <3>2, Zenon
  <2> DEFINE all == Append(filled, last)
  <2>8. Performs(Recorded(afterFill, last), all)
    <3> DEFINE joined == filled \o answered \o placeholder \o <<prompt>>
    <3>1. Performs(Recorded(afterAnswer, prompt), joined)
      BY <1>1
    <3>2. joined = all
      BY <2>7
    <3> HIDE DEF joined, all
    <3> QED BY <2>2, <2>4, <3>1, <3>2
  <2>9. all = Append(filled, HistoryTurn(n + 1, Prompt)) /\ Performs(Recorded(afterFill, HistoryTurn(n + 1, Prompt)), all)
    BY <2>8 DEF last
  <2> HIDE DEF all
  <2>10. sending' = "message"
    BY <1>1
  <2> QED BY <1>2, <1>3, <2>4, <2>5, <2>9, <2>10, PromptKeeps
<1> QED BY <1>5, <1>6, <1>7

\* Rewind keeps the session as it is to be.
LEMMA RewindKeeps ==
    ASSUME ~Misplaces, SessionOK, Rewind
    PROVE  SessionOK'
<1>1. recording = "live" /\ UNCHANGED <<loaded, sending, base, lastId>>
  BY DEF Rewind
<1>2. PICK id \in ToSet(recorder.order) :
         LET turns == ConvertedToHistory(RewoundMessages(recorder, id))
         IN Performs(FollowingHistory(Rewound(recorder, id), turns), turns)
  BY DEF Rewind
<1> DEFINE messages == RewoundMessages(recorder, id)
           turns == ConvertedToHistory(messages)
           s == Rewound(recorder, id)
           log == CutLog(disk.log, id)
<1>3. lastId \in Nat /\ Stands(recorder, disk.log, lastId)
  BY <1>1, LiveFacts
<1>4. Stands(s, log, lastId) /\ s.order = messages.ids /\ FoundIn(messages, log)
  BY <1>2, <1>3, RewoundStands, RewoundFound
<1>5. Performs(FollowingHistory(s, turns), turns)
  BY <1>2
<1> HIDE DEF messages, s, log
<1>6. Sound(log, lastId) /\ Sound(messages, lastId)
  BY <1>3, <1>4, FoundSound DEF Stands
<1>7. HistoryOK(turns, lastId) /\ Follows(turns, log, s.order)
  BY <1>3, <1>4, <1>6, ConvertedHistory
<1> HIDE DEF turns
<1>8. lastId \in 0 .. MaxIds /\ lastId' = lastId
  BY <1>1 DEF SessionOK
<1>9. sending' \in {"no", "message", "response"} /\ base' \in Nat \cup {-1} /\ (sending' # "no" => base' \in Nat)
  BY <1>1 DEF SessionOK
<1> QED BY <1>4, <1>5, <1>7, <1>8, <1>9, FollowingKeeps

\* Compress keeps the session as it is to be.
LEMMA CompressKeeps ==
    ASSUME SessionOK, Compress
    PROVE  SessionOK'
<1>1. /\ recording = "live" /\ sending = "no" /\ recording' = "reopening" /\ loaded' = disk.log /\ base' = -1
      /\ UNCHANGED <<disk, recorder, sending>>
  BY DEF Compress
<1> DEFINE Latest_(n) == SubSeq(history, Len(history) - n + 1, Len(history))
           summary == <<HistoryTurn(lastId, Prompt), HistoryTurn(lastId, Text)>>
<1>2. PICK n \in 0 .. Len(history) - 1 :
         /\ GivesIds(n + 2)
         /\ history' = <<EnvTurn>> \o Renamed(summary \o Latest_(n))
  BY DEF Compress
<1>3. /\ lastId \in Nat /\ Stands(recorder, disk.log, lastId) /\ history \in Seq(HistoryTurns)
      /\ Len(history) \in Nat /\ LiveOK /\ Sound(disk.log, lastId)
  BY <1>1, LiveFacts DEF SessionOK
<1> DEFINE latest == Latest_(n)
           kept == summary \o latest
           turns == Renamed(kept)
           m == lastId + (n + 2)
<1>4. latest \in Seq(HistoryTurns) /\ Len(latest) = n
  BY <1>3
<1>5. summary \in Seq(HistoryTurns) /\ Len(summary) = 2
  <2>1. HistoryTurn(lastId, Prompt) \in HistoryTurns /\ HistoryTurn(lastId, Text) \in HistoryTurns
    BY <1>3, SomeContents DEF HistoryTurn, HistoryTurns
  <2> QED BY <2>1
<1>6. history' = <<EnvTurn>> \o turns
  BY <1>2
<1> HIDE DEF latest, summary
<1>7. kept \in Seq(HistoryTurns) /\ Len(kept) = n + 2
  <2>1. kept \in Seq(HistoryTurns) /\ Len(kept) = Len(summary) + Len(latest)
    BY <1>4, <1>5, ConcatPlaces
  <2> HIDE DEF kept
  <2> QED BY <1>4, <1>5, <2>1
<1> HIDE DEF kept
<1>8. /\ HistoryOK(turns, lastId + Len(kept)) /\ Len(turns) = Len(kept)
      /\ DOMAIN turns = DOMAIN kept
      /\ \A i \in DOMAIN kept : turns[i] = HistoryTurn(lastId + i, kept[i].content)
  BY <1>3, <1>7, RenamedTurns
<1> HIDE DEF turns
<1>9. HistoryOK(turns, m) /\ m \in Nat /\ lastId <= m /\ lastId' = m /\ m \in 0 .. MaxIds
  BY <1>2, <1>3, <1>7, <1>8, RecordingConstants DEF GivesIds
<1> HIDE DEF m
<1>10. \A i \in DOMAIN turns : turns[i].id \in Int /\ turns[i].id > lastId /\ turns[i].id > 0
  <2> SUFFICES ASSUME NEW i \in DOMAIN turns PROVE turns[i].id \in Int /\ turns[i].id > lastId /\ turns[i].id > 0
    OBVIOUS
  <2>1. i \in 1 .. n + 2 /\ turns[i].id = lastId + i
    BY <1>7, <1>8 DEF HistoryTurn
  <2> QED BY <1>3, <2>1
<1> DEFINE new == <<EnvTurn>> \o turns
<1>11. /\ HistoryOK(new, m)
       /\ \A i \in DOMAIN new : new[i] = EnvTurn \/ \E j \in DOMAIN turns : new[i] = turns[j]
  <2>1. \A i \in DOMAIN turns : turns[i].id # EnvId
    BY <1>10 DEF EnvId
  <2> QED BY <1>9, <2>1, WithEnvTurn
<1>12. history' = new
  BY <1>6
<1> HIDE DEF new
<1>13. ASSUME NEW i \in DOMAIN new
       PROVE  new[i].id = EnvId \/ (new[i].id > 0 /\ new[i].id \notin ToSet(disk.log.ids))
  <2>1. CASE new[i] = EnvTurn
    BY <2>1 DEF EnvTurn
  <2>2. ASSUME NEW j \in DOMAIN turns, new[i] = turns[j]
        PROVE  new[i].id > 0 /\ new[i].id \notin ToSet(disk.log.ids)
    <3>1. turns[j].id \in Int /\ turns[j].id > lastId /\ turns[j].id > 0
      BY <1>10
    <3>2. turns[j].id \in ToSet(disk.log.ids) => turns[j].id <= lastId
      BY <1>3 DEF Sound, Within
    <3> QED BY <1>3, <2>2, <3>1, <3>2
  <2> QED BY <1>11, <2>1, <2>2
<1>14. FoundIn(disk.log, disk.log)
  <2>1. IsLog(disk.log)
    BY <1>3 DEF Sound
  <2>2. Only(disk.log.ids, ToSet(disk.log.ids)) = disk.log.ids
    BY <2>1, OnlyAll DEF IsLog
  <2> QED BY <2>1, <2>2 DEF FoundIn
<1>15. ReopeningOK'
  BY <1>1, <1>3, <1>9, <1>11, <1>12, <1>13, <1>14 DEF ReopeningOK, LiveOK, Closed
<1>16. Sound(disk.log, lastId)'
  <2>1. Sound(disk.log, m)
    BY <1>3, <1>9, Later
  <2> QED BY <1>1, <1>9, <2>1
<1> QED BY <1>1, <1>9, <1>15, <1>16 DEF SessionOK

\* ResumeSession keeps the session as it is to be.
LEMMA ResumeSessionKeeps ==
    ASSUME SessionOK, ResumeSession
    PROVE  SessionOK'
<1> DEFINE turns == ConvertedToHistory(disk.log)
           new == <<EnvTurn>> \o turns
<1>1. /\ recording = "down" /\ history' = new /\ recording' = "restarting"
      /\ loaded' = disk.log /\ sending' = "no" /\ base' = -1
      /\ UNCHANGED <<disk, recorder, lastId>>
  BY DEF ResumeSession
<1>2. Sound(disk.log, lastId) /\ lastId \in Nat /\ recorder = NoMemory
  BY <1>1 DEF SessionOK
<1>3. FoundIn(disk.log, disk.log)
  <2>1. IsLog(disk.log)
    BY <1>2 DEF Sound
  <2>2. Only(disk.log.ids, ToSet(disk.log.ids)) = disk.log.ids
    BY <2>1, OnlyAll DEF IsLog
  <2> QED BY <2>1, <2>2 DEF FoundIn
<1>4. HistoryOK(turns, lastId) /\ Follows(turns, disk.log, disk.log.ids)
      /\ \A i \in DOMAIN turns : turns[i].id # EnvId
  BY <1>2, <1>3, ConvertedHistory
<1> HIDE DEF turns
<1>5. /\ HistoryOK(new, lastId)
      /\ \A i \in DOMAIN new : new[i] = EnvTurn \/ \E j \in DOMAIN turns : new[i] = turns[j]
  BY <1>2, <1>4, WithEnvTurn
<1> HIDE DEF new
<1>6. FollowsTurn(EnvTurn, disk.log, disk.log.ids)
  <2>1. EnvTurn.id = EnvId /\ ~(EnvTurn.id < 0) /\ EnvTurn.content[1] # "call"
    BY DEF EnvTurn, EnvId
  <2>2. EnvId \in ToSet(disk.log.ids) => disk.log.body[EnvId].content = EnvTurn.content
    BY <1>2 DEF Sound, GoodMessage
  <2> QED BY <2>1, <2>2 DEF FollowsTurn
<1>7. Follows(new, disk.log, disk.log.ids)
  <2> SUFFICES ASSUME NEW i \in DOMAIN new PROVE FollowsTurn(new[i], disk.log, disk.log.ids)
    BY DEF Follows
  <2>1. ASSUME NEW j \in DOMAIN turns, new[i] = turns[j] PROVE FollowsTurn(new[i], disk.log, disk.log.ids)
    BY <1>4, <2>1 DEF Follows
  <2> QED BY <1>5, <1>6, <2>1
<1>8. RestartingOK'
  BY <1>1, <1>2, <1>5, <1>7 DEF RestartingOK
<1> QED BY <1>1, <1>2, <1>8 DEF SessionOK

\* Initialized keeps the session as it is to be.
LEMMA InitializedKeeps ==
    ASSUME ~Misplaces, SessionOK, Initialized
    PROVE  SessionOK'
<1> DEFINE s == Reopened(recorder)
<1>1. /\ recording \in {"reopening", "restarting"} /\ UNCHANGED <<sending, base, lastId>>
      /\ Performs(FollowingHistory(s, history), history)
  BY DEF Initialized
<1>2. Sound(disk.log, lastId) /\ lastId \in Nat /\ lastId \in 0 .. MaxIds /\ lastId' = lastId
  BY <1>1 DEF SessionOK
<1>3. /\ HistoryOK(history, lastId) /\ FoundIn(loaded, disk.log) /\ Follows(history, disk.log, loaded.ids)
      /\ recorder.appended = << >> /\ IsMemory(recorder)
  <2>1. CASE recording = "reopening"
    <3>1. ReopeningOK
      BY <2>1 DEF SessionOK
    <3>2. ASSUME NEW i \in DOMAIN history PROVE FollowsTurn(history[i], disk.log, loaded.ids)
      <4> DEFINE x == history[i].id
      <4>1. x = EnvId \/ (x > 0 /\ x \notin ToSet(disk.log.ids))
        BY <3>1 DEF ReopeningOK
      <4>2. CASE x = EnvId
        <5>1. history[i].content = EnvTurn.content
          BY <3>1, <4>2 DEF ReopeningOK, HistoryOK
        <5>2. EnvId \in ToSet(disk.log.ids) =>
                 disk.log.body[EnvId].content = EnvTurn.content /\ disk.log.body[EnvId].type = "user"
          BY <1>2 DEF Sound, GoodMessage
        <5>3. EnvId \in ToSet(disk.log.ids) => EnvId \in ToSet(loaded.ids)
          BY <3>1, <5>2 DEF ReopeningOK, FoundIn
        <5>4. EnvTurn.content[1] # "call" /\ ~(x < 0)
          BY <4>2 DEF EnvTurn, EnvId
        <5> QED BY <4>2, <5>1, <5>2, <5>3, <5>4 DEF FollowsTurn
      <4>3. CASE x > 0 /\ x \notin ToSet(disk.log.ids)
        <5>1. x \in Int
          BY <3>1, TurnsIds DEF ReopeningOK, HistoryOK
        <5>2. ~(x < 0)
          BY <4>3, <5>1
        <5> QED BY <4>3, <5>2 DEF FollowsTurn
      <4> QED BY <4>1, <4>2, <4>3
    <3> QED BY <3>1, <3>2 DEF ReopeningOK, Follows, Knows
  <2>2. CASE recording = "restarting"
    <3>1. RestartingOK
      BY <2>2 DEF SessionOK
    <3>2. IsLog(disk.log) /\ Only(disk.log.ids, ToSet(disk.log.ids)) = disk.log.ids
      BY <1>2, OnlyAll DEF Sound, IsLog
    <3>3. FoundIn(disk.log, disk.log)
      BY <3>2 DEF FoundIn
    <3>4. IsMemory(NoMemory) /\ NoMemory.appended = << >>
      BY DEF IsMemory, NoMemory
    <3> QED BY <3>1, <3>3, <3>4 DEF RestartingOK
  <2> QED BY <1>1, <2>1, <2>2
<1>4. Stands(s, disk.log, lastId) /\ s.order = loaded.ids
  BY <1>2, <1>3, ReopenedStands
<1> HIDE DEF s
<1>5. Follows(history, disk.log, s.order)
  BY <1>3, <1>4
<1>6. sending' \in {"no", "message", "response"} /\ base' \in Nat \cup {-1} /\ (sending' # "no" => base' \in Nat)
  BY <1>1 DEF SessionOK
<1> QED BY <1>1, <1>2, <1>3, <1>4, <1>5, <1>6, FollowingKeeps

\* A new session is as it is to be.
LEMMA SessionStarts ==
    ASSUME RecordingInit
    PROVE  SessionOK
<1> DEFINE m == NewMessage("user", EnvTurn.content)
           first == [ids |-> <<EnvId>>, body |-> [id \in {EnvId} |-> m]]
<1>1. /\ disk = [log |-> first, torn |-> FALSE]
      /\ recorder = [NoMemory EXCEPT !.window = first, !.order = <<EnvId>>,
                                     !.prints = [id \in {EnvId} |-> m.content]]
      /\ history = <<EnvTurn>> /\ recording = "live"
      /\ sending = "no" /\ base = -1 /\ lastId = 0
  BY DEF RecordingInit
<1>2. m \in MessageSet /\ m.tool = NoCall /\ m.content = EnvTurn.content /\ m.type = "user"
      /\ EnvTurn.content \in Contents
  <2>1. EnvTurn.content \in Contents
    BY DEF EnvTurn, Contents, Kinds, NoCall
  <2> DEFINE content == EnvTurn.content
  <2> HIDE DEF content
  <2>2. content \in Contents
    BY <2>1 DEF content
  <2>3. m = [type |-> "user", content |-> content, tool |-> NoCall, result |-> Empty]
    BY DEF NewMessage, content
  <2>4. m \in MessageSet /\ m.tool = NoCall /\ m.content = content /\ m.type = "user"
    BY <2>2, <2>3, SomeContents DEF MessageSet, NoCall
  <2> QED BY <2>2, <2>4 DEF content
<1>3. EnvId \in Int /\ EnvId = 0
  BY DEF EnvId
<1> DEFINE one == <<EnvId>>
<1>4. one \in Seq(Int) /\ ToSet(one) = {EnvId} /\ Unrepeated(one) /\ Len(one) = 1 /\ \A y, z : ~Precedes(one, y, z)
  BY <1>3, OneElement
<1>5. first.ids = one /\ first.body = [id \in {EnvId} |-> m] /\ first.body[EnvId] = m
  OBVIOUS
<1>6. recorder = [window |-> first, order |-> one, prints |-> [id \in {EnvId} |-> m.content],
                  results |-> NoMemory.results, evicted |-> FALSE, appended |-> << >>]
      /\ DOMAIN NoMemory.results = {}
  BY <1>1 DEF NoMemory
<1>7. first = [ids |-> first.ids, body |-> first.body]
  OBVIOUS
<1> HIDE DEF m, one, first
<1>8. IsLog(first)
  BY <1>2, <1>4, <1>5, <1>7 DEF IsLog
<1>9. Sound(first, 0)
  <2>1. Within(ToSet(first.ids), 0)
    BY <1>3, <1>4, <1>5 DEF Within
  <2>2. \A x \in ToSet(first.ids) : GoodMessage(x, first.body[x])
    BY <1>2, <1>3, <1>4, <1>5 DEF GoodMessage
  <2>3. OneMessagePerTool(first) /\ \A x \in ToSet(first.ids) : x < 0 => Echo(first, x)
    BY <1>3, <1>4, <1>5 DEF OneMessagePerTool
  <2> QED BY <1>8, <2>1, <2>2, <2>3 DEF Sound
<1>10. Only(one, ToSet(one)) = one
  BY <1>4, OnlyAll
<1>11. Knows(recorder, first)
  <2>1. Window \in Nat /\ 1 <= Window
    BY RecordingConstants
  <2>2. Ending(one, Window) = one
    BY <1>4, <2>1, EndingOfAll
  <2>3. first = Chosen(first, one)
    BY <1>4, <1>5, <1>7 DEF Chosen
  <2>4. IsMemory(recorder)
    BY <1>6 DEF IsMemory
  <2>5. ToolsIn(first, one) = {}
    BY <1>2, <1>4, <1>5 DEF ToolsIn
  <2>6. Indexes(recorder, first)
    BY <1>4, <1>5, <1>6, <1>10, <2>5 DEF Indexes
  <2>7. recorder.evicted = (Len(recorder.order) > Window)
    <3>1. Len(recorder.order) = 1 /\ recorder.evicted = FALSE
      BY <1>4, <1>6
    <3>2. (Len(recorder.order) > Window) = FALSE
      BY <2>1, <3>1
    <3> QED BY <3>1, <3>2
  <2>8. recorder.window = Chosen(first, Ending(recorder.order, Window))
    BY <1>6, <2>2, <2>3
  <2> QED BY <2>4, <2>6, <2>7, <2>8 DEF Knows
<1>12. /\ history \in Seq(HistoryTurns) /\ Len(history) = 1 /\ DOMAIN history = {1} /\ history[1] = EnvTurn
  <2>1. EnvTurn \in HistoryTurns
    BY <1>2, <1>3 DEF EnvTurn, HistoryTurns
  <2> QED BY <1>1, <2>1
<1>13. EnvTurn.id = EnvId /\ EnvTurn.content[1] # "call"
  BY DEF EnvTurn
<1>14. IdsOf(history) = one
  <2>1. /\ IdsOf(history) \in Seq(Int) /\ Len(IdsOf(history)) = 1
        /\ \A i \in DOMAIN history : IdsOf(history)[i] = history[i].id
    BY <1>12, TurnsIds
  <2>2. one[1] = EnvId
    BY DEF one
  <2>3. \A i \in 1 .. Len(IdsOf(history)) : IdsOf(history)[i] = one[i]
    BY <1>12, <1>13, <2>1, <2>2
  <2> QED BY <1>4, <2>1, <2>3, SeqEqual
<1>15. HistoryOK(history, 0)
  BY <1>3, <1>4, <1>12, <1>13, <1>14 DEF HistoryOK
<1>16. Follows(history, first, one)
  BY <1>2, <1>3, <1>4, <1>5, <1>12, <1>13 DEF Follows, FollowsTurn
<1>17. HasTurns(history, first)
  BY <1>4, <1>5, <1>10, <1>12, <1>13, <1>14 DEF HasTurns
<1>18. Waits(history, first, one)
  BY <1>12, <1>13 DEF Waits
<1>19. LiveOK
  <2>1. disk.log = first /\ lastId = 0 /\ recorder.order = one /\ recorder.appended = << >>
        /\ disk = [log |-> disk.log, torn |-> FALSE]
    <3>1. disk.log = first /\ disk.torn = FALSE /\ lastId = 0
      BY <1>1
    <3>2. recorder.order = one /\ recorder.appended = << >>
      BY <1>6
    <3>3. disk = [log |-> first, torn |-> FALSE]
      BY <1>1
    <3>4. disk = [log |-> disk.log, torn |-> FALSE]
      BY <3>1, <3>3
    <3> QED BY <3>1, <3>2, <3>4
  <2> QED BY <2>1, <1>11, <1>15, <1>16, <1>17, <1>18 DEF LiveOK, Closed
<1>20. lastId \in 0 .. MaxIds /\ Sound(disk.log, lastId) /\ disk.torn \in BOOLEAN
  BY <1>1, <1>9, RecordingConstants
<1> QED BY <1>1, <1>19, <1>20 DEF SessionOK

-----------------------------------------------------------------------------
(* What holds between two steps                                            *)

\* Every step keeps the session as it is to be.
LEMMA SessionSteps ==
    ASSUME ~Misplaces, SessionOK, [RecordingNext]_recordingVars
    PROVE  SessionOK'
<1>1. CASE RecordingNext
  BY <1>1, SendMessageKeeps, SendResponseKeeps, ReplyKeeps, SendFailsKeeps, ToolCompletesKeeps,
     NoticeKeeps, DiscardCallsKeeps, CollapseResponseKeeps, MaskResponsesKeeps, RewindKeeps,
     CompressKeeps, ResumeSessionKeeps, InitializedKeeps DEF RecordingNext
<1>2. CASE UNCHANGED recordingVars
  BY <1>2 DEF recordingVars, SessionOK, LiveOK, ReopeningOK, RestartingOK, Closed
<1> QED BY <1>1, <1>2

\* A session that is as it is to be is well typed ...
LEMMA SessionTypes ==
    ASSUME SessionOK
    PROVE  RecordingTypeOK
<1>1. ASSUME Sound(disk.log, lastId), Knows(recorder, disk.log), recorder.appended = << >>
      PROVE  /\ recorder.evicted \in BOOLEAN /\ recorder.appended = << >>
             /\ Len(recorder.window.ids) <= Window
  <2>1. recorder.window.ids = Ending(recorder.order, Window) /\ recorder.order \in Seq(Int)
    BY <1>1 DEF Knows, Indexes, Chosen
  <2>2. Len(recorder.window.ids) <= Window
    BY <2>1, EndingOrder, RecordingConstants
  <2>3. recorder.evicted \in BOOLEAN
    BY <1>1 DEF Knows
  <2> QED BY <1>1, <2>2, <2>3
<1>2. ASSUME recorder = NoMemory
      PROVE  /\ recorder.evicted \in BOOLEAN /\ recorder.appended = << >>
             /\ Len(recorder.window.ids) <= Window
  <2>1. recorder.evicted = FALSE /\ recorder.appended = << >> /\ recorder.window.ids = << >>
    BY <1>2 DEF NoMemory, NoMessages
  <2>2. Len(recorder.window.ids) = 0 /\ Window \in Nat
    BY <2>1, RecordingConstants
  <2>3. Len(recorder.window.ids) <= Window
    BY <2>2
  <2>4. recorder.evicted \in BOOLEAN
    BY <2>1
  <2> QED BY <2>1, <2>3, <2>4
<1> QED BY <1>1, <1>2 DEF SessionOK, LiveOK, ReopeningOK, RestartingOK, RecordingTypeOK

\* ... its log says what the service knows ...
LEMMA SessionAgrees ==
    ASSUME SessionOK
    PROVE  LogAgrees
<1> SUFFICES ASSUME recording = "live" PROVE LogAgrees
  BY DEF LogAgrees
<1> DEFINE log == disk.log
           order == recorder.order
<1>1. Knows(recorder, log) /\ Indexes(recorder, log) /\ order \in Seq(Int)
  BY DEF SessionOK, LiveOK, Knows, Indexes
<1>2. recorder.window = Latest(Chosen(log, order))
  <2>1. ToSet(Ending(order, Window)) \subseteq ToSet(order)
    BY <1>1, EndingOrder, RecordingConstants
  <2>2. Chosen(Chosen(log, order), Ending(order, Window)) = Chosen(log, Ending(order, Window))
    BY <2>1, ChosenChosen
  <2>3. Chosen(log, order).ids = order
    BY DEF Chosen
  <2> QED BY <1>1, <2>2, <2>3 DEF Latest, Knows
<1>3. DOMAIN recorder.results = ToolsIn(log, order) /\ \A c \in DOMAIN recorder.results : KnowsResult(recorder, log, c)
  BY <1>1 DEF Indexes
<1> HIDE DEF log
<1>4. ToolsIn(log, order) = {log.body[id].tool : id \in ToSet(order)} \ {NoCall}
  BY DEF ToolsIn
<1>5. \A c \in ToolsIn(log, order) :
         /\ recorder.results[c].message \in ToSet(order)
         /\ LET m == log.body[recorder.results[c].message]
            IN m.tool = c /\ m.result = recorder.results[c].print
  BY <1>3 DEF KnowsResult
<1>6. /\ Only(log.ids, ToSet(order)) = order
      /\ recorder.prints = [id \in ToSet(order) |-> log.body[id].content]
      /\ \A id \in ToSet(log.ids) \ ToSet(order) : log.body[id].type = "info"
  BY <1>1 DEF Indexes
<1> QED BY <1>2, <1>3, <1>4, <1>5, <1>6 DEF LogAgrees, log

\* ... and it has the turns of the chat.
LEMMA SessionFollowsChat ==
    ASSUME SessionOK
    PROVE  LogFollowsChat
  BY DEF SessionOK, LiveOK, HasTurns, LogFollowsChat

\* The variables keep their types, the memory writes all it has appended in the step
\* that appended it, and the window keeps its size (trimWindow).
THEOREM RecordingTypes == ASSUME ~Misplaces PROVE RecordingSpec => []RecordingTypeOK
<1>1. RecordingInit => SessionOK
  BY SessionStarts
<1>2. SessionOK /\ [RecordingNext]_recordingVars => SessionOK'
  BY SessionSteps
<1>3. SessionOK => RecordingTypeOK
  BY SessionTypes
<1> QED BY <1>1, <1>2, <1>3, PTL DEF RecordingSpec

\* Whatever was rolled back, masked, compressed, rewound or resumed, and wherever the
\* steps before were cut short: the log of a live session says what the service knows,
\* and it has the turns of the chat in their order.
THEOREM RecordingIsFaithful == ASSUME ~Misplaces PROVE RecordingSpec => []RecordingFaithful
<1>1. RecordingInit => SessionOK
  BY SessionStarts
<1>2. SessionOK /\ [RecordingNext]_recordingVars => SessionOK'
  BY SessionSteps
<1>3. SessionOK => RecordingFaithful
  BY SessionAgrees, SessionFollowsChat DEF RecordingFaithful
<1> QED BY <1>1, <1>2, <1>3, PTL DEF RecordingSpec
=============================================================================
