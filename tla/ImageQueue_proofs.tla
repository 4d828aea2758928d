--------------------------- MODULE ImageQueue_proofs ---------------------------
(***************************************************************************)
(* Proofs about ImageQueue, for any images, callers, pool size and number  *)
(* of retries.                                                             *)
(***************************************************************************)
EXTENDS ImageQueue, SequenceTheorems, FiniteSetTheorems, TLAPS

-------------------------------------------------------------------------------
(* Two lists one after the other, and what spawn_next leaves of them. *)

LEMMA InConcat ==
    ASSUME NEW def \in Seq(Ids), NEW low \in Seq(Ids), NEW id
    PROVE  Contains(def \o low, id) <=> Contains(def, id) \/ Contains(low, id)
  <1> DEFINE line == def \o low
  <1>1. /\ Len(line) = Len(def) + Len(low)
        /\ DOMAIN line = 1..Len(line)
        /\ DOMAIN def = 1..Len(def) /\ DOMAIN low = 1..Len(low)
        /\ Len(def) \in Nat /\ Len(low) \in Nat
        /\ \A i \in 1..Len(def) + Len(low) :
              line[i] = IF i <= Len(def) THEN def[i] ELSE low[i - Len(def)]
    BY ConcatProperties, LenProperties
  <1>2. ASSUME NEW i \in 1..Len(def) PROVE i \in DOMAIN line /\ line[i] = def[i]
    BY <1>1
  <1>3. ASSUME NEW i \in 1..Len(low)
        PROVE  Len(def) + i \in DOMAIN line /\ line[Len(def) + i] = low[i]
    BY <1>1
  <1>4. ASSUME NEW i \in DOMAIN line
        PROVE  \/ i \in 1..Len(def) /\ line[i] = def[i]
               \/ i - Len(def) \in 1..Len(low) /\ line[i] = low[i - Len(def)]
    BY <1>1
  <1> HIDE DEF line
  <1>5. Contains(def, id) => Contains(line, id)
    BY <1>1, <1>2 DEF Contains
  <1>6. Contains(low, id) => Contains(line, id)
    BY <1>1, <1>3 DEF Contains
  <1>7. Contains(line, id) => Contains(def, id) \/ Contains(low, id)
    BY <1>1, <1>4 DEF Contains
  <1> QED
    BY <1>5, <1>6, <1>7 DEF line

(* What remains of a list from its k-th element on. *)
LEMMA FromKth ==
    ASSUME NEW S, NEW s \in Seq(S), NEW k \in Nat
    PROVE  /\ SubSeq(s, k + 1, Len(s)) \in Seq(S)
           /\ Len(SubSeq(s, k + 1, Len(s))) = IF k <= Len(s) THEN Len(s) - k ELSE 0
           /\ \A i \in 1..Len(SubSeq(s, k + 1, Len(s))) :
                 SubSeq(s, k + 1, Len(s))[i] = s[k + i]
  <1> DEFINE m == k + 1
             n == Len(s)
  <1>1. m \in Int /\ n \in Nat /\ n \in Int /\ m > 0
    BY LenProperties
  <1>2. \A i \in m..n : s[i] \in S
    BY <1>1, ElementOfSeq
  <1>3. /\ SubSeq(s, m, n) \in Seq(S)
        /\ Len(SubSeq(s, m, n)) = IF m <= n THEN n - m + 1 ELSE 0
        /\ \A i \in 1..n - m + 1 : SubSeq(s, m, n)[i] = s[m + i - 1]
    <2> HIDE DEF m, n
    <2> QED BY <1>1, <1>2, SubSeqProperties
  <1>4. Len(SubSeq(s, m, n)) = IF k <= n THEN n - k ELSE 0
    BY <1>1, <1>3
  <1>5. ASSUME NEW i \in 1..Len(SubSeq(s, m, n))
        PROVE  SubSeq(s, m, n)[i] = s[k + i]
    <2>1. i \in 1..n - m + 1 /\ m + i - 1 = k + i
      BY <1>1, <1>4
    <2> QED BY <1>3, <2>1
  <1> QED BY <1>3, <1>4, <1>5

LEMMA RestOfLine ==
    ASSUME NEW def \in Seq(Ids), NEW low \in Seq(Ids),
           NEW k \in 0..Len(def \o low)
    PROVE  LET restDef == SubSeq(def, k + 1, Len(def))
               restLow == IF k <= Len(def) THEN low
                          ELSE SubSeq(low, k - Len(def) + 1, Len(low))
           IN  /\ restDef \in Seq(Ids) /\ restLow \in Seq(Ids)
               /\ restDef \o restLow = SubSeq(def \o low, k + 1, Len(def \o low))
  <1> DEFINE line == def \o low
             restDef == SubSeq(def, k + 1, Len(def))
             restLow == IF k <= Len(def) THEN low
                        ELSE SubSeq(low, k - Len(def) + 1, Len(low))
             rest == SubSeq(line, k + 1, Len(line))
  <1>1. /\ line \in Seq(Ids)
        /\ Len(line) = Len(def) + Len(low)
        /\ Len(def) \in Nat /\ Len(low) \in Nat /\ k \in Nat
        /\ \A i \in 1..Len(line) :
              line[i] = IF i <= Len(def) THEN def[i] ELSE low[i - Len(def)]
    BY ConcatProperties, LenProperties
  <1>2. /\ restDef \in Seq(Ids)
        /\ Len(restDef) = IF k <= Len(def) THEN Len(def) - k ELSE 0
        /\ \A i \in 1..Len(restDef) : restDef[i] = def[k + i]
    <2>1. k \in Nat
      BY <1>1
    <2> QED BY <2>1, FromKth
  <1>3. /\ rest \in Seq(Ids)
        /\ Len(rest) = IF k <= Len(line) THEN Len(line) - k ELSE 0
        /\ \A i \in 1..Len(rest) : rest[i] = line[k + i]
    <2> HIDE DEF line
    <2> QED BY <1>1, FromKth
  <1>4. /\ restLow \in Seq(Ids)
        /\ Len(restLow) = IF k <= Len(def) THEN Len(low) ELSE Len(line) - k
        /\ \A i \in 1..Len(restLow) :
              restLow[i] = IF k <= Len(def) THEN low[i] ELSE low[k - Len(def) + i]
    <2>1. CASE k <= Len(def)
      BY <2>1, <1>1
    <2>2. CASE k > Len(def)
      <3> DEFINE j == k - Len(def)
      <3>1. j \in Nat /\ j <= Len(low) /\ Len(low) - j = Len(line) - k
        BY <2>2, <1>1
      <3>2. restLow = SubSeq(low, j + 1, Len(low))
        BY <2>2, <1>1
      <3> HIDE DEF j, restLow
      <3>3. /\ restLow \in Seq(Ids)
            /\ Len(restLow) = Len(low) - j
            /\ \A i \in 1..Len(restLow) : restLow[i] = low[j + i]
        BY <3>1, <3>2, FromKth
      <3>4. \A i \in 1..Len(restLow) : restLow[i] = low[k - Len(def) + i]
        BY <3>3 DEF j
      <3>5. Len(restLow) = Len(line) - k
        BY <3>1, <3>3
      <3>6. ~(k <= Len(def))
        BY <2>2, <1>1
      <3> QED
        BY <3>3, <3>4, <3>5, <3>6
    <2> QED
      BY <2>1, <2>2, <1>1
  <1>5. restDef \o restLow = rest
    <2> HIDE DEF line, restDef, restLow, rest
    <2>1. /\ restDef \o restLow \in Seq(Ids)
          /\ Len(restDef \o restLow) = Len(restDef) + Len(restLow)
          /\ \A i \in 1..Len(restDef) + Len(restLow) :
                (restDef \o restLow)[i] =
                   IF i <= Len(restDef) THEN restDef[i]
                   ELSE restLow[i - Len(restDef)]
      BY <1>2, <1>4, ConcatProperties
    <2>2. Len(restDef \o restLow) = Len(rest) /\ k <= Len(line)
      BY <2>1, <1>1, <1>2, <1>3, <1>4 DEF line
    <2>3. ASSUME NEW i \in 1..Len(rest)
          PROVE  (restDef \o restLow)[i] = rest[i]
      <3>1. rest[i] = line[k + i] /\ k + i \in 1..Len(line) /\ i \in Nat
        BY <1>1, <1>3, <2>2
      <3>2. line[k + i] = IF k + i <= Len(def) THEN def[k + i]
                          ELSE low[k + i - Len(def)]
        BY <1>1, <3>1
      <3>3. CASE k + i <= Len(def)
        BY <3>3, <3>1, <3>2, <2>1, <1>1, <1>2
      <3>4. CASE k + i > Len(def) /\ k <= Len(def)
        <4>0. /\ Len(restDef) = Len(def) - k /\ Len(restLow) = Len(low)
              /\ Len(line) = Len(def) + Len(low) /\ k + i <= Len(line)
              /\ Len(def) \in Nat /\ Len(low) \in Nat /\ k \in Nat /\ i \in Nat
          <5>1. Len(restDef) = Len(def) - k /\ Len(restLow) = Len(low)
            BY <3>4, <1>2, <1>4
          <5> QED BY <5>1, <3>1, <1>1
        <4>1. ~(i <= Len(restDef)) /\ ~(k + i <= Len(def))
          BY <4>0, <3>4
        <4>2. /\ i - Len(restDef) = k + i - Len(def)
              /\ i - Len(restDef) \in 1..Len(restLow)
          BY <4>0, <3>4
        <4>3. i \in 1..Len(restDef) + Len(restLow)
          BY <4>0, <3>4
        <4>4. (restDef \o restLow)[i] = restLow[i - Len(restDef)]
          BY <4>1, <4>3, <2>1
        <4>5. restLow[i - Len(restDef)] = low[i - Len(restDef)]
          BY <4>2, <3>4, <1>4
        <4> QED
          BY <4>1, <4>2, <4>4, <4>5, <3>1, <3>2
      <3>5. CASE k > Len(def)
        <4>0. Len(restDef) = 0 /\ Len(restLow) = Len(line) - k
          BY <3>5, <1>1, <1>2, <1>4
        <4>1. /\ ~(i <= Len(restDef)) /\ i - Len(restDef) = i
              /\ i \in 1..Len(restLow)
              /\ i \in 1..Len(restDef) + Len(restLow)
              /\ k - Len(def) + i = k + i - Len(def)
              /\ ~(k <= Len(def)) /\ ~(k + i <= Len(def))
          BY <4>0, <3>5, <3>1, <1>1
        <4> QED
          BY <4>1, <3>5, <3>1, <3>2, <2>1, <1>1, <1>4
      <3>6. k \in Nat /\ i \in Nat /\ Len(def) \in Nat
        BY <3>1, <1>1
      <3>7. k + i <= Len(def) \/ (k + i > Len(def) /\ k <= Len(def)) \/ k > Len(def)
        BY <3>6
      <3> QED BY <3>7, <3>3, <3>4, <3>5
    <2> QED
      BY <2>1, <2>2, <2>3, <1>3, SeqEqual
  <1> QED
    BY <1>2, <1>4, <1>5

NoDup(line) == \A i, j \in DOMAIN line : line[i] = line[j] => i = j

(* What spawn_next leaves waiting after it took the k first of the line. *)
LEMMA TakeFront ==
    ASSUME NEW def \in Seq(Ids), NEW low \in Seq(Ids), NoDup(def \o low),
           NEW k \in 0..Len(def \o low)
    PROVE  LET line == def \o low
               head == {line[i] : i \in 1..k}
               restDef == SubSeq(def, k + 1, Len(def))
               restLow == IF k <= Len(def) THEN low
                          ELSE SubSeq(low, k - Len(def) + 1, Len(low))
           IN  /\ restDef \in Seq(Ids) /\ restLow \in Seq(Ids)
               /\ NoDup(restDef \o restLow)
               /\ head \subseteq Ids
               /\ \A id \in head : Contains(line, id)
               /\ \A id \in Ids : Contains(restDef \o restLow, id)
                                     <=> Contains(line, id) /\ id \notin head
               /\ \A id \in Ids : Contains(restDef, id) => Contains(def, id)
               /\ \A id \in Ids : Contains(restLow, id) => Contains(low, id)
               /\ \A id \in head : ~Contains(def, id) => restDef = <<>>
               /\ k = Len(line) => restDef = <<>> /\ restLow = <<>>
  <1> DEFINE line == def \o low
             head == {line[i] : i \in 1..k}
             restDef == SubSeq(def, k + 1, Len(def))
             restLow == IF k <= Len(def) THEN low
                        ELSE SubSeq(low, k - Len(def) + 1, Len(low))
             rest == restDef \o restLow
  <1>1. /\ line \in Seq(Ids) /\ Len(line) = Len(def) + Len(low)
        /\ Len(def) \in Nat /\ Len(low) \in Nat /\ k \in Nat /\ k <= Len(line)
        /\ DOMAIN line = 1..Len(line) /\ DOMAIN def = 1..Len(def)
        /\ DOMAIN low = 1..Len(low)
    BY ConcatProperties, LenProperties
  <1>2. \A i \in 1..Len(line) : /\ line[i] \in Ids
                                /\ i <= Len(def) => line[i] = def[i]
    <2>1. \A i \in 1..Len(line) : line[i] \in Ids
      <3> HIDE DEF line
      <3> QED BY <1>1, ElementOfSeq
    <2>2. \A i \in 1..Len(line) : i <= Len(def) => line[i] = def[i]
      BY <1>1, ConcatProperties
    <2> QED BY <2>1, <2>2
  <1>3. restDef \in Seq(Ids) /\ restLow \in Seq(Ids)
        /\ rest = SubSeq(line, k + 1, Len(line))
    BY RestOfLine
  <1>4. /\ k <= Len(def) => Len(restDef) = Len(def) - k
        /\ ~(k <= Len(def)) => Len(restDef) = 0
        /\ \A i \in 1..Len(restDef) : restDef[i] = def[k + i]
        /\ DOMAIN restDef = 1..Len(restDef)
    <2>1. k \in Nat
      BY <1>1
    <2>2. /\ Len(restDef) = IF k <= Len(def) THEN Len(def) - k ELSE 0
          /\ \A i \in 1..Len(restDef) : restDef[i] = def[k + i]
      BY <2>1, FromKth
    <2> QED BY <2>2, <1>3, LenProperties
  <1>5. /\ Len(rest) = Len(line) - k
        /\ \A i \in 1..Len(rest) : rest[i] = line[k + i]
        /\ DOMAIN rest = 1..Len(rest) /\ rest \in Seq(Ids)
    <2> HIDE DEF line, rest
    <2>1. k \in Nat /\ line \in Seq(Ids) /\ rest = SubSeq(line, k + 1, Len(line))
      BY <1>1, <1>3
    <2>2. /\ rest \in Seq(Ids)
          /\ Len(rest) = IF k <= Len(line) THEN Len(line) - k ELSE 0
          /\ \A i \in 1..Len(rest) : rest[i] = line[k + i]
      BY <2>1, FromKth
    <2> QED BY <2>2, <1>1, LenProperties
  <1>6. NoDup(line)
    OBVIOUS
  <1>7. NoDup(rest)
    <2> HIDE DEF line, rest
    <2> SUFFICES ASSUME NEW i \in 1..Len(rest), NEW j \in 1..Len(rest),
                        rest[i] = rest[j]
                 PROVE  i = j
      BY <1>5 DEF NoDup
    <2>1. k + i \in 1..Len(line) /\ k + j \in 1..Len(line)
      BY <1>1, <1>5
    <2>2. line[k + i] = line[k + j]
      BY <1>5
    <2>3. k + i = k + j
      BY <2>1, <2>2, <1>1, <1>6 DEF NoDup
    <2>4. i \in Int /\ j \in Int /\ k \in Int
      BY <1>1
    <2> QED BY <2>3, <2>4
  <1>8. head \subseteq Ids /\ \A id \in head : Contains(line, id)
    <2> HIDE DEF line
    <2>1. \A i \in 1..k : i \in 1..Len(line)
      BY <1>1
    <2> QED BY <2>1, <1>1, <1>2 DEF Contains
  <1>9. \A id \in Ids : Contains(rest, id) <=> Contains(line, id) /\ id \notin head
    <2> HIDE DEF line, rest
    <2> TAKE id \in Ids
    <2>1. ASSUME Contains(rest, id) PROVE Contains(line, id) /\ id \notin head
      <3>1. PICK i \in 1..Len(rest) : rest[i] = id
        BY <2>1, <1>5 DEF Contains
      <3>2. k + i \in 1..Len(line) /\ line[k + i] = id /\ i > 0
        BY <3>1, <1>1, <1>5
      <3>3. ASSUME NEW j \in 1..k, line[j] = id PROVE FALSE
        <4>1. j \in 1..Len(line) /\ j # k + i
          BY <3>2, <1>1
        <4> QED BY <4>1, <3>2, <3>3, <1>1, <1>6 DEF NoDup
      <3> QED BY <3>2, <3>3, <1>1 DEF Contains
    <2>2. ASSUME Contains(line, id), id \notin head PROVE Contains(rest, id)
      <3>1. PICK i \in 1..Len(line) : line[i] = id
        BY <2>2, <1>1 DEF Contains
      <3>2. i \notin 1..k
        BY <3>1, <2>2
      <3>3. i - k \in 1..Len(rest) /\ k + (i - k) = i
        BY <3>1, <3>2, <1>1, <1>5
      <3> QED BY <3>1, <3>3, <1>5 DEF Contains
    <2> QED BY <2>1, <2>2
  <1>10. \A id \in Ids : Contains(restDef, id) => Contains(def, id)
    <2> HIDE DEF restDef
    <2>1. ASSUME NEW i \in 1..Len(restDef) PROVE k + i \in 1..Len(def)
      <3>1. CASE k <= Len(def)
        <4>1. Len(restDef) = Len(def) - k
          BY <3>1, <1>4
        <4> QED BY <4>1, <1>1
      <3>2. CASE ~(k <= Len(def))
        <4>1. Len(restDef) = 0
          BY <3>2, <1>4
        <4> QED BY <4>1
      <3> QED BY <3>1, <3>2
    <2> QED BY <2>1, <1>1, <1>4 DEF Contains
  <1>11. \A id \in Ids : Contains(restLow, id) => Contains(low, id)
    <2>1. CASE k <= Len(def)
      BY <2>1
    <2>2. CASE ~(k <= Len(def))
      <3> DEFINE j == k - Len(def)
      <3>1. j \in Nat /\ restLow = SubSeq(low, j + 1, Len(low))
        BY <2>2, <1>1
      <3> HIDE DEF j, restLow
      <3>2. /\ restLow \in Seq(Ids)
            /\ Len(restLow) = IF j <= Len(low) THEN Len(low) - j ELSE 0
            /\ \A i \in 1..Len(restLow) : restLow[i] = low[j + i]
        BY <3>1, FromKth
      <3>3. DOMAIN restLow = 1..Len(restLow)
        BY <3>2, LenProperties
      <3>4. \A i \in 1..Len(restLow) : j + i \in 1..Len(low)
        BY <3>1, <3>2, <1>1
      <3> QED BY <3>2, <3>3, <3>4, <1>1 DEF Contains
    <2> QED BY <2>1, <2>2
  <1>12. \A id \in head : ~Contains(def, id) => restDef = <<>>
    <2> HIDE DEF line, restDef
    <2> SUFFICES ASSUME NEW i \in 1..k, ~Contains(def, line[i])
                 PROVE  restDef = <<>>
      OBVIOUS
    <2>1. i \in 1..Len(line) /\ ~(i <= Len(def))
      <3>1. i \in 1..Len(line) /\ i \in Nat /\ 1 <= i
        BY <1>1
      <3>2. CASE i <= Len(def)
        <4>1. i \in DOMAIN def /\ line[i] = def[i]
          BY <3>1, <3>2, <1>1, <1>2
        <4> QED BY <4>1 DEF Contains
      <3> QED BY <3>1, <3>2
    <2>2. ~(k <= Len(def))
      BY <2>1, <1>1
    <2>3. Len(restDef) = 0
      BY <2>2, <1>4
    <2> QED BY <2>3, <1>3, EmptySeq
  <1>13. k = Len(line) => restDef = <<>> /\ restLow = <<>>
    <2> SUFFICES ASSUME k = Len(line) PROVE restDef = <<>> /\ restLow = <<>>
      OBVIOUS
    <2>1. Len(rest) = 0
      <3>1. Len(line) \in Nat /\ Len(rest) = Len(line) - k /\ k = Len(line)
        BY <1>1, <1>5
      <3> HIDE DEF line, rest
      <3> QED BY <3>1
    <2>2. rest = <<>>
      <3> HIDE DEF line, rest
      <3> QED BY <2>1, <1>5, EmptySeq
    <2> QED BY <2>2, <1>3, ConcatEqualIffEmpty
  <1> QED
    BY <1>3, <1>7, <1>8, <1>9, <1>10, <1>11, <1>12, <1>13

LEMMA NoDupConcat ==
    ASSUME NEW def \in Seq(Ids), NEW low \in Seq(Ids)
    PROVE  NoDup(def \o low)
              <=> /\ NoDup(def) /\ NoDup(low)
                  /\ \A id \in Ids : ~(Contains(def, id) /\ Contains(low, id))
  <1> DEFINE line == def \o low
             m == Len(def)
             n == Len(low)
  <1>1. /\ m \in Nat /\ n \in Nat
        /\ DOMAIN line = 1..m + n /\ DOMAIN def = 1..m /\ DOMAIN low = 1..n
    BY ConcatProperties, LenProperties
  <1>2. \A i \in 1..m + n : line[i] = IF i <= m THEN def[i] ELSE low[i - m]
    BY ConcatProperties
  <1>3. \A i \in 1..m : def[i] \in Ids
    BY ElementOfSeq
  <1> HIDE DEF line, m, n
  <1>4. \A i \in 1..m : i \in 1..m + n /\ line[i] = def[i]
    BY <1>1, <1>2
  <1>5. \A i \in 1..n : m + i \in 1..m + n /\ line[m + i] = low[i]
    <2> TAKE i \in 1..n
    <2>1. m \in Nat /\ n \in Nat /\ i \in Int /\ 1 <= i /\ i <= n
      BY <1>1
    <2>2. m + i \in 1..m + n /\ ~(m + i <= m) /\ (m + i) - m = i
      BY <2>1
    <2> QED BY <2>2, <1>2
  <1>6. ASSUME NoDup(line)
        PROVE  /\ NoDup(def) /\ NoDup(low)
               /\ \A id \in Ids : ~(Contains(def, id) /\ Contains(low, id))
    <2>1. NoDup(def)
      BY <1>1, <1>4, <1>6 DEF NoDup
    <2>2. ASSUME NEW i \in 1..n, NEW j \in 1..n, low[i] = low[j] PROVE i = j
      <3>1. /\ m + i \in DOMAIN line /\ m + j \in DOMAIN line
            /\ line[m + i] = line[m + j]
        BY <2>2, <1>1, <1>5
      <3>2. m + i = m + j
        BY <3>1, <1>6 DEF NoDup
      <3>3. i \in Int /\ j \in Int /\ m \in Int
        BY <1>1
      <3> QED BY <3>2, <3>3
    <2>3. ASSUME NEW i \in 1..m, NEW j \in 1..n, def[i] = low[j] PROVE FALSE
      <3>1. i = m + j
        BY <2>3, <1>1, <1>4, <1>5, <1>6 DEF NoDup
      <3> QED BY <3>1, <1>1
    <2> QED BY <2>1, <2>2, <2>3, <1>1 DEF NoDup, Contains
  <1>7. ASSUME NoDup(def), NoDup(low),
               \A id \in Ids : ~(Contains(def, id) /\ Contains(low, id)),
               NEW i \in 1..m + n, NEW j \in 1..m + n, line[i] = line[j]
        PROVE  i = j
    <2>1. ASSUME NEW x \in 1..m + n
          PROVE  \/ x \in 1..m /\ line[x] = def[x]
                 \/ x - m \in 1..n /\ line[x] = low[x - m]
      BY <1>1, <1>2
    <2>2. \A x \in 1..m, y \in 1..n : def[x] # low[y]
      BY <1>7, <1>1, <1>3 DEF Contains
    <2>3. CASE i \in 1..m /\ line[i] = def[i] /\ j \in 1..m /\ line[j] = def[j]
      BY <2>3, <1>7, <1>1 DEF NoDup
    <2>4. CASE /\ i - m \in 1..n /\ line[i] = low[i - m]
               /\ j - m \in 1..n /\ line[j] = low[j - m]
      <3>1. i - m = j - m
        BY <2>4, <1>7, <1>1 DEF NoDup
      <3>2. i \in Int /\ j \in Int /\ m \in Int
        BY <1>1
      <3> QED BY <3>1, <3>2
    <2> QED BY <2>1, <2>2, <2>3, <2>4, <1>7
  <1>8. NoDup(line) <=> \A i, j \in 1..m + n : line[i] = line[j] => i = j
    BY <1>1 DEF NoDup
  <1> QED BY <1>6, <1>7, <1>8 DEF line

LEMMA ContainsAppend ==
    ASSUME NEW s \in Seq(Ids), NEW id \in Ids
    PROVE  /\ Append(s, id) \in Seq(Ids)
           /\ \A x : Contains(Append(s, id), x) <=> Contains(s, x) \/ x = id
           /\ NoDup(s) /\ ~Contains(s, id) => NoDup(Append(s, id))
  <1> DEFINE n == Len(s)
             t == Append(s, id)
  <1>1. /\ n \in Nat /\ t \in Seq(Ids)
        /\ DOMAIN s = 1..n /\ DOMAIN t = 1..n + 1
        /\ t[n + 1] = id /\ \A i \in 1..n : t[i] = s[i]
    BY AppendProperties, LenProperties
  <1> HIDE DEF n, t
  <1>2. \A i : i \in 1..n + 1 <=> i \in 1..n \/ i = n + 1
    BY <1>1
  <1>3. \A x : Contains(t, x) <=> Contains(s, x) \/ x = id
    BY <1>1, <1>2 DEF Contains
  <1>4. NoDup(s) /\ ~Contains(s, id) => NoDup(t)
    BY <1>1, <1>2 DEF NoDup, Contains
  <1> QED BY <1>1, <1>3, <1>4 DEF t

(* An id that does not wait, appended to either list. *)
LEMMA AppendToLine ==
    ASSUME NEW def \in Seq(Ids), NEW low \in Seq(Ids), NoDup(def \o low),
           NEW id \in Ids, ~Contains(def \o low, id)
    PROVE  /\ NoDup(Append(def, id) \o low) /\ NoDup(def \o Append(low, id))
           /\ \A x : /\ Contains(Append(def, id) \o low, x)
                           <=> Contains(def \o low, x) \/ x = id
                     /\ Contains(def \o Append(low, id), x)
                           <=> Contains(def \o low, x) \/ x = id
  <1>1. ~Contains(def, id) /\ ~Contains(low, id)
    BY InConcat
  <1>2. /\ Append(def, id) \in Seq(Ids) /\ Append(low, id) \in Seq(Ids)
        /\ \A x : Contains(Append(def, id), x) <=> Contains(def, x) \/ x = id
        /\ \A x : Contains(Append(low, id), x) <=> Contains(low, x) \/ x = id
    BY ContainsAppend
  <1>3. /\ NoDup(def) /\ NoDup(low)
        /\ \A x \in Ids : ~(Contains(def, x) /\ Contains(low, x))
    BY NoDupConcat
  <1>4. NoDup(Append(def, id)) /\ NoDup(Append(low, id))
    BY <1>1, <1>3, ContainsAppend
  <1>5. NoDup(Append(def, id) \o low)
    BY <1>1, <1>2, <1>3, <1>4, NoDupConcat
  <1>6. NoDup(def \o Append(low, id))
    BY <1>1, <1>2, <1>3, <1>4, NoDupConcat
  <1> QED
    BY <1>2, <1>5, <1>6, InConcat

LEMMA Cards ==
    ASSUME NEW A \in SUBSET Ids, NEW B \in SUBSET A
    PROVE  Cardinality(A) \in Nat /\ Cardinality(B) \in Nat
           /\ Cardinality(B) <= Cardinality(A)
  BY IdsAssumption, FS_Subset, FS_CardinalityType

LEMMA OneMore ==
    ASSUME NEW A \in SUBSET Ids, NEW id \in Ids
    PROVE  Cardinality(A \cup {id}) <= Cardinality(A) + 1
  BY IdsAssumption, FS_Subset, FS_CardinalityType, FS_AddElement

-------------------------------------------------------------------------------
(***************************************************************************)
(* What holds of the structure whenever spawn_next is entered, and again   *)
(* when the mutex is released: a request waits, in the list its priority   *)
(* names and once, or is counted or not and has its one task.              *)
(***************************************************************************)
Ready(reqs, count, busy, lim, def, low, live) ==
    /\ priority \in [Ids -> Priorities \cup {"None"}]
    /\ reqs \subseteq requests /\ busy \subseteq reqs
    /\ count \in [Ids -> 0..MAX_REQUEST_RETRY_COUNT]
    /\ lim \in {1, DEFAULT_QUEUE_LIMIT}
    /\ def \in Seq(Ids) /\ low \in Seq(Ids) /\ NoDup(def \o low)
    /\ \A id \in Ids : Contains(def \o low, id) => id \in reqs \ busy
    /\ \A id \in Ids : Contains(def, id) => priority[id] = "Default"
    /\ \A id \in Ids : Contains(low, id) => priority[id] = "Low"
    /\ live \subseteq Tasks
    /\ \A id \in Ids : (\E t \in live : t[1] = id)
                          <=> (id \in reqs /\ ~Contains(def \o low, id))
    /\ \A t, u \in live : t[1] = u[1] => t = u
    /\ Cardinality({id \in busy : priority[id] # "High"}) <= DEFAULT_QUEUE_LIMIT

IInv ==
    /\ Ready(requests, retries, ongoing, limit, queue_default, queue_low, tasks)
    /\ stalled \subseteq Ids
    /\ handle \in [Handles -> [state : HandleStates, id : Ids \cup {NoId},
                               priority : Priorities \cup {"None"}]]
    /\ NoIdleCapacity

(* spawn_next: entered Ready, it leaves the structure so, with no room in   *)
(* the pool for what waits, and takes from the low list only when it has    *)
(* taken all of the default one.                                            *)
LEMMA SpawnNextKeeps ==
    ASSUME NEW reqs, NEW count, NEW busy, NEW lim, NEW def, NEW low, NEW live,
           Ready(reqs, count, busy, lim, def, low, live),
           SpawnNext(reqs, count, busy, lim, def, low, live)
    PROVE  /\ Ready(requests, retries, ongoing, limit, queue_default, queue_low,
                    tasks)'
           /\ NoIdleCapacity'
           /\ \A id \in Ids : Contains(low, id) /\ id \in ongoing'
                                 => queue_default' = <<>>
           /\ \A id \in Ids : Contains(queue_low, id)' => Contains(low, id)
           /\ \A id \in Ids : id \in ongoing' => id \in busy \/ Contains(def \o low, id)
           /\ \A id \in requests' : priority'[id] = priority[id]
  <1> DEFINE line == def \o low
             Known(k) == {line[i] : i \in 1..k} \cap reqs
             Taken(k) == {id \in Known(k) : IsAwaited(id)}
             Dropped(k) == Known(k) \ Taken(k)
             Full(k) == IsLimitReached(busy \cup Taken(k), lim)
  <1>1. PICK k \in 0..Len(line) :
            /\ \A j \in 0..(k - 1) : ~Full(j)
            /\ Full(k) \/ k = Len(line)
            /\ ongoing' = busy \cup Taken(k)
            /\ priority' = [id \in Ids |-> IF id \in reqs \ Dropped(k)
                                          THEN priority[id] ELSE "None"]
            /\ retries' = [id \in Ids |-> IF id \in reqs \ Dropped(k)
                                         THEN count[id] ELSE 0]
            /\ queue_default' = SubSeq(def, k + 1, Len(def))
            /\ queue_low' = IF k <= Len(def) THEN low
                            ELSE SubSeq(low, k - Len(def) + 1, Len(low))
            /\ tasks' = (live \ Abortable(Dropped(k)))
                           \cup (Taken(k) \X {"spawned"})
            /\ limit' = IF Full(k) /\ ongoing' = {}
                        THEN DEFAULT_QUEUE_LIMIT ELSE lim
    BY DEF SpawnNext
  <1> DEFINE head == {line[i] : i \in 1..k}
  <1>2. def \in Seq(Ids) /\ low \in Seq(Ids) /\ NoDup(line)
    BY DEF Ready
  <1>3. /\ queue_default' \in Seq(Ids) /\ queue_low' \in Seq(Ids)
        /\ NoDup(queue_default' \o queue_low')
        /\ head \subseteq Ids
        /\ \A id \in head : Contains(line, id)
        /\ \A id \in Ids : Contains(queue_default' \o queue_low', id)
                              <=> Contains(line, id) /\ id \notin head
        /\ \A id \in Ids : Contains(queue_default', id) => Contains(def, id)
        /\ \A id \in Ids : Contains(queue_low', id) => Contains(low, id)
        /\ \A id \in head : ~Contains(def, id) => queue_default' = <<>>
        /\ k = Len(line) => queue_default' = <<>> /\ queue_low' = <<>>
    <2>1. /\ queue_default' = SubSeq(def, k + 1, Len(def))
          /\ queue_low' = IF k <= Len(def) THEN low
                          ELSE SubSeq(low, k - Len(def) + 1, Len(low))
      BY <1>1
    <2> QED BY <2>1, <1>2, TakeFront
  <1> DEFINE taken == Taken(k)
             dropped == Dropped(k)
  <1>4. /\ taken \subseteq head /\ dropped \subseteq head
        /\ head \subseteq reqs \ busy
        /\ taken \cup dropped = head /\ taken \cap dropped = {}
    BY <1>3 DEF Ready
  <1>5. /\ ongoing' = busy \cup taken
        /\ priority' = [id \in Ids |-> IF id \in reqs \ dropped
                                      THEN priority[id] ELSE "None"]
        /\ retries' = [id \in Ids |-> IF id \in reqs \ dropped
                                     THEN count[id] ELSE 0]
        /\ tasks' = (live \ Abortable(dropped)) \cup (taken \X {"spawned"})
    BY <1>1
  <1>6. /\ IsLimitReached(ongoing', lim) \/ k = Len(line)
        /\ limit' = IF IsLimitReached(ongoing', lim) /\ ongoing' = {}
                    THEN DEFAULT_QUEUE_LIMIT ELSE lim
    BY <1>1
  <1>7. Cardinality({id \in ongoing' : priority[id] # "High"})
           <= DEFAULT_QUEUE_LIMIT
    <2> DEFINE counted == {id \in ongoing' : priority[id] # "High"}
    <2>0. /\ busy \subseteq Ids /\ ongoing' \subseteq Ids
          /\ lim \in Nat /\ lim <= DEFAULT_QUEUE_LIMIT
          /\ DEFAULT_QUEUE_LIMIT \in Nat
      BY <1>3, <1>4, <1>5, LimitAssumption DEF Ready, requests
    <2>1. CASE k = 0
      <3>1. taken = {}
        BY <2>1
      <3>2. ongoing' = busy
        BY <3>1, <1>5
      <3> QED BY <3>2 DEF Ready
    <2>2. CASE k # 0
      <3>1. k - 1 \in 0..(k - 1) /\ k \in Nat /\ k \in 1..Len(line)
        BY <2>2, LenProperties, <1>2
      <3> DEFINE before == busy \cup Taken(k - 1)
      <3>2. ~(Cardinality(before) >= lim)
        BY <3>1, <1>1 DEF IsLimitReached
      <3>3. before \subseteq Ids
        BY <2>0, <1>3, <3>1
      <3>4. line[k] \in head /\ line[k] \in Ids
        BY <1>3, <3>1
      <3>5. ongoing' \subseteq before \cup {line[k]}
        <4> SUFFICES ASSUME NEW id \in taken, id # line[k] PROVE id \in Taken(k - 1)
          BY <1>5
        <4>1. PICK i \in 1..k : id = line[i]
          OBVIOUS
        <4>2. i \in 1..(k - 1)
          BY <4>1, <3>1
        <4> QED BY <4>1, <4>2
      <3> HIDE DEF before, Taken, line
      <3>6. /\ Cardinality(before \cup {line[k]}) <= Cardinality(before) + 1
            /\ Cardinality(before) \in Nat
        BY <3>3, <3>4, OneMore, Cards
      <3>7. /\ Cardinality(counted) <= Cardinality(before \cup {line[k]})
            /\ Cardinality(counted) \in Nat
            /\ Cardinality(before \cup {line[k]}) \in Nat
        <4>1. counted \in SUBSET (before \cup {line[k]})
          BY <3>5
        <4>2. before \cup {line[k]} \in SUBSET Ids
          BY <3>3, <3>4
        <4> QED BY <4>1, <4>2, Cards
      <3> HIDE DEF counted
      <3>8. Cardinality(counted) <= DEFAULT_QUEUE_LIMIT
        BY <3>2, <3>6, <3>7, <2>0
      <3> QED BY <3>8 DEF counted
    <2> QED BY <2>1, <2>2
  <1>8. /\ \A id \in requests' : priority'[id] = priority[id]
        /\ requests' = reqs \ dropped
    BY <1>5 DEF Ready, requests
  <1>9. tasks' = live \cup (taken \X {"spawned"})
    <2>1. ASSUME NEW t \in live PROVE t \notin Abortable(dropped)
      <3>1. t[1] \in Ids
        BY DEF Ready, Tasks
      <3>2. t[1] \notin dropped
        BY <3>1, <1>3, <1>4 DEF Ready
      <3> QED BY <3>2 DEF Abortable
    <2> QED BY <2>1, <1>5
  <1> HIDE DEF line, Known, Taken, Dropped, Full, head, taken, dropped
  <1>10. Ready(requests, retries, ongoing, limit, queue_default, queue_low, tasks)'
    <2>1. /\ priority' \in [Ids -> Priorities \cup {"None"}]
          /\ retries' \in [Ids -> 0..MAX_REQUEST_RETRY_COUNT]
          /\ limit' \in {1, DEFAULT_QUEUE_LIMIT}
      BY <1>5, <1>6, RetryAssumption DEF Ready
    <2>2. ongoing' \subseteq requests'
      BY <1>4, <1>5, <1>8 DEF Ready
    <2>3. \A id \in Ids : Contains(queue_default' \o queue_low', id)
                             => id \in requests' \ ongoing'
      BY <1>3, <1>4, <1>5, <1>8 DEF Ready, line
    <2>4. \A id \in Ids : Contains(queue_default', id) \/ Contains(queue_low', id)
                             => id \in requests'
      BY <2>3, <1>3, InConcat
    <2>5. /\ \A id \in Ids : Contains(queue_default', id) => priority'[id] = "Default"
          /\ \A id \in Ids : Contains(queue_low', id) => priority'[id] = "Low"
      BY <2>4, <1>3, <1>8 DEF Ready
    <2>6. tasks' \subseteq Tasks
      BY <1>9, <1>3, <1>4 DEF Ready, Tasks, Phases
    <2>7. ASSUME NEW id \in Ids
          PROVE  (\E t \in tasks' : t[1] = id)
                    <=> (id \in requests'
                         /\ ~Contains(queue_default' \o queue_low', id))
      <3>1. (\E t \in tasks' : t[1] = id) <=> (\E t \in live : t[1] = id) \/ id \in taken
        <4>1. id \in taken => <<id, "spawned">> \in tasks' /\ <<id, "spawned">>[1] = id
          BY <1>9
        <4>2. \A t \in taken \X {"spawned"} : t[1] \in taken
          OBVIOUS
        <4> QED BY <4>1, <4>2, <1>9
      <3>2. (\E t \in live : t[1] = id) <=> id \in reqs /\ ~Contains(line, id)
        BY DEF Ready, line
      <3> QED BY <3>1, <3>2, <1>3, <1>4, <1>8
    <2>8. ASSUME NEW t \in tasks', NEW u \in tasks', t[1] = u[1] PROVE t = u
      <3>1. ASSUME NEW v \in live PROVE v[1] \notin taken
        <4>1. v[1] \in Ids
          BY DEF Ready, Tasks
        <4> QED BY <4>1, <1>3, <1>4 DEF Ready, line
      <3>2. \A v \in taken \X {"spawned"} : v = <<v[1], "spawned">> /\ v[1] \in taken
        OBVIOUS
      <3>3. CASE t \in live /\ u \in live
        BY <3>3, <2>8 DEF Ready
      <3>4. CASE t \notin live /\ u \notin live
        <4>1. t = <<t[1], "spawned">> /\ u = <<u[1], "spawned">>
          BY <3>2, <3>4, <1>9
        <4> QED BY <4>1, <2>8
      <3>5. CASE (t \in live /\ u \notin live) \/ (t \notin live /\ u \in live)
        BY <3>1, <3>2, <3>5, <2>8, <1>9
      <3> QED BY <3>3, <3>4, <3>5
    <2>9. Cardinality({id \in ongoing' : priority'[id] # "High"})
             <= DEFAULT_QUEUE_LIMIT
      <3>1. {id \in ongoing' : priority'[id] # "High"}
               = {id \in ongoing' : priority[id] # "High"}
        BY <2>2, <1>8
      <3> QED BY <3>1, <1>7
    <2> QED BY <2>1, <2>2, <2>3, <2>5, <2>6, <2>7, <2>8, <2>9, <1>3 DEF Ready
  <1>11. NoIdleCapacity'
    <2>1. CASE k = Len(line)
      BY <2>1, <1>3 DEF NoIdleCapacity
    <2>2. CASE IsLimitReached(ongoing', lim)
      <3>1. lim # 0 /\ lim \in Nat
        BY LimitAssumption DEF Ready
      <3>2. ongoing' # {}
        BY <2>2, <3>1, FS_EmptySet DEF IsLimitReached
      <3> QED BY <2>2, <3>2, <1>6 DEF NoIdleCapacity
    <2> QED BY <2>1, <2>2, <1>6
  <1>12. \A id \in Ids : Contains(low, id) /\ id \in ongoing' => queue_default' = <<>>
    <2> SUFFICES ASSUME NEW id \in Ids, Contains(low, id), id \in ongoing'
                 PROVE  queue_default' = <<>>
      OBVIOUS
    <2>1. id \notin busy /\ ~Contains(def, id)
      BY <1>2, InConcat DEF Ready
    <2> QED BY <2>1, <1>3, <1>4, <1>5
  <1>13. \A id \in Ids : id \in ongoing' => id \in busy \/ Contains(def \o low, id)
    BY <1>3, <1>4, <1>5 DEF line
  <1> QED
    BY <1>3, <1>8, <1>10, <1>11, <1>12, <1>13 DEF Contains

-------------------------------------------------------------------------------
(* An image with a task has a request, which does not wait, and no other   *)
(* task.                                                                   *)
LEMMA TaskOf ==
    ASSUME NEW reqs, NEW count, NEW busy, NEW lim, NEW def, NEW low, NEW live,
           Ready(reqs, count, busy, lim, def, low, live),
           NEW id \in Ids, NEW p, <<id, p>> \in live
    PROVE  /\ id \in reqs /\ ~Contains(def \o low, id)
           /\ \A t \in live : t[1] = id => t = <<id, p>>
  <1>1. <<id, p>>[1] = id
    OBVIOUS
  <1> QED BY <1>1 DEF Ready

(* The task of a request moves on; the request may stop counting.          *)
LEMMA TaskMoves ==
    ASSUME NEW reqs, NEW count, NEW busy, NEW lim, NEW def, NEW low, NEW live,
           Ready(reqs, count, busy, lim, def, low, live),
           NEW id \in Ids, NEW p \in Phases, <<id, p>> \in live, NEW q \in Phases
    PROVE  LET moved == (live \ {<<id, p>>}) \cup {<<id, q>>}
           IN  /\ Ready(reqs, count, busy, lim, def, low, moved)
               /\ Ready(reqs, count, busy \ {id}, lim, def, low, moved)
  <1> DEFINE moved == (live \ {<<id, p>>}) \cup {<<id, q>>}
  <1>1. <<id, p>>[1] = id /\ <<id, q>>[1] = id
    OBVIOUS
  <1>3. \A t \in live : t[1] = id => t = <<id, p>>
    BY TaskOf
  <1>4. moved \subseteq Tasks
    BY DEF Ready, Tasks
  <1>5. \A x \in Ids : (\E t \in moved : t[1] = x) <=> (\E t \in live : t[1] = x)
    BY <1>1, <1>3
  <1>6. \A t, u \in moved : t[1] = u[1] => t = u
    BY <1>1, <1>3 DEF Ready
  <1> HIDE DEF moved
  <1>7. Cardinality({x \in busy \ {id} : priority[x] # "High"})
           <= DEFAULT_QUEUE_LIMIT
    <2>1. /\ {x \in busy : priority[x] # "High"} \in SUBSET Ids
          /\ {x \in busy \ {id} : priority[x] # "High"}
                \in SUBSET {x \in busy : priority[x] # "High"}
      BY DEF Ready, requests
    <2>2. Cardinality({x \in busy : priority[x] # "High"}) <= DEFAULT_QUEUE_LIMIT
      BY DEF Ready
    <2> DEFINE A == {x \in busy : priority[x] # "High"}
               B == {x \in busy \ {id} : priority[x] # "High"}
    <2> HIDE DEF A, B
    <2>3. /\ Cardinality(A) \in Nat /\ Cardinality(B) \in Nat
          /\ Cardinality(B) <= Cardinality(A)
      BY <2>1, Cards DEF A, B
    <2>4. Cardinality(B) <= DEFAULT_QUEUE_LIMIT
      BY <2>2, <2>3, LimitAssumption DEF A
    <2> QED BY <2>4 DEF B
  <1> QED
    BY <1>4, <1>5, <1>6, <1>7 DEF Ready, moved

(* The task and the request end together.                                  *)
LEMMA TaskEnds ==
    ASSUME NEW reqs, NEW count, NEW busy, NEW lim, NEW def, NEW low, NEW live,
           Ready(reqs, count, busy, lim, def, low, live),
           NEW id \in Ids, NEW p \in Phases, <<id, p>> \in live
    PROVE  Ready(reqs \ {id}, count, busy \ {id}, lim, def, low,
                 live \ {<<id, p>>})
  <1>1. /\ id \in reqs /\ ~Contains(def \o low, id)
        /\ \A t \in live : t[1] = id => t = <<id, p>>
        /\ Ready(reqs, count, busy \ {id}, lim, def, low,
                 (live \ {<<id, p>>}) \cup {<<id, p>>})
    BY TaskOf, TaskMoves
  <1>2. <<id, p>>[1] = id
    OBVIOUS
  <1>3. \A x \in Ids : (\E t \in live \ {<<id, p>>} : t[1] = x)
                          <=> x # id /\ (\E t \in live : t[1] = x)
    BY <1>1, <1>2
  <1> QED
    BY <1>1, <1>3 DEF Ready

(* The request gets another task, in the pool.                             *)
LEMMA TaskAgain ==
    ASSUME NEW reqs, NEW count, NEW busy, NEW lim, NEW def, NEW low, NEW live,
           Ready(reqs, count, busy, lim, def, low, live),
           NEW id \in Ids, NEW p \in Phases, <<id, p>> \in live,
           count[id] < MAX_REQUEST_RETRY_COUNT,
           priority[id] # "High" => ~IsLimitReached(busy \ {id}, 1)
    PROVE  Ready(reqs, [count EXCEPT ![id] = @ + 1], (busy \ {id}) \cup {id}, 1,
                 def, low, (live \ {<<id, p>>}) \cup {<<id, "spawned">>})
  <1> DEFINE again == (live \ {<<id, p>>}) \cup {<<id, "spawned">>}
             more == [count EXCEPT ![id] = @ + 1]
             rest == busy \ {id}
             all == rest \cup {id}
  <1>1. /\ id \in reqs /\ ~Contains(def \o low, id)
        /\ Ready(reqs, count, rest, lim, def, low, again)
    <2>1. "spawned" \in Phases
      BY DEF Phases
    <2> QED BY <2>1, TaskOf, TaskMoves
  <1>2. more \in [Ids -> 0..MAX_REQUEST_RETRY_COUNT]
    <2>1. count \in [Ids -> 0..MAX_REQUEST_RETRY_COUNT]
      BY DEF Ready
    <2>2. count[id] + 1 \in 0..MAX_REQUEST_RETRY_COUNT
      BY <2>1, RetryAssumption
    <2> QED BY <2>1, <2>2
  <1>3. Cardinality({x \in all : priority[x] # "High"}) <= DEFAULT_QUEUE_LIMIT
    <2>1. CASE priority[id] = "High"
      <3>1. {x \in all : priority[x] # "High"} = {x \in rest : priority[x] # "High"}
        BY <2>1
      <3> QED BY <3>1, <1>1 DEF Ready
    <2>2. CASE priority[id] # "High"
      <3>1. rest \in SUBSET Ids /\ all \in SUBSET Ids
            /\ {x \in all : priority[x] # "High"} \in SUBSET all
        BY <1>1 DEF Ready, requests
      <3> HIDE DEF rest
      <3>2. ~(Cardinality(rest) >= 1)
        BY <2>2 DEF IsLimitReached, rest
      <3>3. /\ Cardinality(rest) \in Nat /\ Cardinality(all) <= Cardinality(rest) + 1
            /\ Cardinality(all) \in Nat
            /\ Cardinality({x \in all : priority[x] # "High"}) \in Nat
            /\ Cardinality({x \in all : priority[x] # "High"}) <= Cardinality(all)
        BY <3>1, OneMore, Cards
      <3> QED BY <3>2, <3>3, LimitAssumption
    <2> QED BY <2>1, <2>2
  <1> HIDE DEF again, more
  <1> QED
    BY <1>1, <1>2, <1>3 DEF Ready, again, more

(* The request waits again, at the end of the list of its priority.        *)
LEMMA WaitsAgain ==
    ASSUME NEW reqs, NEW count, NEW busy, NEW lim, NEW def, NEW low, NEW live,
           Ready(reqs, count, busy, lim, def, low, live),
           NEW id \in Ids, NEW p \in Phases, <<id, p>> \in live,
           count[id] < MAX_REQUEST_RETRY_COUNT
    PROVE  LET more == [count EXCEPT ![id] = @ + 1]
               ended == live \ {<<id, p>>}
           IN  /\ priority[id] = "Default" =>
                     Ready(reqs, more, busy \ {id}, 1, Append(def, id), low, ended)
               /\ priority[id] = "Low" =>
                     Ready(reqs, more, busy \ {id}, 1, def, Append(low, id), ended)
  <1> DEFINE more == [count EXCEPT ![id] = @ + 1]
             ended == live \ {<<id, p>>}
  <1>1. id \in reqs /\ ~Contains(def \o low, id)
    BY TaskOf
  <1>2. more \in [Ids -> 0..MAX_REQUEST_RETRY_COUNT]
    <2>1. count \in [Ids -> 0..MAX_REQUEST_RETRY_COUNT]
      BY DEF Ready
    <2>2. count[id] + 1 \in 0..MAX_REQUEST_RETRY_COUNT
      BY <2>1, RetryAssumption
    <2> QED BY <2>1, <2>2
  <1>3. Ready(reqs \ {id}, count, busy \ {id}, lim, def, low, ended)
    BY TaskEnds
  <1>4. def \in Seq(Ids) /\ low \in Seq(Ids) /\ NoDup(def \o low)
    BY DEF Ready
  <1>5. /\ Append(def, id) \in Seq(Ids) /\ Append(low, id) \in Seq(Ids)
        /\ \A x : Contains(Append(def, id), x) <=> Contains(def, x) \/ x = id
        /\ \A x : Contains(Append(low, id), x) <=> Contains(low, x) \/ x = id
    BY <1>4, ContainsAppend
  <1>6. /\ NoDup(Append(def, id) \o low) /\ NoDup(def \o Append(low, id))
        /\ \A x : /\ Contains(Append(def, id) \o low, x)
                        <=> Contains(def \o low, x) \/ x = id
                  /\ Contains(def \o Append(low, id), x)
                        <=> Contains(def \o low, x) \/ x = id
    BY <1>1, <1>4, AppendToLine
  <1> HIDE DEF more, ended
  <1>7. ASSUME priority[id] = "Default"
        PROVE  Ready(reqs, more, busy \ {id}, 1, Append(def, id), low, ended)
    BY <1>1, <1>2, <1>3, <1>5, <1>6, <1>7 DEF Ready
  <1>8. ASSUME priority[id] = "Low"
        PROVE  Ready(reqs, more, busy \ {id}, 1, def, Append(low, id), ended)
    BY <1>1, <1>2, <1>3, <1>5, <1>6, <1>8 DEF Ready
  <1> QED
    BY <1>7, <1>8 DEF more, ended

-------------------------------------------------------------------------------
(* The inductive invariant: Ready whenever the mutex is free.              *)
HandlesOK ==
    handle \in [Handles -> [state : HandleStates, id : Ids \cup {NoId},
                            priority : Priorities \cup {"None"}]]

LEMMA InitIInv == Init => IInv
  <1> SUFFICES ASSUME Init PROVE IInv
    OBVIOUS
  <1>1. requests = {}
    BY DEF Init, requests
  <1>2. <<>> \in Seq(Ids) /\ <<>> \o <<>> = <<>> /\ \A id : ~Contains(<<>>, id)
    BY EmptySeq, ConcatEmptySeq DEF Contains
  <1>3. NoDup(<<>>)
    BY DEF NoDup
  <1>4. handle \in [Handles -> [state : HandleStates, id : Ids \cup {NoId},
                                priority : Priorities \cup {"None"}]]
    BY DEF Init, Handle, HandleStates
  <1>5. Cardinality({id \in ongoing : priority[id] # "High"}) <= DEFAULT_QUEUE_LIMIT
    <2>1. {id \in ongoing : priority[id] # "High"} = {}
      BY DEF Init
    <2> QED BY <2>1, FS_EmptySet, LimitAssumption
  <1>6. NoIdleCapacity
    BY DEF Init, NoIdleCapacity
  <1> QED
    BY <1>1, <1>2, <1>3, <1>4, <1>5, <1>6, LimitAssumption, RetryAssumption
    DEF Init, IInv, Ready

(* One step of LowYields.                                                  *)
LowStep ==
    \A low, default \in Ids :
        /\ Waiting(low) /\ priority[low] = "Low"
        /\ Waiting(default) /\ priority[default] = "Default"
        /\ low \in ongoing'
        => ~Waiting(default)'

LEMMA SpawnNextYields ==
    ASSUME NEW reqs, NEW count, NEW busy, NEW lim, NEW def, NEW low, NEW live,
           Ready(requests, retries, ongoing, limit, queue_default, queue_low, tasks),
           Ready(reqs, count, busy, lim, def, low, live),
           SpawnNext(reqs, count, busy, lim, def, low, live),
           \A id \in Ids : Contains(queue_low, id) => Contains(low, id)
    PROVE  LowStep
  <1> SUFFICES ASSUME NEW lo \in Ids, NEW de \in Ids,
                      Waiting(lo), priority[lo] = "Low",
                      Waiting(de), priority[de] = "Default", lo \in ongoing'
               PROVE  ~Waiting(de)'
    BY DEF LowStep
  <1>1. Contains(low, lo)
    BY DEF Waiting, Ready
  <1>2. queue_default' = <<>> /\ ~Contains(queue_low, de)'
    <2>1. ~Contains(low, de)
      BY DEF Ready
    <2> QED BY <1>1, <2>1, SpawnNextKeeps
  <1> QED BY <1>2 DEF Waiting, Contains

LEMMA StepIInv == IInv /\ [Next]_vars => IInv' /\ LowStep
  <1> SUFFICES ASSUME IInv, [Next]_vars PROVE IInv' /\ LowStep
    OBVIOUS
  <1>0. /\ Ready(requests, retries, ongoing, limit, queue_default, queue_low, tasks)
        /\ stalled \subseteq Ids /\ NoIdleCapacity /\ HandlesOK
    BY DEF IInv, HandlesOK
  <1>1. ASSUME NEW h \in Handles, NEW id \in Ids, NEW prio \in Priorities,
               ReuseRequest(h, id, prio)
        PROVE  IInv'
    <2>1. HandlesOK'
      BY <1>0, <1>1 DEF ReuseRequest, HandlesOK, Handle, HandleStates
    <2> QED
      BY <1>0, <1>1, <2>1
      DEF ReuseRequest, queues, IInv, Ready, requests, NoIdleCapacity, HandlesOK
  <1>2. ASSUME NEW h \in Handles, NEW id \in Ids, NEW prio \in Priorities,
               QueueRequest(h, id, prio)
        PROVE  IInv'
    <2> DEFINE spawns == ~IsLimitReached(ongoing, limit) \/ prio = "High"
               line == queue_default \o queue_low
               line2 == queue_default' \o queue_low'
    <2>1. /\ id \notin requests
          /\ priority' = [priority EXCEPT ![id] = prio]
          /\ ongoing' = IF spawns THEN ongoing \cup {id} ELSE ongoing
          /\ tasks' = IF spawns THEN tasks \cup {<<id, "spawned">>} ELSE tasks
          /\ queue_default' = IF ~spawns /\ WaitsInDefault(prio)
                              THEN Append(queue_default, id) ELSE queue_default
          /\ queue_low' = IF ~spawns /\ ~WaitsInDefault(prio)
                          THEN Append(queue_low, id) ELSE queue_low
          /\ UNCHANGED <<limit, stalled, retries>>
      BY <1>2 DEF QueueRequest
    <2>2. HandlesOK'
      BY <1>0, <1>2 DEF QueueRequest, HandlesOK, Handle, HandleStates
    <2>3. /\ priority' \in [Ids -> Priorities \cup {"None"}]
          /\ requests' = requests \cup {id}
          /\ \A x \in Ids : x # id => priority'[x] = priority[x]
          /\ priority'[id] = prio
      BY <1>0, <2>1 DEF Ready, requests, Priorities
    <2>4. /\ ~Contains(line, id) /\ id \notin ongoing
          /\ \A t \in tasks : t[1] # id
      BY <1>0, <2>1 DEF Ready
    <2>5. /\ queue_default \in Seq(Ids) /\ queue_low \in Seq(Ids) /\ NoDup(line)
          /\ ~Contains(queue_default, id) /\ ~Contains(queue_low, id)
      BY <1>0, <2>4, InConcat DEF Ready
    <2>6. CASE spawns
      <3>1. /\ ongoing' = ongoing \cup {id}
            /\ tasks' = tasks \cup {<<id, "spawned">>}
            /\ queue_default' = queue_default /\ queue_low' = queue_low
        BY <2>1, <2>6
      <3>2. /\ {x \in ongoing : priority[x] # "High"} \in SUBSET Ids
            /\ ongoing \in SUBSET Ids /\ ongoing' \in SUBSET Ids
            /\ ongoing \in SUBSET ongoing'
        BY <1>0, <3>1 DEF Ready, requests
      <3>3. Cardinality({x \in ongoing' : priority'[x] # "High"})
               <= DEFAULT_QUEUE_LIMIT
        <4>1. CASE prio = "High"
          <5>1. {x \in ongoing' : priority'[x] # "High"}
                   = {x \in ongoing : priority[x] # "High"}
            BY <4>1, <3>1, <3>2, <2>3, <2>4
          <5> QED BY <5>1, <1>0 DEF Ready
        <4>2. CASE prio # "High"
          <5> DEFINE counted == {x \in ongoing' : priority'[x] # "High"}
          <5>1. ~(Cardinality(ongoing) >= limit)
            BY <4>2, <2>6 DEF IsLimitReached
          <5>2. limit \in Nat /\ limit <= DEFAULT_QUEUE_LIMIT
            BY <1>0, LimitAssumption DEF Ready
          <5>3. counted \in SUBSET ongoing'
            OBVIOUS
          <5> HIDE DEF counted
          <5>4. /\ Cardinality(ongoing) \in Nat /\ Cardinality(ongoing') \in Nat
                /\ Cardinality(counted) \in Nat
                /\ Cardinality(ongoing') <= Cardinality(ongoing) + 1
                /\ Cardinality(counted) <= Cardinality(ongoing')
            BY <3>1, <3>2, <5>3, OneMore, Cards
          <5>5. Cardinality(counted) <= DEFAULT_QUEUE_LIMIT
            BY <5>1, <5>2, <5>4, LimitAssumption
          <5> QED BY <5>5 DEF counted
        <4> QED BY <4>1, <4>2
      <3>4. NoIdleCapacity'
        <4>1. /\ Cardinality(ongoing) \in Nat /\ Cardinality(ongoing') \in Nat
              /\ Cardinality(ongoing) <= Cardinality(ongoing')
          BY <3>2, Cards
        <4>2. limit \in Nat
          BY <1>0, LimitAssumption DEF Ready
        <4> QED
          BY <4>1, <4>2, <3>1, <2>1, <1>0 DEF NoIdleCapacity, IsLimitReached
      <3>5. /\ tasks' \subseteq Tasks
            /\ \A x \in Ids : (\E t \in tasks' : t[1] = x)
                                  <=> (\E t \in tasks : t[1] = x) \/ x = id
            /\ \A t, u \in tasks' : t[1] = u[1] => t = u
        <4>1. <<id, "spawned">> \in Tasks /\ <<id, "spawned">>[1] = id
          BY DEF Tasks, Phases
        <4>2. tasks \subseteq Tasks /\ \A t, u \in tasks : t[1] = u[1] => t = u
          BY <1>0 DEF Ready
        <4> HIDE DEF Tasks
        <4>3. tasks' \subseteq Tasks
          BY <4>1, <4>2, <3>1
        <4>4. \A x \in Ids : (\E t \in tasks' : t[1] = x)
                               <=> (\E t \in tasks : t[1] = x) \/ x = id
          BY <4>1, <3>1
        <4>5. ASSUME NEW t \in tasks', NEW u \in tasks', t[1] = u[1] PROVE t = u
          BY <4>1, <4>2, <4>5, <3>1, <2>4
        <4> QED BY <4>3, <4>4, <4>5
      <3>6. /\ \A x \in Ids : Contains(line, x) => x # id /\ x \in requests
            /\ \A x \in Ids : Contains(queue_default, x) => x # id
            /\ \A x \in Ids : Contains(queue_low, x) => x # id
        BY <2>4, <2>5, <1>0 DEF Ready
      <3>7. Ready(requests, retries, ongoing, limit, queue_default, queue_low,
                  tasks)'
        BY <1>0, <2>1, <2>3, <2>4, <2>5, <3>1, <3>2, <3>3, <3>5, <3>6 DEF Ready
      <3> QED BY <3>7, <3>4, <2>1, <2>2, <1>0 DEF IInv, HandlesOK
    <2>7. CASE ~spawns
      <3>1. /\ ongoing' = ongoing /\ tasks' = tasks /\ IsLimitReached(ongoing, limit)
            /\ prio # "High"
        BY <2>1, <2>7
      <3>2. \/ /\ prio = "Default" /\ queue_low' = queue_low
               /\ queue_default' = Append(queue_default, id)
            \/ /\ prio = "Low" /\ queue_default' = queue_default
               /\ queue_low' = Append(queue_low, id)
        BY <2>1, <2>7, <3>1 DEF Priorities, WaitsInDefault
      <3>3. /\ queue_default' \in Seq(Ids) /\ queue_low' \in Seq(Ids)
            /\ NoDup(line2)
            /\ \A x : Contains(line2, x) <=> Contains(line, x) \/ x = id
            /\ \A x : Contains(queue_default', x)
                   => Contains(queue_default, x) \/ (x = id /\ prio = "Default")
            /\ \A x : Contains(queue_low', x)
                   => Contains(queue_low, x) \/ (x = id /\ prio = "Low")
        <4>1. /\ Append(queue_default, id) \in Seq(Ids)
              /\ Append(queue_low, id) \in Seq(Ids)
              /\ \A x : Contains(Append(queue_default, id), x)
                          <=> Contains(queue_default, x) \/ x = id
              /\ \A x : Contains(Append(queue_low, id), x)
                          <=> Contains(queue_low, x) \/ x = id
          BY <2>5, ContainsAppend
        <4>2. /\ NoDup(Append(queue_default, id) \o queue_low)
              /\ NoDup(queue_default \o Append(queue_low, id))
              /\ \A x : /\ Contains(Append(queue_default, id) \o queue_low, x)
                              <=> Contains(line, x) \/ x = id
                        /\ Contains(queue_default \o Append(queue_low, id), x)
                              <=> Contains(line, x) \/ x = id
          BY <2>4, <2>5, AppendToLine
        <4>3. CASE /\ prio = "Default" /\ queue_low' = queue_low
                   /\ queue_default' = Append(queue_default, id)
          <5>1. line2 = Append(queue_default, id) \o queue_low
            BY <4>3
          <5> HIDE DEF line, line2
          <5>2. /\ NoDup(line2)
                /\ \A x : Contains(line2, x) <=> Contains(line, x) \/ x = id
            BY <5>1, <4>2
          <5> QED BY <5>2, <4>1, <4>3, <2>5
        <4>4. CASE /\ prio = "Low" /\ queue_default' = queue_default
                   /\ queue_low' = Append(queue_low, id)
          <5>1. line2 = queue_default \o Append(queue_low, id)
            BY <4>4
          <5> HIDE DEF line, line2
          <5>2. /\ NoDup(line2)
                /\ \A x : Contains(line2, x) <=> Contains(line, x) \/ x = id
            BY <5>1, <4>2
          <5> QED BY <5>2, <4>1, <4>4, <2>5
        <4> QED BY <3>2, <4>3, <4>4
      <3>4. {x \in ongoing' : priority'[x] # "High"}
               = {x \in ongoing : priority[x] # "High"}
        BY <1>0, <3>1, <2>3, <2>4 DEF Ready, requests
      <3>5. \A t \in tasks : t[1] \in Ids
        BY <1>0 DEF Ready, Tasks
      <3> HIDE DEF line, line2
      <3>6. /\ ongoing' \subseteq requests'
            /\ \A x \in Ids : Contains(line2, x) => x \in requests' \ ongoing'
            /\ \A x \in Ids : Contains(queue_default', x) => priority'[x] = "Default"
            /\ \A x \in Ids : Contains(queue_low', x) => priority'[x] = "Low"
        <4>1. /\ ongoing \subseteq requests
              /\ \A x \in Ids : Contains(line, x) => x \in requests \ ongoing
              /\ \A x \in Ids : Contains(queue_default, x) => priority[x] = "Default"
              /\ \A x \in Ids : Contains(queue_low, x) => priority[x] = "Low"
          BY <1>0 DEF Ready, line
        <4>2. ongoing' \subseteq requests'
          BY <4>1, <3>1, <2>3
        <4>3. \A x \in Ids : Contains(line2, x) => x \in requests' \ ongoing'
          BY <4>1, <3>1, <3>3, <2>3, <2>4
        <4>4. \A x \in Ids : Contains(queue_default', x) => priority'[x] = "Default"
          BY <4>1, <3>3, <2>3, <2>5
        <4>5. \A x \in Ids : Contains(queue_low', x) => priority'[x] = "Low"
          BY <4>1, <3>3, <2>3, <2>5
        <4> QED BY <4>2, <4>3, <4>4, <4>5
      <3>7. \A x \in Ids : (\E t \in tasks' : t[1] = x)
                              <=> x \in requests' /\ ~Contains(line2, x)
        BY <1>0, <2>3, <2>4, <3>1, <3>3 DEF Ready, line
      <3>8. Ready(requests, retries, ongoing, limit, queue_default, queue_low,
                  tasks)'
        <4>1. /\ retries' \in [Ids -> 0..MAX_REQUEST_RETRY_COUNT]
              /\ limit' \in {1, DEFAULT_QUEUE_LIMIT}
              /\ tasks' \subseteq Tasks
              /\ \A t, u \in tasks' : t[1] = u[1] => t = u
          BY <1>0, <2>1, <3>1 DEF Ready
        <4>2. Cardinality({x \in ongoing' : priority'[x] # "High"})
                 <= DEFAULT_QUEUE_LIMIT
          BY <1>0, <3>4 DEF Ready
        <4>3. /\ queue_default' \in Seq(Ids) /\ queue_low' \in Seq(Ids)
              /\ NoDup(line2)
          BY <3>3
        <4>4. priority' \in [Ids -> Priorities \cup {"None"}]
          BY <2>3
        <4> QED
          BY <4>1, <4>2, <4>3, <4>4, <3>6, <3>7 DEF Ready, line2
      <3>9. NoIdleCapacity'
        BY <3>1, <2>1 DEF NoIdleCapacity
      <3> QED BY <3>8, <3>9, <2>1, <2>2, <1>0 DEF IInv, HandlesOK
    <2> QED BY <2>6, <2>7
  <1>3. ASSUME NEW h \in Handles, DropHandle(h) PROVE IInv'
    <2>1. HandlesOK'
      BY <1>0, <1>3 DEF DropHandle, HandlesOK, Handle, HandleStates
    <2> QED
      BY <1>0, <1>3, <2>1
      DEF DropHandle, queues, IInv, Ready, requests, NoIdleCapacity, HandlesOK
  <1>4. ASSUME NEW id \in Ids, NEW p \in Phases, NEW q \in Phases,
               <<id, p>> \in tasks, tasks' = Move(<<id, p>>, <<id, q>>),
               UNCHANGED <<queues, priority, retries>>, HandlesOK'
        PROVE  IInv'
    <2>1. Ready(requests, retries, ongoing, limit, queue_default, queue_low,
                (tasks \ {<<id, p>>}) \cup {<<id, q>>})
      BY <1>0, <1>4, TaskMoves
    <2> QED
      BY <1>0, <1>4, <2>1
      DEF Move, queues, IInv, Ready, requests, NoIdleCapacity, HandlesOK
  <1>5. ASSUME NEW id \in Ids, StartTask(id) PROVE IInv'
    <2>1. HandlesOK'
      BY <1>0, <1>5 DEF StartTask, HandlesOK
    <2> QED BY <1>4, <1>5, <2>1 DEF StartTask, Phases
  <1>6. ASSUME NEW id \in Ids, FinishLoad(id) PROVE IInv'
    <2>1. HandlesOK'
      BY <1>0, <1>6 DEF FinishLoad, HandlesOK
    <2> QED BY <1>4, <1>6, <2>1 DEF FinishLoad, Phases
  <1>7. ASSUME NEW id \in Ids, SendResult(id) PROVE IInv'
    <2>1. HandlesOK'
      BY <1>0, <1>7 DEF SendResult, HandlesOK, Handle, HandleStates
    <2> QED BY <1>4, <1>7, <2>1 DEF SendResult, Phases
  <1>8. ASSUME NEW id \in Ids, MarkAsStalled(id) PROVE IInv' /\ LowStep
    <2>1. Ready(requests, retries, ongoing \ {id}, limit, queue_default,
                queue_low, Move(<<id, "loading">>, <<id, "overdue">>))
      <3>1. "loading" \in Phases /\ "overdue" \in Phases
        BY DEF Phases
      <3> QED BY <1>0, <1>8, <3>1, TaskMoves DEF MarkAsStalled, Move
    <2>2. HandlesOK' /\ stalled' \subseteq Ids
      BY <1>0, <1>8 DEF MarkAsStalled, HandlesOK
    <2>3. SpawnNext(requests, retries, ongoing \ {id}, limit, queue_default,
                    queue_low, Move(<<id, "loading">>, <<id, "overdue">>))
      BY <1>8 DEF MarkAsStalled
    <2>4. LowStep
      BY <1>0, <2>1, <2>3, SpawnNextYields
    <2> QED BY <2>1, <2>2, <2>3, <2>4, SpawnNextKeeps DEF IInv, HandlesOK
  <1>9. ASSUME NEW id \in Ids, RetryRequest(id) PROVE IInv' /\ LowStep
    <2> DEFINE ended(p) == tasks \ {<<id, p>>}
               busy == ongoing \ {id}
               more == [retries EXCEPT ![id] = @ + 1]
               spawns == \/ priority[id] = "High"
                         \/ /\ ~IsLimitReached(busy, 1)
                            /\ queue_default = <<>>
                            /\ priority[id] = "Default" \/ queue_low = <<>>
               known == id \in requests
               waits == known /\ ~spawns
    <2>1. PICK p \in {"loading", "overdue"} :
             /\ <<id, p>> \in tasks
             /\ retries[id] < MAX_REQUEST_RETRY_COUNT
             /\ SpawnNext(requests, more,
                   IF known /\ spawns THEN busy \cup {id} ELSE busy, 1,
                   IF waits /\ WaitsInDefault(priority[id])
                   THEN Append(queue_default, id) ELSE queue_default,
                   IF waits /\ ~WaitsInDefault(priority[id])
                   THEN Append(queue_low, id) ELSE queue_low,
                   IF known /\ spawns THEN ended(p) \cup {<<id, "spawned">>}
                   ELSE ended(p))
             /\ UNCHANGED <<stalled, handle>>
      BY <1>9 DEF RetryRequest, CanRetry
    <2>2. p \in Phases /\ known /\ priority[id] \in Priorities
      <3>1. p \in Phases
        BY DEF Phases
      <3>2. known
        BY <1>0, <2>1, TaskOf
      <3> QED BY <3>1, <3>2, <1>0 DEF Ready, requests
    <2>3. CASE spawns
      <3>1. Ready(requests, more, busy \cup {id}, 1, queue_default, queue_low,
                  ended(p) \cup {<<id, "spawned">>})
        <4>1. priority[id] # "High" => ~IsLimitReached(ongoing \ {id}, 1)
          BY <2>3
        <4> QED BY <1>0, <2>1, <2>2, <4>1, TaskAgain
      <3>2. SpawnNext(requests, more, busy \cup {id}, 1, queue_default, queue_low,
                      ended(p) \cup {<<id, "spawned">>})
        BY <2>1, <2>2, <2>3
      <3> HIDE DEF ended, busy, more
      <3>3. LowStep
        BY <1>0, <3>1, <3>2, SpawnNextYields
      <3> QED BY <1>0, <2>1, <3>1, <3>2, <3>3, SpawnNextKeeps DEF IInv, HandlesOK
    <2>4. CASE ~spawns /\ priority[id] = "Default"
      <3>1. Ready(requests, more, busy, 1, Append(queue_default, id), queue_low,
                  ended(p))
        BY <1>0, <2>1, <2>2, <2>4, WaitsAgain
      <3>2. SpawnNext(requests, more, busy, 1, Append(queue_default, id),
                      queue_low, ended(p))
        BY <2>1, <2>2, <2>4 DEF WaitsInDefault
      <3> HIDE DEF ended, busy, more
      <3>3. LowStep
        BY <1>0, <3>1, <3>2, SpawnNextYields
      <3> QED BY <1>0, <2>1, <3>1, <3>2, <3>3, SpawnNextKeeps DEF IInv, HandlesOK
    <2>5. CASE ~spawns /\ priority[id] = "Low"
      <3>1. Ready(requests, more, busy, 1, queue_default, Append(queue_low, id),
                  ended(p))
        BY <1>0, <2>1, <2>2, <2>5, WaitsAgain
      <3>2. SpawnNext(requests, more, busy, 1, queue_default,
                      Append(queue_low, id), ended(p))
        BY <2>1, <2>2, <2>5 DEF WaitsInDefault
      <3> HIDE DEF ended, busy, more
      <3>3. \A x \in Ids : Contains(queue_low, x) => Contains(Append(queue_low, id), x)
        BY <1>0, ContainsAppend DEF Ready
      <3>4. LowStep
        BY <1>0, <3>1, <3>2, <3>3, SpawnNextYields
      <3> QED BY <1>0, <2>1, <3>1, <3>2, <3>4, SpawnNextKeeps DEF IInv, HandlesOK
    <2> QED BY <2>2, <2>3, <2>4, <2>5 DEF Priorities
  <1>10. ASSUME NEW id \in Ids, RemoveRequest(id) PROVE IInv' /\ LowStep
    <2> DEFINE left == tasks \ {<<id, "sent">>}
    <2>1. /\ <<id, "sent">> \in tasks /\ stalled' = stalled \ {id}
          /\ SpawnNext(requests \ {id}, retries, ongoing \ {id}, limit,
                       Remove(queue_default, id), Remove(queue_low, id),
                       tasks \ ({<<id, "sent">>} \cup Abortable({id})))
      BY <1>10 DEF RemoveRequest
    <2>2. /\ ~Contains(queue_default \o queue_low, id)
          /\ \A t \in tasks : t[1] = id => t = <<id, "sent">>
      BY <1>0, <2>1, TaskOf
    <2>3. Remove(queue_default, id) = queue_default /\ Remove(queue_low, id) = queue_low
      <3>1. ~Contains(queue_default, id) /\ ~Contains(queue_low, id)
        BY <1>0, <2>2, InConcat DEF Ready
      <3> QED BY <3>1 DEF Remove
    <2>4. tasks \ ({<<id, "sent">>} \cup Abortable({id})) = left
      BY <2>2 DEF Abortable
    <2>5. Ready(requests \ {id}, retries, ongoing \ {id}, limit, queue_default,
                queue_low, left)
      <3>1. "sent" \in Phases
        BY DEF Phases
      <3> QED BY <1>0, <2>1, <3>1, TaskEnds
    <2>6. SpawnNext(requests \ {id}, retries, ongoing \ {id}, limit, queue_default,
                    queue_low, left)
      BY <2>1, <2>3, <2>4
    <2>7. HandlesOK'
      BY <1>0, <1>10 DEF RemoveRequest, HandlesOK, Handle, HandleStates
    <2> HIDE DEF left
    <2>8. LowStep
      BY <1>0, <2>5, <2>6, SpawnNextYields
    <2> QED BY <1>0, <2>1, <2>5, <2>6, <2>7, <2>8, SpawnNextKeeps DEF IInv, HandlesOK
  <1>11. ASSUME UNCHANGED vars PROVE IInv'
    BY <1>0, <1>11
    DEF vars, IInv, Ready, requests, NoIdleCapacity, HandlesOK
  <1>12. ASSUME \A x \in ongoing' : x \in ongoing \/ x \notin requests
         PROVE  LowStep
    <2>1. \A x \in Ids : Waiting(x) => x \in requests \ ongoing
      BY <1>0, InConcat DEF Ready, Waiting
    <2> QED BY <1>12, <2>1 DEF LowStep
  <1>13. ASSUME NEW h \in Handles, NEW id \in Ids, NEW prio \in Priorities,
                ReuseRequest(h, id, prio) \/ QueueRequest(h, id, prio)
         PROVE  LowStep
    BY <1>12, <1>13 DEF ReuseRequest, QueueRequest, queues
  <1>14. ASSUME NEW id \in Ids, StartTask(id) \/ FinishLoad(id) \/ SendResult(id)
         PROVE  LowStep
    BY <1>12, <1>14 DEF StartTask, FinishLoad, SendResult, queues
  <1>15. ASSUME NEW h \in Handles, DropHandle(h) PROVE LowStep
    BY <1>12, <1>15 DEF DropHandle, queues
  <1>16. ASSUME UNCHANGED vars PROVE LowStep
    BY <1>12, <1>16 DEF vars
  <1> QED
    BY <1>1, <1>2, <1>3, <1>5, <1>6, <1>7, <1>8, <1>9, <1>10, <1>11, <1>13,
       <1>14, <1>15, <1>16 DEF Next

LEMMA Invariant == Spec => []IInv
  <1> QED BY InitIInv, StepIInv, PTL DEF Spec

-------------------------------------------------------------------------------
(* The variables stay within their types: the limit is the default or one,  *)
(* and no request is retried more often than MAX_REQUEST_RETRY_COUNT.       *)
THEOREM TypeCorrect == Spec => []TypeOK
  <1>1. IInv => TypeOK
    BY DEF IInv, Ready, TypeOK, requests
  <1> QED BY <1>1, Invariant, PTL

(* ImageRequestQueueInner's map, lists and tasks agree: an image has at     *)
(* most one task, whatever is retried, removed and asked for again.         *)
THEOREM ListsAgree == Spec => []InSync
  <1>1. IInv => InSync
    <2> SUFFICES ASSUME IInv PROVE InSync
      OBVIOUS
    <2>1. \A id \in Ids : Waiting(id) <=> Contains(queue_default \o queue_low, id)
      BY InConcat DEF IInv, Ready, Waiting
    <2> QED BY <2>1 DEF IInv, Ready, InSync, NoDup
  <1> QED BY <1>1, Invariant, PTL

(* spawn_next is called wherever room may appear: no capacity is idle while *)
(* a request waits.                                                         *)
THEOREM NoIdle == Spec => []NoIdleCapacity
  <1>1. IInv => NoIdleCapacity
    BY DEF IInv
  <1> QED BY <1>1, Invariant, PTL

(* A waiting request of low priority enters the pool only when no request   *)
(* of default priority is left waiting.                                    *)
THEOREM LowAfterDefault == Spec => LowYields
  <1>1. IInv /\ [Next]_vars => [LowStep]_vars
    BY StepIInv
  <1> QED BY <1>1, Invariant, PTL DEF Spec, LowYields, LowStep

(* The pool never counts more than the default limit of requests without    *)
(* high priority, whatever limit the retries leave behind.                  *)
THEOREM Bounded == Spec => []PoolBounded
  <1>1. IInv => PoolBounded
    BY DEF IInv, Ready, PoolBounded
  <1> QED BY <1>1, Invariant, PTL
===============================================================================
