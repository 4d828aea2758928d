---------------------------- MODULE CallRecords_proofs ----------------------------
(***************************************************************************)
(* Proofs about CallRecords, for any calls, any batches of candidates and   *)
(* any limits: that the outcomes and their order agree, and that the        *)
(* candidates of a call reach the embedder in order, with none held back    *)
(* from a call that connects and none dropped while there is room.          *)
(***************************************************************************)
EXTENDS CallRecords, WellFoundedInduction, SequenceTheorems, TLAPS

(* What is remembered, and in what order.                                   *)
OutcomesInv ==
    /\ outcome_order \in Seq(CallIds)
    /\ OutcomesInOrder

(* A step learns of one outcome, or of none.                                *)
Learns == \E c \in CallIds, next \in Outcomes : NoteOutcome(c, next)

LEMMA StepLearns == [Next]_vars => Learns \/ UNCHANGED results
  <1> SUFFICES ASSUME [Next]_vars PROVE Learns \/ UNCHANGED results
    OBVIOUS
  <1>1. CASE UNCHANGED vars
    BY <1>1 DEF vars
  <1>2. CASE GrowOld \/ FinishAccept \/ ForgetEnded
    BY <1>2 DEF GrowOld, FinishAccept, ForgetEnded, results
  <1>3. ASSUME NEW c \in CallIds, Place(c) \/ BeginAccept(c) \/ EndLocally(c)
        PROVE  UNCHANGED results
    BY <1>3 DEF Place, BeginAccept, EndLocally, results
  <1>4. ASSUME NEW c \in CallIds,
               \/ HandleInvite(c) \/ HandleAnswer(c) \/ HandleSelectAnswer(c)
               \/ HandleReject(c) \/ HandleHangup(c)
        PROVE  Learns
    BY <1>4 DEF HandleInvite, HandleAnswer, HandleSelectAnswer, HandleReject,
                HandleHangup, Learns, Outcomes
  <1>5. ASSUME NEW b \in Batches, ReceiveCandidates(b) PROVE UNCHANGED results
    BY <1>5 DEF ReceiveCandidates, results
  <1> QED
    BY <1>1, <1>2, <1>3, <1>4, <1>5 DEF Next

-------------------------------------------------------------------------------
(* A call appended to an order without it, and the oldest left out.         *)
LEMMA AppendNew ==
    ASSUME NEW s \in Seq(CallIds), IsInjective(s), NEW c \in CallIds, c \notin ToSet(s)
    PROVE  LET t == Append(s, c)
           IN  /\ t \in Seq(CallIds) /\ IsInjective(t) /\ Len(t) = Len(s) + 1
               /\ ToSet(t) = ToSet(s) \cup {c}
  <1> DEFINE n == Len(s)
             t == Append(s, c)
  <1>1. /\ n \in Nat /\ t \in Seq(CallIds) /\ Len(t) = n + 1
        /\ DOMAIN s = 1..n /\ DOMAIN t = 1..n + 1
        /\ t[n + 1] = c /\ \A i \in 1..n : t[i] = s[i]
    BY AppendProperties, LenProperties
  <1> HIDE DEF n, t
  <1>2. \A i : i \in 1..n + 1 <=> i \in 1..n \/ i = n + 1
    BY <1>1
  <1>3. IsInjective(t)
    BY <1>1, <1>2 DEF IsInjective, ToSet
  <1>4. ToSet(t) = ToSet(s) \cup {c}
    BY <1>1, <1>2 DEF ToSet
  <1> QED
    BY <1>1, <1>3, <1>4 DEF n, t

LEMMA TailOfOrder ==
    ASSUME NEW t \in Seq(CallIds), IsInjective(t), Len(t) > 1
    PROVE  /\ Tail(t) \in Seq(CallIds) /\ IsInjective(Tail(t)) /\ Len(Tail(t)) = Len(t) - 1
           /\ ToSet(Tail(t)) \subseteq ToSet(t) /\ t[Len(t)] \in ToSet(Tail(t))
  <1> DEFINE n == Len(t)
             u == Tail(t)
  <1>1. /\ n \in Nat /\ n > 1 /\ u \in Seq(CallIds) /\ Len(u) = n - 1
        /\ \A i \in 1..n - 1 : u[i] = t[i + 1]
    BY HeadTailProperties, LenProperties
  <1>2. DOMAIN t = 1..n /\ DOMAIN u = 1..n - 1
    BY <1>1, LenProperties
  <1> HIDE DEF n, u
  <1>3. \A i \in 1..n - 1 : i \in Int /\ i + 1 \in 1..n
    BY <1>1
  <1>4. IsInjective(u)
    <2> SUFFICES ASSUME NEW i \in 1..n - 1, NEW j \in 1..n - 1, u[i] = u[j] PROVE i = j
      BY <1>2 DEF IsInjective
    <2>1. i + 1 = j + 1
      BY <1>1, <1>2, <1>3 DEF IsInjective
    <2> QED
      BY <2>1, <1>3
  <1>5. ToSet(u) \subseteq ToSet(t)
    BY <1>1, <1>2, <1>3 DEF ToSet
  <1>6. t[n] \in ToSet(u)
    <2>1. n - 1 \in 1..n - 1 /\ (n - 1) + 1 = n
      BY <1>1
    <2> QED
      BY <2>1, <1>1, <1>2 DEF ToSet
  <1> QED
    BY <1>1, <1>4, <1>5, <1>6 DEF n, u

(* note_outcome keeps the map and the order in agreement.                   *)
LEMMA NoteKeepsOrder ==
    ASSUME OutcomesInv, NEW c \in CallIds, NEW next, NoteOutcome(c, next)
    PROVE  OutcomesInv'
  <1> DEFINE order == Append(outcome_order, c)
  <1>1. /\ outcome_order \in Seq(CallIds) /\ DOMAIN outcomes = ToSet(outcome_order)
        /\ IsInjective(outcome_order) /\ Len(outcome_order) <= MAX_REMEMBERED_OUTCOMES
        /\ Len(outcome_order) \in Nat /\ MAX_REMEMBERED_OUTCOMES \in Nat \ {0}
    BY LenProperties, CallsAssumption DEF OutcomesInv, OutcomesInOrder
  <1>2. /\ outcome_order' = Remember(c)
        /\ DOMAIN outcomes' = (DOMAIN outcomes \cap ToSet(outcome_order')) \cup {c}
    BY DEF NoteOutcome
  <1>3. CASE c \in DOMAIN outcomes
    <2>1. outcome_order' = outcome_order /\ DOMAIN outcomes' = DOMAIN outcomes
      BY <1>1, <1>2, <1>3 DEF Remember
    <2> QED
      BY <1>1, <2>1 DEF OutcomesInv, OutcomesInOrder
  <1>4. CASE c \notin DOMAIN outcomes
    <2>1. /\ order \in Seq(CallIds) /\ IsInjective(order) /\ Len(order) = Len(outcome_order) + 1
          /\ ToSet(order) = DOMAIN outcomes \cup {c} /\ order[Len(order)] = c
      BY <1>1, <1>4, AppendNew, AppendProperties
    <2>2. outcome_order' = IF Len(order) > MAX_REMEMBERED_OUTCOMES THEN Tail(order) ELSE order
      BY <1>2, <1>4 DEF Remember
    <2> HIDE DEF order
    <2>3. CASE Len(order) > MAX_REMEMBERED_OUTCOMES
      <3>1. outcome_order' = Tail(order) /\ Len(order) > 1
        BY <2>2, <2>3, <1>1
      <3>2. /\ Tail(order) \in Seq(CallIds) /\ IsInjective(Tail(order))
            /\ Len(Tail(order)) = Len(order) - 1
            /\ ToSet(Tail(order)) \subseteq ToSet(order) /\ c \in ToSet(Tail(order))
        BY <2>1, <3>1, TailOfOrder
      <3>3. Len(outcome_order') <= MAX_REMEMBERED_OUTCOMES
        BY <1>1, <2>1, <3>1, <3>2
      <3>4. DOMAIN outcomes' = ToSet(outcome_order')
        BY <1>2, <2>1, <3>1, <3>2
      <3> QED
        BY <3>1, <3>2, <3>3, <3>4 DEF OutcomesInv, OutcomesInOrder
    <2>4. CASE ~(Len(order) > MAX_REMEMBERED_OUTCOMES)
      <3>1. outcome_order' = order
        BY <2>2, <2>4
      <3>2. Len(order) <= MAX_REMEMBERED_OUTCOMES
        BY <1>1, <2>1, <2>4
      <3>3. DOMAIN outcomes' = ToSet(outcome_order')
        BY <1>2, <2>1, <3>1
      <3> QED
        BY <2>1, <3>1, <3>2, <3>3 DEF OutcomesInv, OutcomesInOrder
    <2> QED
      BY <2>3, <2>4
  <1> QED
    BY <1>3, <1>4

LEMMA OutcomesInvariant == Spec => []OutcomesInv
  <1>1. Init => OutcomesInv
    <2> SUFFICES ASSUME Init PROVE OutcomesInv
      OBVIOUS
    <2>1. outcomes = <<>> /\ outcome_order = <<>>
      BY DEF Init
    <2>2. /\ outcome_order \in Seq(CallIds) /\ Len(outcome_order) = 0
          /\ DOMAIN outcome_order = {} /\ DOMAIN outcomes = {}
      BY <2>1, EmptySeq, LenProperties
    <2> QED
      BY <2>2, CallsAssumption DEF OutcomesInv, OutcomesInOrder, ToSet, IsInjective
  <1>2. OutcomesInv /\ [Next]_vars => OutcomesInv'
    <2> SUFFICES ASSUME OutcomesInv, [Next]_vars PROVE OutcomesInv'
      OBVIOUS
    <2>1. CASE Learns
      BY <2>1, NoteKeepsOrder DEF Learns
    <2>2. CASE UNCHANGED results
      BY <2>2 DEF results, OutcomesInv, OutcomesInOrder
    <2> QED
      BY <2>1, <2>2, StepLearns
  <1> QED
    BY <1>1, <1>2, PTL DEF Spec

-------------------------------------------------------------------------------
(* The map of outcomes and the order in which they are forgotten are two    *)
(* fields of Calls behind two locks; whatever outcomes are learned, and how *)
(* often, they name the same calls, each once, and no more than the limit.  *)
THEOREM OrderKept == Spec => []OutcomesInOrder
  <1>1. OutcomesInv => OutcomesInOrder
    BY DEF OutcomesInv
  <1> QED
    BY <1>1, OutcomesInvariant, PTL

(* merge_outcome: a call that was answered is not missed for its hangup,    *)
(* for as long as it is remembered.                                         *)
THEOREM AnsweredStays == Spec => AnsweredIsNotMissed
  <1> DEFINE Kept == \A c \in DOMAIN outcomes \cap DOMAIN outcomes' :
                        outcomes[c] = "Answered" => outcomes'[c] # "Missed"
  <1>1. [Next]_vars => [Kept]_vars
    <2> SUFFICES ASSUME [Next]_vars, NEW c \in DOMAIN outcomes \cap DOMAIN outcomes',
                        outcomes[c] = "Answered"
                 PROVE  outcomes'[c] # "Missed"
      OBVIOUS
    <2>1. CASE UNCHANGED results
      BY <2>1 DEF results
    <2>2. ASSUME NEW d \in CallIds, NEW next \in Outcomes, NoteOutcome(d, next)
          PROVE  outcomes'[c] # "Missed"
      <3>1. outcomes'[c] = IF c = d THEN MergeOutcome(d, next) ELSE outcomes[c]
        BY <2>2 DEF NoteOutcome
      <3> QED
        BY <3>1 DEF MergeOutcome
    <2> QED
      BY <2>1, <2>2, StepLearns DEF Learns
  <1> QED
    BY <1>1, PTL DEF Spec, AnsweredIsNotMissed

-------------------------------------------------------------------------------
(* What Only keeps, by induction on the length of the sequence              *)

(* A set of numbers has a least one.                                        *)
LEMMA NatMin ==
    ASSUME NEW T, T \subseteq Nat, T # {}
    PROVE  \E m \in T : \A k \in T : m <= k
  <1> DEFINE R == OpToRel(<, Nat)
  <1>1. IsWellFoundedOn(R, Nat)
    BY Zenon, NatLessThanWellFounded
  <1>2. \A x, y \in Nat : <<x, y>> \in R <=> x < y
    BY DEF OpToRel
  <1> HIDE DEF R
  <1>3. PICK m \in T : \A k \in T : ~ (<<k, m>> \in R)
    BY Zenon, <1>1, WFMin
  <1>4. ASSUME NEW k \in T PROVE m <= k
    <2>1. k \in Nat /\ m \in Nat
      OBVIOUS
    <2>2. ~(k < m)
      BY <1>2, <1>3, <2>1
    <2> QED
      BY <2>1, <2>2
  <1> QED
    BY <1>3, <1>4

(* A set with 0, and with the successor of each number in it, has them all. *)
LEMMA SetInduction ==
    ASSUME NEW T, 0 \in T, \A n \in Nat : n \in T => n + 1 \in T
    PROVE  Nat \subseteq T
  <1> DEFINE U == Nat \ T
  <1> SUFFICES ASSUME U # {} PROVE FALSE
    OBVIOUS
  <1>1. PICK m \in U : \A k \in U : m <= k
    BY NatMin
  <1>2. m \in Nat /\ m # 0 /\ m - 1 \in Nat
    OBVIOUS
  <1>3. m - 1 \in T
    BY <1>1, <1>2
  <1>4. (m - 1) + 1 \in T
    BY <1>2, <1>3
  <1> QED
    BY <1>2, <1>4

\* What the first n elements of s leave in r, which the places h find there.
Leaves(s, T, n, r, h) ==
    /\ h \in [DOMAIN r -> 1..n]
    /\ \A k \in DOMAIN r : r[k] = s[h[k]] /\ s[h[k]] \in T
    /\ \A k \in DOMAIN r : k <= h[k] /\ h[k] - k <= n - Len(r)
    /\ \A k, l \in DOMAIN r : k < l => h[k] < h[l]
    /\ \A i \in 1..n : s[i] \in T => \E k \in DOMAIN r : h[k] = i

\* f is what the definition of Only builds for the first n elements.
Keeps(s, T, n, f) ==
    f = [i \in 0..n |-> IF i = 0 THEN <<>>
                        ELSE IF s[i] \in T THEN Append(f[i - 1], s[i]) ELSE f[i - 1]]

(* There is such a function: the one of n extends to one of n + 1.          *)
LEMMA KeptFunction ==
    ASSUME NEW s, NEW T, NEW n \in Nat
    PROVE  \E f : Keeps(s, T, n, f)
  <1> DEFINE K(f, i) == IF i = 0 THEN <<>>
                        ELSE IF s[i] \in T THEN Append(f[i - 1], s[i]) ELSE f[i - 1]
             Ok == {m \in Nat : \E f : f = [i \in 0..m |-> K(f, i)]}
  <1>1. 0 \in Ok
    <2> DEFINE f == [i \in 0..0 |-> <<>>]
    <2>1. f = [i \in 0..0 |-> K(f, i)]
      <3>1. \A i \in 0..0 : K(f, i) = <<>>
        OBVIOUS
      <3> QED
        BY <3>1
    <2> QED
      BY <2>1
  <1>2. ASSUME NEW m \in Nat, m \in Ok PROVE m + 1 \in Ok
    <2>1. PICK f : f = [i \in 0..m |-> K(f, i)]
      BY <1>2
    <2> DEFINE g == [i \in 0..m + 1 |-> IF i = m + 1 THEN K(f, i) ELSE f[i]]
    <2>2. \A i \in 0..m + 1 : g[i] = K(g, i)
      <3> SUFFICES ASSUME NEW i \in 0..m + 1 PROVE g[i] = K(g, i)
        OBVIOUS
      <3>1. CASE i = 0
        <4>1. g[i] = f[i] /\ f[i] = K(f, i)
          BY <2>1, <3>1
        <4> QED
          BY <4>1, <3>1
      <3>2. CASE i # 0
        <4>1. i - 1 \in 0..m
          BY <3>2
        <4>2. g[i - 1] = f[i - 1]
          BY <4>1
        <4>3. g[i] = K(f, i)
          <5> HIDE DEF K
          <5>1. i \in 0..m \/ i = m + 1
            OBVIOUS
          <5>2. i \in 0..m => f[i] = K(f, i)
            BY <2>1
          <5> QED
            BY <5>1, <5>2
        <4> HIDE DEF g
        <4> QED
          BY <3>2, <4>2, <4>3
      <3> QED
        BY <3>1, <3>2
    <2>3. g = [i \in 0..m + 1 |-> K(g, i)]
      <3>1. \A i \in 0..m + 1 : g[i] = K(g, i)
        BY <2>2
      <3>2. g = [i \in 0..m + 1 |-> g[i]]
        OBVIOUS
      <3> HIDE DEF g, K
      <3> QED
        BY <3>1, <3>2
    <2>4. m + 1 \in Nat
      OBVIOUS
    <2> HIDE DEF g, K
    <2> QED
      BY <2>3, <2>4
  <1> HIDE DEF Ok
  <1>3. n \in Ok
    BY <1>1, <1>2, SetInduction
  <1> QED
    BY <1>3 DEF Ok, Keeps

(* What is left has its place in s, whatever is looked at of s.             *)
LEMMA OnlyLeaves ==
    ASSUME NEW S, NEW s \in Seq(S), NEW T
    PROVE  /\ Only(s, T) \in Seq(S)
           /\ \E h : Leaves(s, T, Len(s), Only(s, T), h)
  <1> DEFINE n == Len(s)
  <1>1. n \in Nat /\ \A i \in 1..n : s[i] \in S
    BY LenProperties, ElementOfSeq
  <1> HIDE DEF n
  <1> DEFINE K(f, i) == IF i = 0 THEN <<>>
                        ELSE IF s[i] \in T THEN Append(f[i - 1], s[i]) ELSE f[i - 1]
             kept == CHOOSE f : f = [i \in 0..n |-> K(f, i)]
             Ok == {m \in Nat : m <= n => /\ kept[m] \in Seq(S)
                                          /\ \E h : Leaves(s, T, m, kept[m], h)}
  <1>2. kept = [i \in 0..n |-> K(kept, i)]
    <2>1. PICK f : Keeps(s, T, n, f)
      BY <1>1, KeptFunction
    <2>2. f = [i \in 0..n |-> K(f, i)]
      BY <2>1 DEF Keeps
    <2> HIDE DEF K
    <2> QED
      BY <2>2
  <1>3. Only(s, T) = kept[n]
    BY DEF Only, n
  <1> HIDE DEF kept
  <1>4. 0 \in Ok
    <2>1. kept[0] = <<>>
      BY <1>1, <1>2
    <2>2. Leaves(s, T, 0, <<>>, <<>>)
      BY DEF Leaves
    <2>3. kept[0] \in Seq(S) /\ Leaves(s, T, 0, kept[0], <<>>)
      BY <2>1, <2>2
    <2> QED
      BY <2>3
  <1>5. ASSUME NEW m \in Nat, m \in Ok, m + 1 <= n PROVE m + 1 \in Ok
    <2> DEFINE r == kept[m]
    <2>1. r \in Seq(S) /\ m <= n
      BY <1>1, <1>5
    <2>2. PICK h : Leaves(s, T, m, r, h)
      BY <1>1, <1>5
    <2>3. kept[m + 1] = IF s[m + 1] \in T THEN Append(r, s[m + 1]) ELSE r
      <3>1. m + 1 \in 0..n /\ m + 1 # 0 /\ (m + 1) - 1 = m
        BY <1>1, <1>5
      <3> QED
        BY <1>2, <3>1
    <2>4. s[m + 1] \in S
      BY <1>1, <1>5
    <2> HIDE DEF r
    <2>5. CASE s[m + 1] \notin T
      <3>1. Leaves(s, T, m + 1, r, h)
        <4>1. Len(r) \in Nat /\ DOMAIN r = 1..Len(r)
          BY <2>1, LenProperties
        <4>2. \A i \in 1..m + 1 : i \in 1..m \/ i = m + 1
          OBVIOUS
        <4>3. 1..m \subseteq 1..m + 1
          OBVIOUS
        <4>4. h \in [DOMAIN r -> 1..m]
          BY <2>2 DEF Leaves
        <4>5. h \in [DOMAIN r -> 1..m + 1]
          BY <4>3, <4>4
        <4>6. \A k \in DOMAIN r : k <= h[k] /\ h[k] - k <= m - Len(r)
          BY <2>2 DEF Leaves
        <4>7. \A k \in DOMAIN r : h[k] \in Nat /\ k \in Nat
          BY <4>1, <4>4
        <4>8. \A k \in DOMAIN r : k <= h[k] /\ h[k] - k <= (m + 1) - Len(r)
          BY <4>1, <4>6, <4>7
        <4>9. \A i \in 1..m + 1 : s[i] \in T => \E k \in DOMAIN r : h[k] = i
          BY <2>2, <2>5, <4>2 DEF Leaves
        <4>10. /\ \A k \in DOMAIN r : r[k] = s[h[k]] /\ s[h[k]] \in T
               /\ \A k, l \in DOMAIN r : k < l => h[k] < h[l]
          BY <2>2 DEF Leaves
        <4> QED
          BY <4>5, <4>8, <4>9, <4>10 DEF Leaves
      <3>2. kept[m + 1] = r
        BY <2>3, <2>5
      <3> QED
        BY <2>1, <3>1, <3>2
    <2>6. CASE s[m + 1] \in T
      <3> DEFINE q == Append(r, s[m + 1])
                 x == Len(r) + 1
                 g == [k \in DOMAIN q |-> IF k = x THEN m + 1 ELSE h[k]]
      <3>1. /\ Len(r) \in Nat /\ DOMAIN r = 1..Len(r) /\ q \in Seq(S) /\ Len(q) = x
            /\ q[x] = s[m + 1] /\ \A k \in 1..Len(r) : q[k] = r[k]
            /\ DOMAIN q = 1..x
        BY <2>1, <2>4, LenProperties, AppendProperties
      <3>2. \A k : k \in DOMAIN q <=> k \in DOMAIN r \/ k = x
        BY <3>1
      <3>3. \A k \in DOMAIN r : k # x /\ k < x /\ k \in Nat
        BY <3>1
      <3> HIDE DEF q
      <3>4. g[x] = m + 1 /\ \A k \in DOMAIN r : g[k] = h[k]
        BY <3>2, <3>3
      <3>5. \A k \in DOMAIN r : h[k] \in 1..m /\ h[k] \in Nat
        BY <2>2 DEF Leaves
      <3>6. g \in [DOMAIN q -> 1..m + 1]
        BY <3>2, <3>5
      <3> HIDE DEF g
      <3>7. \A k \in DOMAIN q : q[k] = s[g[k]] /\ s[g[k]] \in T
        BY <2>2, <2>6, <3>1, <3>2, <3>4 DEF Leaves
      <3>8. \A k \in DOMAIN q : k <= g[k] /\ g[k] - k <= (m + 1) - Len(q)
        <4>1. Len(r) <= m
          <5>1. CASE Len(r) = 0
            BY <5>1
          <5>2. CASE Len(r) # 0
            <6>1. Len(r) \in DOMAIN r
              BY <3>1, <5>2
            <6> QED
              BY <6>1, <3>1, <3>5, <2>2 DEF Leaves
          <5> QED
            BY <5>1, <5>2
        <4>2. \A k \in DOMAIN r : k <= h[k] /\ h[k] - k <= m - Len(r)
          BY <2>2 DEF Leaves
        <4> QED
          BY <3>1, <3>2, <3>3, <3>4, <3>5, <4>1, <4>2
      <3>9. \A k, l \in DOMAIN q : k < l => g[k] < g[l]
        <4>1. \A k, l \in DOMAIN r : k < l => h[k] < h[l]
          BY <2>2 DEF Leaves
        <4>2. x \in Nat
          BY <3>1
        <4> QED
          BY <3>2, <3>3, <3>4, <3>5, <4>1, <4>2
      <3>10. \A i \in 1..m + 1 : s[i] \in T => \E k \in DOMAIN q : g[k] = i
        <4>1. \A i \in 1..m + 1 : i \in 1..m \/ i = m + 1
          OBVIOUS
        <4>2. \A i \in 1..m : s[i] \in T => \E k \in DOMAIN r : h[k] = i
          BY <2>2 DEF Leaves
        <4> QED
          BY <3>2, <3>4, <4>1, <4>2
      <3>11. Leaves(s, T, m + 1, q, g)
        BY <3>6, <3>7, <3>8, <3>9, <3>10 DEF Leaves
      <3>12. kept[m + 1] = q
        BY <2>3, <2>6 DEF q
      <3> QED
        BY <3>1, <3>11, <3>12
    <2> QED
      BY <2>5, <2>6
  <1>6. n \in Ok
    <2>1. ASSUME NEW m \in Nat, m \in Ok PROVE m + 1 \in Ok
      <3>1. CASE m + 1 <= n
        BY <1>5, <2>1, <3>1
      <3>2. CASE ~(m + 1 <= n)
        BY <3>2
      <3> QED
        BY <3>1, <3>2
    <2> HIDE DEF Ok
    <2> QED
      BY <1>1, <1>4, <2>1, SetInduction
  <1>7. kept[n] \in Seq(S) /\ \E h : Leaves(s, T, n, kept[n], h)
    BY <1>1, <1>6
  <1> QED
    BY <1>3, <1>7 DEF n

(* No batch comes before an earlier one of its call.                        *)
InOrder(s) ==
    \A i, j \in DOMAIN s : i < j /\ s[i].call = s[j].call => s[i].n < s[j].n

Before(S, T) == \A x \in S, y \in T : x.call = y.call => x.n < y.n

(* What Only keeps: the elements in T, in order, and all when it is as long.*)
LEMMA OnlyKeeps ==
    ASSUME NEW S, NEW s \in Seq(S), NEW T
    PROVE  LET r == Only(s, T)
           IN  /\ r \in Seq(S)
               /\ ToSet(r) = ToSet(s) \cap T
               /\ InOrder(s) => InOrder(r)
               /\ Len(r) <= Len(s)
               /\ Len(r) = Len(s) => r = s
  <1> DEFINE r == Only(s, T)
             n == Len(s)
             m == Len(r)
  <1>1. r \in Seq(S) /\ \E h : Leaves(s, T, n, r, h)
    BY OnlyLeaves
  <1>2. PICK h : Leaves(s, T, n, r, h)
    BY <1>1
  <1> HIDE DEF r
  <1>3. n \in Nat /\ m \in Nat /\ DOMAIN s = 1..n /\ DOMAIN r = 1..m
    BY <1>1, LenProperties
  <1>4. /\ s = [k \in 1..n |-> s[k]]
        /\ r = [k \in 1..m |-> r[k]]
    BY <1>1, LenProperties
  <1> HIDE DEF n, m
  <1>5. /\ \A k \in 1..m : h[k] \in 1..n /\ r[k] = s[h[k]] /\ s[h[k]] \in T
        /\ \A k, l \in 1..m : k < l => h[k] < h[l]
        /\ \A i \in 1..n : s[i] \in T => \E k \in 1..m : h[k] = i
    BY <1>2, <1>3 DEF Leaves
  <1>6. \A k \in 1..m : k <= h[k] /\ h[k] - k <= n - m
    BY <1>2, <1>3 DEF Leaves, m
  <1>7. ToSet(r) = ToSet(s) \cap T
    <2>1. ToSet(r) = {r[k] : k \in 1..m} /\ ToSet(s) = {s[k] : k \in 1..n}
      BY <1>3 DEF ToSet
    <2> QED
      BY <1>5, <2>1
  <1>8. InOrder(s) => InOrder(r)
    <2> SUFFICES ASSUME InOrder(s), NEW k \in 1..m, NEW l \in 1..m, k < l,
                        r[k].call = r[l].call
                 PROVE  r[k].n < r[l].n
      BY <1>3 DEF InOrder
    <2>1. h[k] \in 1..n /\ h[l] \in 1..n /\ h[k] < h[l] /\ r[k] = s[h[k]] /\ r[l] = s[h[l]]
      BY <1>5
    <2> QED
      BY <1>3, <2>1 DEF InOrder
  <1>9. m <= n
    <2>1. CASE m = 0
      BY <1>3, <2>1
    <2>2. CASE m # 0
      <3>1. m \in 1..m
        BY <1>3, <2>2
      <3>2. h[m] \in 1..n /\ m <= h[m]
        BY <3>1, <1>5, <1>6
      <3> QED
        BY <3>2, <1>3
    <2> QED
      BY <2>1, <2>2
  <1>10. m = n => r = s
    <2> SUFFICES ASSUME m = n PROVE r = s
      OBVIOUS
    <2>1. ASSUME NEW k \in 1..m PROVE r[k] = s[k]
      <3>1. h[k] \in Int /\ k \in Int /\ k <= h[k] /\ h[k] - k <= 0 /\ r[k] = s[h[k]]
        BY <1>3, <1>5, <1>6
      <3>2. h[k] = k
        BY <3>1
      <3> QED
        BY <3>1, <3>2
    <2> QED
      BY <1>4, <2>1
  <1> QED
    BY <1>1, <1>7, <1>8, <1>9, <1>10 DEF r, n, m

LEMMA EmptyInOrder == InOrder(<<>>) /\ ToSet(<<>>) = {}
  BY EmptySeq, LenProperties DEF InOrder, ToSet

(* One sequence after another.                                              *)
LEMMA ConcatInOrder ==
    ASSUME NEW s \in Seq(Batches), NEW t \in Seq(Batches)
    PROVE  /\ s \o t \in Seq(Batches)
           /\ Len(s \o t) = Len(s) + Len(t)
           /\ ToSet(s \o t) = ToSet(s) \cup ToSet(t)
           /\ InOrder(s) /\ InOrder(t) /\ Before(ToSet(s), ToSet(t)) => InOrder(s \o t)
  <1> DEFINE m == Len(s)
             n == Len(t)
             u == s \o t
  <1>1. /\ m \in Nat /\ n \in Nat /\ u \in Seq(Batches) /\ Len(u) = m + n
        /\ DOMAIN s = 1..m /\ DOMAIN t = 1..n /\ DOMAIN u = 1..m + n
    BY ConcatProperties, LenProperties
  <1>2. \A i \in 1..m : u[i] = s[i]
    BY ConcatProperties, <1>1
  <1>3. \A i \in 1..n : u[m + i] = t[i]
    BY ConcatProperties, <1>1
  <1> HIDE DEF m, n, u
  <1>4. \A i \in 1..m + n : i \in 1..m \/ (i - m \in 1..n /\ i = m + (i - m))
    BY <1>1
  <1>5. ASSUME NEW i \in 1..m + n
        PROVE  \/ i \in 1..m /\ u[i] = s[i]
               \/ i > m /\ i - m \in 1..n /\ u[i] = t[i - m]
    BY <1>1, <1>2, <1>3, <1>4
  <1>6. ToSet(u) = ToSet(s) \cup ToSet(t)
    <2>1. /\ ToSet(s) = {s[k] : k \in 1..m} /\ ToSet(t) = {t[k] : k \in 1..n}
          /\ ToSet(u) = {u[k] : k \in 1..m + n}
      BY <1>1 DEF ToSet
    <2>2. 1..m \subseteq 1..m + n /\ \A k \in 1..n : m + k \in 1..m + n
      BY <1>1
    <2>3. ToSet(u) \subseteq ToSet(s) \cup ToSet(t)
      BY <1>5, <2>1
    <2>4. ToSet(s) \subseteq ToSet(u) /\ ToSet(t) \subseteq ToSet(u)
      BY <1>2, <1>3, <2>1, <2>2
    <2> QED
      BY <2>3, <2>4
  <1>7. ASSUME InOrder(s), InOrder(t), Before(ToSet(s), ToSet(t)) PROVE InOrder(u)
    <2> SUFFICES ASSUME NEW i \in 1..m + n, NEW j \in 1..m + n, i < j,
                        u[i].call = u[j].call
                 PROVE  u[i].n < u[j].n
      BY <1>1 DEF InOrder
    <2>1. CASE j \in 1..m
      <3>1. i \in 1..m
        BY <1>1, <2>1
      <3> QED
        BY <1>1, <1>2, <1>7, <2>1, <3>1 DEF InOrder
    <2>2. CASE j \notin 1..m /\ i \in 1..m
      <3>1. u[i] \in ToSet(s) /\ u[j] \in ToSet(t)
        BY <1>1, <1>2, <1>5, <2>2 DEF ToSet
      <3> QED
        BY <1>7, <3>1 DEF Before
    <2>3. CASE j \notin 1..m /\ i \notin 1..m
      <3>1. /\ i - m \in 1..n /\ j - m \in 1..n /\ i - m < j - m
            /\ u[i] = t[i - m] /\ u[j] = t[j - m]
        BY <1>1, <1>5, <2>3
      <3> QED
        BY <1>1, <1>7, <3>1 DEF InOrder
    <2> QED
      BY <2>1, <2>2, <2>3
  <1> QED
    BY <1>1, <1>6, <1>7 DEF m, n, u

(* A batch by itself, and after others.                                     *)
LEMMA OneInOrder ==
    ASSUME NEW b \in Batches
    PROVE  <<b>> \in Seq(Batches) /\ Len(<<b>>) = 1 /\ ToSet(<<b>>) = {b} /\ InOrder(<<b>>)
  <1>1. <<b>> \in Seq(Batches) /\ Len(<<b>>) = 1 /\ DOMAIN <<b>> = 1..1 /\ <<b>>[1] = b
    OBVIOUS
  <1> QED
    BY <1>1 DEF ToSet, InOrder

LEMMA AppendInOrder ==
    ASSUME NEW s \in Seq(Batches), NEW b \in Batches
    PROVE  /\ Append(s, b) \in Seq(Batches)
           /\ Len(Append(s, b)) = Len(s) + 1
           /\ ToSet(Append(s, b)) = ToSet(s) \cup {b}
           /\ InOrder(s) /\ Before(ToSet(s), {b}) => InOrder(Append(s, b))
  <1>1. Append(s, b) = s \o <<b>>
    BY AppendIsConcat
  <1> QED
    BY <1>1, OneInOrder, ConcatInOrder

(* What is left without the first one.                                      *)
LEMMA TailInOrder ==
    ASSUME NEW s \in Seq(Batches), Len(s) > 0
    PROVE  /\ Tail(s) \in Seq(Batches)
           /\ Len(Tail(s)) = Len(s) - 1
           /\ ToSet(s) = ToSet(Tail(s)) \cup {Head(s)}
           /\ InOrder(s) => InOrder(Tail(s))
  <1> DEFINE n == Len(s)
             t == Tail(s)
  <1>1. /\ n \in Nat \ {0} /\ t \in Seq(Batches) /\ Len(t) = n - 1
        /\ DOMAIN s = 1..n /\ DOMAIN t = 1..n - 1
        /\ Head(s) = s[1] /\ \A i \in 1..n - 1 : t[i] = s[i + 1]
    BY HeadTailProperties, LenProperties
  <1> HIDE DEF n, t
  <1>2. \A i \in 1..n - 1 : i + 1 \in 1..n
    BY <1>1
  <1>3. \A i \in 1..n : i = 1 \/ (i - 1 \in 1..n - 1 /\ s[i] = t[i - 1])
    BY <1>1
  <1>4. ToSet(s) = ToSet(t) \cup {Head(s)}
    <2>1. /\ ToSet(s) = {s[k] : k \in 1..n} /\ ToSet(t) = {t[k] : k \in 1..n - 1}
          /\ 1 \in 1..n /\ Head(s) = s[1]
      BY <1>1 DEF ToSet
    <2>2. \A i \in 1..n : s[i] \in ToSet(t) \cup {Head(s)}
      BY <1>3, <2>1
    <2>3. \A i \in 1..n - 1 : t[i] \in ToSet(s)
      BY <1>1, <1>2, <2>1
    <2> QED
      BY <2>1, <2>2, <2>3
  <1>5. InOrder(s) => InOrder(t)
    <2> SUFFICES ASSUME InOrder(s), NEW i \in 1..n - 1, NEW j \in 1..n - 1, i < j,
                        t[i].call = t[j].call
                 PROVE  t[i].n < t[j].n
      BY <1>1 DEF InOrder
    <2>1. /\ i + 1 \in 1..n /\ j + 1 \in 1..n /\ i + 1 < j + 1
          /\ t[i] = s[i + 1] /\ t[j] = s[j + 1]
      BY <1>1, <1>2
    <2> QED
      BY <1>1, <2>1 DEF InOrder
  <1> QED
    BY <1>1, <1>4, <1>5 DEF n, t

-------------------------------------------------------------------------------
(* The types.                                                               *)

(* The same, of its length only.                                            *)
LEMMA OnlyBatches ==
    ASSUME NEW s \in Seq(Batches), NEW T
    PROVE  /\ Only(s, T) \in Seq(Batches)
           /\ Len(Only(s, T)) <= Len(s) /\ Len(Only(s, T)) \in Nat /\ Len(s) \in Nat
  BY OnlyKeeps, LenProperties

CallTypes ==
    /\ active_call \in CallIds \cup {None} /\ accepting \in CallIds \cup {None}
    /\ overtaken \in BOOLEAN
    /\ state \in [CallIds -> Live \cup {"none", "Ended"}]
    /\ incoming \subseteq CallIds /\ known \subseteq CallIds

HeldTypes ==
    /\ early_candidates \in Seq(Batches) /\ old \subseteq Batches
    /\ Len(early_candidates) <= MAX_EARLY_CANDIDATE_BATCHES

GivenTypes ==
    /\ pending_candidates \in [CallIds -> Seq(Batches)]
    /\ delivered \in Seq(Batches) /\ arrived \subseteq Batches

OutcomeTypes ==
    /\ outcomes \in [DOMAIN outcomes -> Outcomes]
    /\ outcome_order \in Seq(CallIds)

LEMMA TypesSplit == TypeOK <=> CallTypes /\ HeldTypes /\ GivenTypes /\ OutcomeTypes
  BY DEF TypeOK, CallTypes, HeldTypes, GivenTypes, OutcomeTypes

(* What a call is given of some batches: those of its other end, into the   *)
(* candidates it holds while it rings, and else to the embedder.            *)
Gives(c, ours) ==
    \/ /\ state'[c] = "Ringing" /\ delivered' = delivered
       /\ pending_candidates' = [pending_candidates EXCEPT ![c] = @ \o ours]
    \/ /\ state'[c] # "Ringing" /\ delivered' = delivered \o ours
       /\ pending_candidates' = pending_candidates

LEMMA HandedOver ==
    ASSUME NEW c, NEW batches \in Seq(Batches), HandleCandidates(c, batches)
    PROVE  \E ours \in Seq(Batches) :
               /\ ToSet(ours) \subseteq ToSet(batches)
               /\ InOrder(batches) => InOrder(ours)
               /\ Gives(c, ours)
  <1> DEFINE T == {b \in Batches : IsRemoteParty(b)}
             ours == Only(batches, T)
  <1>1. /\ ours \in Seq(Batches) /\ ToSet(ours) \subseteq ToSet(batches)
        /\ InOrder(batches) => InOrder(ours)
    <2> HIDE DEF T
    <2> QED
      BY OnlyKeeps
  <1>2. Gives(c, ours)
    <2>1. \/ /\ state'[c] = "Ringing" /\ delivered' = delivered
             /\ pending_candidates' = [pending_candidates EXCEPT ![c] = @ \o ours]
          \/ /\ state'[c] # "Ringing" /\ delivered' = delivered \o ours
             /\ pending_candidates' = pending_candidates
      BY DEF HandleCandidates
    <2> HIDE DEF ours
    <2> QED
      BY <2>1 DEF Gives
  <1> HIDE DEF ours
  <1> QED
    BY <1>1, <1>2

LEMMA GivesTypes ==
    ASSUME GivenTypes, NEW c \in CallIds, NEW ours \in Seq(Batches), Gives(c, ours),
           arrived' \subseteq Batches
    PROVE  GivenTypes'
  <1>1. CASE /\ state'[c] = "Ringing" /\ delivered' = delivered
             /\ pending_candidates' = [pending_candidates EXCEPT ![c] = @ \o ours]
    <2>1. pending_candidates[c] \o ours \in Seq(Batches)
      BY ConcatInOrder DEF GivenTypes
    <2> QED
      BY <1>1, <2>1 DEF GivenTypes
  <1>2. CASE /\ state'[c] # "Ringing" /\ delivered' = delivered \o ours
             /\ pending_candidates' = pending_candidates
    <2>1. delivered \o ours \in Seq(Batches)
      BY ConcatInOrder DEF GivenTypes
    <2> QED
      BY <1>2, <2>1 DEF GivenTypes
  <1> QED
    BY <1>1, <1>2 DEF Gives

LEMMA ReplayTypes ==
    ASSUME HeldTypes, GivenTypes, NEW c \in CallIds, ReplayEarlyCandidates(c), arrived' \subseteq Batches
    PROVE  HeldTypes' /\ GivenTypes'
  <1>1. HeldTypes'
    <2>1. /\ early_candidates' = Only(early_candidates, Batches \ Of(c)) /\ old' = old
      BY DEF ReplayEarlyCandidates
    <2> QED
      BY <2>1, OnlyBatches, CallsAssumption DEF HeldTypes
  <1>2. GivenTypes'
    <2>1. HandleCandidates(c, Only(early_candidates, Of(c)))
      BY DEF ReplayEarlyCandidates
    <2>2. Only(early_candidates, Of(c)) \in Seq(Batches)
      BY OnlyBatches DEF HeldTypes
    <2>3. PICK ours \in Seq(Batches) : Gives(c, ours)
      BY <2>1, <2>2, HandedOver
    <2> QED
      BY <2>3, GivesTypes
  <1> QED
    BY <1>1, <1>2

LEMMA HoldTypes ==
    ASSUME HeldTypes, NEW b \in Batches, HoldEarlyCandidates(b)
    PROVE  HeldTypes'
  <1> DEFINE young == Only(early_candidates, Batches \ old)
             kept == IF Len(young) >= MAX_EARLY_CANDIDATE_BATCHES THEN Tail(young) ELSE young
  <1>1. early_candidates' = Append(kept, b) /\ old' = old
    BY DEF HoldEarlyCandidates
  <1>2. /\ young \in Seq(Batches) /\ Len(young) \in Nat
        /\ Len(young) <= MAX_EARLY_CANDIDATE_BATCHES
    BY OnlyBatches, CallsAssumption DEF HeldTypes
  <1> HIDE DEF young
  <1>3. kept \in Seq(Batches) /\ Len(kept) + 1 <= MAX_EARLY_CANDIDATE_BATCHES
    <2>1. CASE Len(young) >= MAX_EARLY_CANDIDATE_BATCHES
      <3>1. Len(young) > 0 /\ Len(Tail(young)) = Len(young) - 1 /\ Tail(young) \in Seq(Batches)
        BY <1>2, <2>1, CallsAssumption, TailInOrder
      <3> QED
        BY <1>2, <2>1, <3>1, CallsAssumption
    <2>2. CASE ~(Len(young) >= MAX_EARLY_CANDIDATE_BATCHES)
      BY <1>2, <2>2, CallsAssumption
    <2> QED
      BY <2>1, <2>2
  <1> HIDE DEF kept
  <1> QED
    BY <1>1, <1>3, AppendInOrder DEF HeldTypes

LEMMA EndTypes ==
    ASSUME CallTypes, GivenTypes, NEW ended, End(ended), known' \subseteq CallIds, arrived' \subseteq Batches
    PROVE  CallTypes' /\ GivenTypes'
  <1>1. \A c \in CallIds : state[c] \in Live \cup {"none", "Ended"} /\ pending_candidates[c] \in Seq(Batches)
    BY DEF CallTypes, GivenTypes
  <1>2. <<>> \in Seq(Batches)
    BY EmptySeq
  <1>3. state' \in [CallIds -> Live \cup {"none", "Ended"}]
    BY <1>1 DEF End
  <1>4. pending_candidates' \in [CallIds -> Seq(Batches)]
    BY <1>1, <1>2 DEF End
  <1> QED
    BY <1>3, <1>4 DEF End, CallTypes, GivenTypes

LEMMA RingTypes ==
    ASSUME CallTypes, HeldTypes, GivenTypes, NEW c \in CallIds, Ring(c), known' \subseteq CallIds,
           UNCHANGED arrived
    PROVE  CallTypes' /\ HeldTypes' /\ GivenTypes'
  <1>1. CallTypes'
    <2>1. state' \in [CallIds -> Live \cup {"none", "Ended"}]
      BY DEF Ring, CallTypes, Live
    <2> QED
      BY <2>1 DEF Ring, SetActiveCall, CallTypes
  <1>2. HeldTypes' /\ GivenTypes'
    BY ReplayTypes DEF Ring, SetActiveCall, GivenTypes
  <1> QED
    BY <1>1, <1>2

LEMMA TypesStep ==
    ASSUME CallTypes, HeldTypes, GivenTypes, [Next]_vars
    PROVE  CallTypes' /\ HeldTypes' /\ GivenTypes'
  <1> USE DEF held, calls
  <1>1. CASE UNCHANGED vars
    BY <1>1 DEF vars, CallTypes, HeldTypes, GivenTypes
  <1>2. CASE GrowOld
    <2>1. old' \subseteq Batches
      <3>1. PICK i \in DOMAIN early_candidates :
                old' = old \cup {early_candidates[j] : j \in 1..i}
        BY <1>2 DEF GrowOld
      <3>2. \A j \in 1..i : early_candidates[j] \in Batches
        BY <3>1, LenProperties, ElementOfSeq DEF HeldTypes
      <3> QED
        BY <3>1, <3>2 DEF HeldTypes
    <2> QED
      BY <1>2, <2>1 DEF GrowOld, CallTypes, HeldTypes, GivenTypes
  <1>3. CASE FinishAccept
    <2>1. state' \in [CallIds -> Live \cup {"none", "Ended"}]
      BY <1>3 DEF FinishAccept, CallTypes, Live
    <2> QED
      BY <1>3, <2>1 DEF FinishAccept, CallTypes, HeldTypes, GivenTypes
  <1>4. CASE ForgetEnded
    BY <1>4 DEF ForgetEnded, CallTypes, HeldTypes, GivenTypes
  <1>5. ASSUME NEW c \in CallIds, Place(c) PROVE CallTypes' /\ HeldTypes' /\ GivenTypes'
    <2>1. state' \in [CallIds -> Live \cup {"none", "Ended"}]
      BY <1>5 DEF Place, CallTypes, Live
    <2>2. CallTypes'
      BY <1>5, <2>1 DEF Place, SetActiveCall, CallTypes
    <2>3. HeldTypes' /\ GivenTypes'
      BY <1>5, ReplayTypes DEF Place, SetActiveCall, GivenTypes
    <2> QED
      BY <2>2, <2>3
  <1>6. ASSUME NEW c \in CallIds, BeginAccept(c) PROVE CallTypes' /\ HeldTypes' /\ GivenTypes'
    <2>1. CallTypes' /\ HeldTypes'
      BY <1>6 DEF BeginAccept, CallTypes, HeldTypes
    <2>2. <<>> \in Seq(Batches) /\ delivered \o pending_candidates[c] \in Seq(Batches)
      BY EmptySeq, ConcatInOrder DEF GivenTypes
    <2>3. GivenTypes'
      BY <1>6, <2>2 DEF BeginAccept, GivenTypes
    <2> QED
      BY <2>1, <2>3
  <1>7. ASSUME NEW c \in CallIds, EndLocally(c) PROVE CallTypes' /\ HeldTypes' /\ GivenTypes'
    <2>1. CallTypes' /\ GivenTypes'
      BY <1>7, EndTypes DEF EndLocally, CallTypes, GivenTypes
    <2> QED
      BY <1>7, <2>1 DEF EndLocally, HeldTypes
  <1>8. ASSUME NEW c \in CallIds, HandleInvite(c) PROVE CallTypes' /\ HeldTypes' /\ GivenTypes'
    <2>1. known' \subseteq CallIds /\ arrived' = arrived
      BY <1>8 DEF HandleInvite, CallTypes
    <2>2. CASE UNCHANGED <<calls, held>>
      BY <2>1, <2>2 DEF CallTypes, HeldTypes, GivenTypes
    <2>3. CASE Ring(c)
      BY <2>1, <2>3, RingTypes
    <2>4. CASE /\ state' = [state EXCEPT ![c] = "Ended"] /\ incoming' = incoming \cup {c}
               /\ UNCHANGED <<active_call, accepting, overtaken, pending_candidates, delivered, held>>
      <3>1. state' \in [CallIds -> Live \cup {"none", "Ended"}]
        BY <2>4 DEF CallTypes
      <3> QED
        BY <2>1, <2>4, <3>1 DEF CallTypes, HeldTypes, GivenTypes
    <2> QED
      BY <1>8, <2>2, <2>3, <2>4 DEF HandleInvite
  <1>9. ASSUME NEW c \in CallIds, HandleAnswer(c) PROVE CallTypes' /\ HeldTypes' /\ GivenTypes'
    <2>1. state' \in [CallIds -> Live \cup {"none", "Ended"}]
      BY <1>9 DEF HandleAnswer, CallTypes, Live
    <2> QED
      BY <1>9, <2>1 DEF HandleAnswer, CallTypes, HeldTypes, GivenTypes
  <1>10. ASSUME NEW c \in CallIds, HandleSelectAnswer(c) \/ HandleReject(c) \/ HandleHangup(c)
         PROVE  CallTypes' /\ HeldTypes' /\ GivenTypes'
    <2>1. /\ known' \subseteq CallIds /\ UNCHANGED <<held, arrived>>
          /\ \E ended : End(ended)
      BY <1>10 DEF HandleSelectAnswer, HandleReject, HandleHangup, CallTypes
    <2>2. CallTypes' /\ GivenTypes'
      BY <2>1, EndTypes DEF GivenTypes
    <2> QED
      BY <2>1, <2>2 DEF HeldTypes
  <1>11. ASSUME NEW b \in Batches, ReceiveCandidates(b)
         PROVE  CallTypes' /\ HeldTypes' /\ GivenTypes'
    <2>1. b.call \in CallIds
      BY CallsAssumption
    <2>2. CallTypes' /\ arrived' \subseteq Batches
      BY <1>11, <2>1 DEF ReceiveCandidates, CallTypes, GivenTypes
    <2>3. CASE active_call = b.call
      <3>1. HandleCandidates(b.call, <<b>>) /\ UNCHANGED held
        BY <1>11, <2>3 DEF ReceiveCandidates
      <3>2. PICK ours \in Seq(Batches) : Gives(b.call, ours)
        BY <3>1, OneInOrder, HandedOver
      <3>3. GivenTypes'
        BY <2>1, <2>2, <3>2, GivesTypes
      <3> QED
        BY <2>2, <3>1, <3>3 DEF HeldTypes
    <2>4. CASE active_call # b.call
      <3>1. HoldEarlyCandidates(b) /\ UNCHANGED <<pending_candidates, delivered>>
        BY <1>11, <2>4 DEF ReceiveCandidates
      <3> QED
        BY <2>2, <3>1, HoldTypes DEF GivenTypes
    <2> QED
      BY <2>3, <2>4
  <1> QED
    BY <1>1, <1>2, <1>3, <1>4, <1>5, <1>6, <1>7, <1>8, <1>9, <1>10, <1>11 DEF Next

-------------------------------------------------------------------------------
(* The candidates.                                                          *)

(* The candidates of a call arrive in their order, and each is in one place.*)
ArrivedInv ==
    /\ Before(arrived, Batches \ arrived)
    /\ ToSet(early_candidates) \cup ToSet(delivered) \subseteq arrived
    /\ \A c \in CallIds : ToSet(pending_candidates[c]) \subseteq arrived \cap Of(c)

OrderInv ==
    /\ InOrder(early_candidates)
    /\ InOrder(delivered)
    /\ \A c \in CallIds : InOrder(pending_candidates[c])
    /\ \A c \in CallIds :
          state[c] = "Ringing" => Before(ToSet(delivered), ToSet(pending_candidates[c]))

(* Only the active call is live, and a call that was never entered has      *)
(* nothing of its own.                                                      *)
CallsInv ==
    /\ active_call # None => state[active_call] # "none"
    /\ accepting # None => state[accepting] # "none"
    /\ \A c \in CallIds : state[c] # "none" => c \in known
    /\ \A c \in CallIds : state[c] \in Live => active_call = c

HeldInv ==
    /\ \A c \in CallIds : state[c] \in {"none", "Dialing"} => pending_candidates[c] = <<>>
    /\ \A c \in CallIds : state[c] = "none" => ToSet(delivered) \cap Of(c) = {}
    /\ \A b \in ToSet(early_candidates) : b.call # active_call
    /\ \A c \in CallIds :
          state[c] = "Connecting" \/ accepting = c => overtaken \/ pending_candidates[c] = <<>>

CandidatesInv == ArrivedInv /\ OrderInv /\ CallsInv /\ HeldInv

(* What a call is given goes after what there is of it, wherever that is.   *)
LEMMA GivesInOrder ==
    ASSUME GivenTypes, OrderInv, \A d \in CallIds : ToSet(pending_candidates[d]) \subseteq Of(d),
           NEW c \in CallIds, NEW ours \in Seq(Batches), Gives(c, ours), InOrder(ours),
           ToSet(ours) \subseteq Of(c),
           Before(ToSet(delivered) \cup ToSet(pending_candidates[c]), ToSet(ours)),
           \A d \in CallIds :
              state'[d] = "Ringing" => Before(ToSet(delivered), ToSet(pending_candidates[d]))
    PROVE  /\ InOrder(delivered')
           /\ ToSet(delivered') \subseteq ToSet(delivered) \cup ToSet(ours)
           /\ \A d \in CallIds : InOrder(pending_candidates'[d])
           /\ \A d \in CallIds : ToSet(pending_candidates'[d]) \subseteq
                                     ToSet(pending_candidates[d]) \cup (ToSet(ours) \cap Of(d))
           /\ \A d \in CallIds :
                 state'[d] = "Ringing" => Before(ToSet(delivered'), ToSet(pending_candidates'[d]))
  <1>1. CASE /\ state'[c] = "Ringing" /\ delivered' = delivered
             /\ pending_candidates' = [pending_candidates EXCEPT ![c] = @ \o ours]
    <2> DEFINE p == pending_candidates[c] \o ours
    <2>1. /\ InOrder(p)
          /\ ToSet(p) = ToSet(pending_candidates[c]) \cup ToSet(ours)
      <3>1. Before(ToSet(pending_candidates[c]), ToSet(ours))
        BY DEF Before
      <3> QED
        BY <3>1, ConcatInOrder DEF GivenTypes, OrderInv
    <2> HIDE DEF p
    <2>2. \A d \in CallIds : pending_candidates'[d] = IF d = c THEN p ELSE pending_candidates[d]
      BY <1>1 DEF GivenTypes, p
    <2>3. Before(ToSet(delivered), ToSet(p))
      BY <1>1, <2>1 DEF Before
    <2> QED
      BY <1>1, <2>1, <2>2, <2>3 DEF OrderInv
  <1>2. CASE /\ state'[c] # "Ringing" /\ delivered' = delivered \o ours
             /\ pending_candidates' = pending_candidates
    <2>1. /\ InOrder(delivered')
          /\ ToSet(delivered') = ToSet(delivered) \cup ToSet(ours)
      <3>1. Before(ToSet(delivered), ToSet(ours))
        BY DEF Before
      <3> QED
        BY <1>2, <3>1, ConcatInOrder DEF GivenTypes, OrderInv
    <2>2. ASSUME NEW d \in CallIds, state'[d] = "Ringing"
          PROVE  Before(ToSet(delivered'), ToSet(pending_candidates'[d]))
      <3>1. d # c
        BY <1>2, <2>2
      <3>2. \A x \in ToSet(ours), y \in ToSet(pending_candidates[d]) : x.call = c /\ y.call = d
        BY DEF Of
      <3>3. \A x \in ToSet(ours), y \in ToSet(pending_candidates[d]) : x.call # y.call
        BY <3>1, <3>2
      <3> QED
        BY <1>2, <2>1, <2>2, <3>3 DEF Before
    <2> QED
      BY <1>2, <2>1, <2>2 DEF OrderInv
  <1> QED
    BY <1>1, <1>2 DEF Gives

(* A call that becomes active claims what was held for it.                  *)
LEMMA Claimed ==
    ASSUME HeldTypes, GivenTypes, CandidatesInv, NEW c \in CallIds, state[c] = "none",
           SetActiveCall(c), UNCHANGED arrived,
           \A d \in CallIds : state'[d] = "Ringing" => d = c \/ state[d] = "Ringing"
    PROVE  /\ ArrivedInv' /\ OrderInv'
           /\ \A b \in ToSet(early_candidates') : b.call # active_call'
           /\ \A d \in CallIds \ {c} : pending_candidates'[d] = pending_candidates[d]
           /\ state'[c] # "Ringing" => pending_candidates'[c] = <<>>
           /\ \A d \in CallIds \ {c} :
                 ToSet(delivered) \cap Of(d) = {} => ToSet(delivered') \cap Of(d) = {}
  <1> DEFINE claimed == Only(early_candidates, Of(c))
  <1>1. /\ claimed \in Seq(Batches) /\ ToSet(claimed) = ToSet(early_candidates) \cap Of(c)
        /\ InOrder(claimed)
    BY OnlyKeeps DEF HeldTypes, CandidatesInv, OrderInv
  <1>2. /\ ToSet(early_candidates') = ToSet(early_candidates) \cap (Batches \ Of(c))
        /\ InOrder(early_candidates')
    BY OnlyKeeps DEF HeldTypes, CandidatesInv, OrderInv, SetActiveCall, ReplayEarlyCandidates
  <1>3. HandleCandidates(c, claimed)
    BY DEF SetActiveCall, ReplayEarlyCandidates
  <1> HIDE DEF claimed
  <1>4. PICK ours \in Seq(Batches) :
            /\ ToSet(ours) \subseteq ToSet(claimed) /\ InOrder(ours) /\ Gives(c, ours)
    BY <1>1, <1>3, HandedOver
  <1>5. /\ pending_candidates[c] = <<>> /\ ToSet(pending_candidates[c]) = {}
        /\ ToSet(delivered) \cap Of(c) = {}
    BY EmptyInOrder DEF CandidatesInv, HeldInv
  <1>6. ToSet(ours) \subseteq Of(c) \cap ToSet(early_candidates)
    BY <1>1, <1>4
  <1>7. ToSet(delivered) \subseteq Batches
    BY DEF CandidatesInv, ArrivedInv, GivenTypes
  <1>8. \A x \in ToSet(delivered), y \in ToSet(ours) : x.call # y.call
    BY <1>5, <1>6, <1>7 DEF Of
  <1>9. Before(ToSet(delivered) \cup ToSet(pending_candidates[c]), ToSet(ours))
    BY <1>5, <1>8 DEF Before
  <1>10. \A d \in CallIds :
            state'[d] = "Ringing" => Before(ToSet(delivered), ToSet(pending_candidates[d]))
    BY <1>5 DEF Before, CandidatesInv, OrderInv
  <1>11. /\ InOrder(delivered')
         /\ ToSet(delivered') \subseteq ToSet(delivered) \cup ToSet(ours)
         /\ \A d \in CallIds : InOrder(pending_candidates'[d])
         /\ \A d \in CallIds : ToSet(pending_candidates'[d]) \subseteq
                                   ToSet(pending_candidates[d]) \cup (ToSet(ours) \cap Of(d))
         /\ \A d \in CallIds :
               state'[d] = "Ringing" => Before(ToSet(delivered'), ToSet(pending_candidates'[d]))
    BY <1>4, <1>6, <1>9, <1>10, GivesInOrder DEF CandidatesInv, ArrivedInv
  <1>12. ArrivedInv' /\ OrderInv'
    <2>1. ToSet(ours) \subseteq arrived
      BY <1>6 DEF CandidatesInv, ArrivedInv
    <2> QED
      BY <1>2, <1>11, <2>1 DEF CandidatesInv, ArrivedInv, OrderInv, Of
  <1>13. \A b \in ToSet(early_candidates') : b.call # active_call'
    BY <1>2 DEF SetActiveCall, Of
  <1>14. /\ \A d \in CallIds \ {c} : pending_candidates'[d] = pending_candidates[d]
         /\ state'[c] # "Ringing" => pending_candidates'[c] = <<>>
    BY <1>4, <1>5 DEF Gives, GivenTypes
  <1>15. ASSUME NEW d \in CallIds \ {c}, ToSet(delivered) \cap Of(d) = {}
         PROVE  ToSet(delivered') \cap Of(d) = {}
    <2>1. ToSet(ours) \cap Of(d) = {}
      BY <1>6 DEF Of
    <2> QED
      BY <1>11, <1>15, <2>1
  <1> QED
    BY <1>12, <1>13, <1>14, <1>15

LEMMA EndKeeps ==
    ASSUME CallTypes, GivenTypes, CandidatesInv, NEW ended, End(ended), known \subseteq known',
           UNCHANGED <<early_candidates, arrived>>
    PROVE  CandidatesInv'
  <1>1. /\ \A c \in CallIds : \/ state'[c] = state[c] /\ pending_candidates'[c] = pending_candidates[c]
                              \/ state[c] \in Live /\ state'[c] = "Ended" /\ pending_candidates'[c] = <<>>
        /\ UNCHANGED <<active_call, accepting, overtaken, delivered>>
    BY DEF End
  <1>2. "none" \notin Live /\ "Ended" \notin Live
    BY DEF Live
  <1>3. \A c \in CallIds : state'[c] \in {"none", "Ringing", "Dialing", "Connecting"} =>
            state'[c] = state[c] /\ pending_candidates'[c] = pending_candidates[c]
    BY <1>1
  <1>4. ArrivedInv'
    BY <1>1, EmptyInOrder DEF CandidatesInv, ArrivedInv
  <1>5. OrderInv'
    <2>1. \A c \in CallIds : InOrder(pending_candidates'[c])
      BY <1>1, EmptyInOrder DEF CandidatesInv, OrderInv
    <2> QED
      BY <1>1, <1>3, <2>1 DEF CandidatesInv, OrderInv
  <1>6. CallsInv'
    <2>1. \A c \in CallIds : state'[c] = "none" <=> state[c] = "none"
      BY <1>1, <1>2
    <2>2. \A c \in CallIds : state'[c] \in Live => state[c] \in Live
      BY <1>1
    <2> QED
      BY <1>1, <2>1, <2>2 DEF CandidatesInv, CallsInv, CallTypes
  <1>7. HeldInv'
    BY <1>1, <1>3 DEF CandidatesInv, HeldInv
  <1> QED
    BY <1>4, <1>5, <1>6, <1>7 DEF CandidatesInv

LEMMA PlaceKeeps ==
    ASSUME CallTypes, HeldTypes, GivenTypes, CandidatesInv, NEW c \in CallIds, Place(c)
    PROVE  CandidatesInv'
  <1>1. /\ active_call = None /\ c \notin known /\ known' = known \cup {c}
        /\ state' = [state EXCEPT ![c] = "Dialing"]
        /\ UNCHANGED <<accepting, overtaken, arrived>> /\ SetActiveCall(c) /\ active_call' = c
    BY DEF Place, SetActiveCall
  <1>2. state[c] = "none" /\ state'[c] = "Dialing" /\ \A d \in CallIds \ {c} : state'[d] = state[d]
    BY <1>1 DEF CandidatesInv, CallsInv, CallTypes
  <1>3. /\ ArrivedInv' /\ OrderInv'
        /\ \A b \in ToSet(early_candidates') : b.call # active_call'
        /\ \A d \in CallIds \ {c} : pending_candidates'[d] = pending_candidates[d]
        /\ pending_candidates'[c] = <<>>
        /\ \A d \in CallIds \ {c} :
              ToSet(delivered) \cap Of(d) = {} => ToSet(delivered') \cap Of(d) = {}
    BY <1>1, <1>2, Claimed
  <1>4. CallsInv'
    <2>1. \A d \in CallIds : state[d] \notin Live
      BY <1>1, CallsAssumption DEF CandidatesInv, CallsInv
    <2> QED
      BY <1>1, <1>2, <2>1 DEF CandidatesInv, CallsInv, CallTypes
  <1>5. HeldInv'
    BY <1>1, <1>2, <1>3 DEF CandidatesInv, HeldInv
  <1> QED
    BY <1>3, <1>4, <1>5 DEF CandidatesInv

LEMMA RingKeeps ==
    ASSUME CallTypes, HeldTypes, GivenTypes, CandidatesInv, NEW c \in CallIds, Ring(c),
           state[c] = "none", known' = known \cup {c}, UNCHANGED arrived
    PROVE  CandidatesInv'
  <1>1. /\ \A d \in CallIds : state'[d] = IF d = c THEN "Ringing"
                                          ELSE IF d = active_call THEN "Ended" ELSE state[d]
        /\ UNCHANGED <<accepting, overtaken>> /\ SetActiveCall(c) /\ active_call' = c
    BY DEF Ring, SetActiveCall
  <1>2. /\ ArrivedInv' /\ OrderInv'
        /\ \A b \in ToSet(early_candidates') : b.call # active_call'
        /\ \A d \in CallIds \ {c} : pending_candidates'[d] = pending_candidates[d]
        /\ \A d \in CallIds \ {c} :
              ToSet(delivered) \cap Of(d) = {} => ToSet(delivered') \cap Of(d) = {}
    BY <1>1, Claimed
  <1>3. \A d \in CallIds : state'[d] \in {"none", "Dialing", "Connecting"} =>
            d # c /\ state'[d] = state[d]
    BY <1>1
  <1>4. accepting # c
    BY CallsAssumption DEF CandidatesInv, CallsInv
  <1>5. CallsInv'
    <2>1. \A d \in CallIds : state'[d] \in Live => d = c
      BY <1>1 DEF CandidatesInv, CallsInv, Live
    <2>2. \A d \in CallIds : state'[d] # "none" => d = c \/ state[d] # "none"
      BY <1>1, CallsAssumption DEF CandidatesInv, CallsInv
    <2>3. \A d \in CallIds : state[d] # "none" => state'[d] # "none"
      BY <1>1
    <2> QED
      BY <1>1, <2>1, <2>2, <2>3 DEF CandidatesInv, CallsInv, CallTypes
  <1>6. HeldInv'
    BY <1>1, <1>2, <1>3, <1>4 DEF CandidatesInv, HeldInv
  <1> QED
    BY <1>2, <1>5, <1>6 DEF CandidatesInv

LEMMA BeginAcceptKeeps ==
    ASSUME CallTypes, HeldTypes, GivenTypes, CandidatesInv, NEW c \in CallIds, BeginAccept(c)
    PROVE  CandidatesInv'
  <1>1. /\ active_call = c /\ state[c] = "Ringing"
        /\ delivered' = delivered \o pending_candidates[c]
        /\ pending_candidates' = [pending_candidates EXCEPT ![c] = <<>>]
        /\ accepting' = c /\ overtaken' = FALSE
        /\ UNCHANGED <<active_call, state, early_candidates, arrived, known>>
    BY DEF BeginAccept, held
  <1>2. /\ InOrder(delivered')
        /\ ToSet(delivered') = ToSet(delivered) \cup ToSet(pending_candidates[c])
    BY <1>1, ConcatInOrder DEF GivenTypes, CandidatesInv, OrderInv
  <1>3. \A d \in CallIds : pending_candidates'[d] = IF d = c THEN <<>> ELSE pending_candidates[d]
    BY <1>1 DEF GivenTypes
  <1>4. \A d \in CallIds : state[d] \in {"Ringing", "Connecting"} => d = c
    BY <1>1 DEF CandidatesInv, CallsInv, Live
  <1>5. ArrivedInv'
    BY <1>1, <1>2, <1>3, EmptyInOrder DEF CandidatesInv, ArrivedInv
  <1>6. OrderInv'
    BY <1>1, <1>2, <1>3, <1>4, EmptyInOrder DEF CandidatesInv, OrderInv, Before
  <1>7. CallsInv'
    BY <1>1 DEF CandidatesInv, CallsInv
  <1>8. HeldInv'
    <2>1. ASSUME NEW d \in CallIds, state[d] = "none" PROVE ToSet(delivered') \cap Of(d) = {}
      <3>1. d # c
        BY <1>1, <2>1
      <3>2. ToSet(pending_candidates[c]) \cap Of(d) = {}
        BY <3>1 DEF CandidatesInv, ArrivedInv, Of
      <3> QED
        BY <1>2, <2>1, <3>2 DEF CandidatesInv, HeldInv
    <2>2. \A d \in CallIds : state[d] = "Connecting" \/ accepting' = d => pending_candidates'[d] = <<>>
      BY <1>1, <1>3, <1>4
    <2> QED
      BY <1>1, <1>3, <2>1, <2>2 DEF CandidatesInv, HeldInv
  <1> QED
    BY <1>5, <1>6, <1>7, <1>8 DEF CandidatesInv

LEMMA FinishAcceptKeeps ==
    ASSUME CallTypes, CandidatesInv, FinishAccept
    PROVE  CandidatesInv'
  <1>1. /\ accepting \in CallIds /\ accepting' = None
        /\ \A d \in CallIds : \/ state'[d] = state[d]
                              \/ d = accepting /\ state[d] = "Ringing" /\ state'[d] = "Connecting"
        /\ UNCHANGED <<active_call, overtaken, pending_candidates, delivered, early_candidates,
                       arrived, known>>
    BY DEF FinishAccept, CallTypes, held
  <1>2. ArrivedInv' /\ OrderInv'
    BY <1>1 DEF CandidatesInv, ArrivedInv, OrderInv
  <1>3. CallsInv'
    BY <1>1 DEF CandidatesInv, CallsInv, Live, CallTypes
  <1>4. HeldInv'
    BY <1>1, CallsAssumption DEF CandidatesInv, HeldInv
  <1> QED
    BY <1>2, <1>3, <1>4 DEF CandidatesInv

LEMMA ReceiveKeeps ==
    ASSUME CallTypes, HeldTypes, GivenTypes, CandidatesInv, NEW b \in Batches, ReceiveCandidates(b)
    PROVE  CandidatesInv'
  <1>1. /\ b \notin arrived /\ \A x \in Batches \ arrived : x.call = b.call => x.n >= b.n
        /\ arrived' = arrived \cup {b} /\ known' = known \cup {b.call}
        /\ overtaken' = (overtaken \/ (accepting = b.call /\ state[b.call] = "Ringing"))
        /\ UNCHANGED <<active_call, state, accepting>>
        /\ b.call \in CallIds /\ b \in Of(b.call)
    BY CallsAssumption DEF ReceiveCandidates, Of
  <1>2. Before(arrived, {b}) /\ Before(arrived', Batches \ arrived')
    <2>1. Before(arrived, {b})
      BY <1>1 DEF Before, CandidatesInv, ArrivedInv
    <2>2. ASSUME NEW x \in Batches \ arrived', x.call = b.call PROVE b.n < x.n
      <3>1. x \in Batches /\ x \notin arrived /\ x # b
        BY <1>1, <2>2
      <3>2. x.n >= b.n /\ x.n \in Nat /\ b.n \in Nat
        BY <1>1, <2>2, <3>1, CallsAssumption
      <3>3. x = [call |-> x.call, n |-> x.n] /\ b = [call |-> b.call, n |-> b.n]
        BY <3>1, CallsAssumption
      <3>4. x.n # b.n
        BY <2>2, <3>1, <3>3
      <3> QED
        BY <3>2, <3>4
    <2> QED
      BY <1>1, <2>1, <2>2 DEF Before, CandidatesInv, ArrivedInv
  <1>3. CallsInv'
    BY <1>1 DEF CandidatesInv, CallsInv
  <1>4. CASE active_call = b.call
    <2>1. HandleCandidates(b.call, <<b>>) /\ early_candidates' = early_candidates
      BY <1>4 DEF ReceiveCandidates, held
    <2>2. <<b>> \in Seq(Batches) /\ ToSet(<<b>>) = {b} /\ InOrder(<<b>>)
      BY OneInOrder
    <2>3. PICK ours \in Seq(Batches) :
              ToSet(ours) \subseteq {b} /\ InOrder(ours) /\ Gives(b.call, ours)
      BY <2>1, <2>2, HandedOver
    <2>4. ToSet(delivered) \cup ToSet(pending_candidates[b.call]) \subseteq arrived
      BY <1>1 DEF CandidatesInv, ArrivedInv
    <2>5. /\ Before(ToSet(delivered) \cup ToSet(pending_candidates[b.call]), ToSet(ours))
          /\ ToSet(ours) \subseteq Of(b.call)
      BY <1>1, <1>2, <2>3, <2>4 DEF Before
    <2>6. /\ InOrder(delivered')
          /\ ToSet(delivered') \subseteq ToSet(delivered) \cup ToSet(ours)
          /\ \A d \in CallIds : InOrder(pending_candidates'[d])
          /\ \A d \in CallIds : ToSet(pending_candidates'[d]) \subseteq
                                    ToSet(pending_candidates[d]) \cup (ToSet(ours) \cap Of(d))
          /\ \A d \in CallIds :
                state'[d] = "Ringing" => Before(ToSet(delivered'), ToSet(pending_candidates'[d]))
      <3>1. \A d \in CallIds : ToSet(pending_candidates[d]) \subseteq Of(d)
        BY DEF CandidatesInv, ArrivedInv
      <3>2. \A d \in CallIds :
                state'[d] = "Ringing" => Before(ToSet(delivered), ToSet(pending_candidates[d]))
        BY <1>1 DEF CandidatesInv, OrderInv
      <3> QED
        BY <1>1, <2>3, <2>5, <3>1, <3>2, GivesInOrder DEF CandidatesInv
    <2>7. ArrivedInv'
      BY <1>1, <1>2, <2>1, <2>3, <2>6 DEF CandidatesInv, ArrivedInv
    <2>8. OrderInv'
      BY <2>1, <2>6 DEF CandidatesInv, OrderInv
    <2>9. HeldInv'
      <3>1. state[b.call] # "none"
        BY <1>1, <1>4, CallsAssumption DEF CandidatesInv, CallsInv
      <3>2. \A d \in CallIds : \/ pending_candidates'[d] = pending_candidates[d]
                               \/ d = b.call /\ state[d] = "Ringing"
        BY <1>1, <2>3 DEF Gives, GivenTypes
      <3>3. ASSUME NEW d \in CallIds, state[d] = "none" PROVE ToSet(delivered') \cap Of(d) = {}
        <4>1. ToSet(ours) \cap Of(d) = {}
          BY <2>3, <3>1, <3>3 DEF Of
        <4> QED
          BY <2>6, <3>3, <4>1 DEF CandidatesInv, HeldInv
      <3> QED
        BY <1>1, <1>4, <2>1, <3>2, <3>3 DEF CandidatesInv, HeldInv
    <2> QED
      BY <1>3, <2>7, <2>8, <2>9 DEF CandidatesInv
  <1>5. CASE active_call # b.call
    <2>1. HoldEarlyCandidates(b) /\ UNCHANGED <<pending_candidates, delivered>>
      BY <1>5 DEF ReceiveCandidates
    <2>2. /\ InOrder(early_candidates')
          /\ ToSet(early_candidates') \subseteq ToSet(early_candidates) \cup {b}
      <3> DEFINE young == Only(early_candidates, Batches \ old)
                 kept == IF Len(young) >= MAX_EARLY_CANDIDATE_BATCHES THEN Tail(young) ELSE young
      <3>1. early_candidates' = Append(kept, b)
        BY <2>1 DEF HoldEarlyCandidates
      <3>2. /\ young \in Seq(Batches) /\ Len(young) \in Nat
            /\ ToSet(young) \subseteq ToSet(early_candidates) /\ InOrder(young)
        BY OnlyKeeps, OnlyBatches DEF HeldTypes, CandidatesInv, OrderInv
      <3> HIDE DEF young
      <3>3. /\ kept \in Seq(Batches)
            /\ ToSet(kept) \subseteq ToSet(early_candidates) /\ InOrder(kept)
        <4>1. CASE Len(young) >= MAX_EARLY_CANDIDATE_BATCHES
          <5>1. Len(young) > 0
            BY <3>2, <4>1, CallsAssumption
          <5> QED
            BY <3>2, <4>1, <5>1, TailInOrder
        <4>2. CASE ~(Len(young) >= MAX_EARLY_CANDIDATE_BATCHES)
          BY <3>2, <4>2
        <4> QED
          BY <4>1, <4>2
      <3> HIDE DEF kept
      <3>4. Before(ToSet(kept), {b})
        BY <1>2, <3>3 DEF Before, CandidatesInv, ArrivedInv
      <3> QED
        BY <3>1, <3>3, <3>4, AppendInOrder
    <2>3. ArrivedInv'
      BY <1>1, <1>2, <2>1, <2>2 DEF CandidatesInv, ArrivedInv
    <2>4. OrderInv'
      BY <1>1, <2>1, <2>2 DEF CandidatesInv, OrderInv
    <2>5. HeldInv'
      BY <1>1, <1>5, <2>1, <2>2 DEF CandidatesInv, HeldInv
    <2> QED
      BY <1>3, <2>3, <2>4, <2>5 DEF CandidatesInv
  <1> QED
    BY <1>4, <1>5

LEMMA CandidatesStep ==
    ASSUME CallTypes, HeldTypes, GivenTypes, CandidatesInv, [Next]_vars
    PROVE  CandidatesInv'
  <1>1. CASE UNCHANGED vars
    BY <1>1 DEF vars, calls, held, CandidatesInv, ArrivedInv, OrderInv, CallsInv, HeldInv
  <1>2. CASE GrowOld
    BY <1>2 DEF GrowOld, calls, CandidatesInv, ArrivedInv, OrderInv, CallsInv, HeldInv
  <1>3. CASE ForgetEnded
    <2>1. /\ state[active_call] = "Ended" /\ active_call' = None /\ active_call \in CallIds
          /\ UNCHANGED <<state, accepting, overtaken, pending_candidates, delivered,
                         early_candidates, arrived, known>>
      BY <1>3 DEF ForgetEnded, held, CallTypes
    <2>2. ArrivedInv' /\ OrderInv'
      BY <2>1 DEF CandidatesInv, ArrivedInv, OrderInv
    <2>3. CallsInv'
      BY <2>1 DEF CandidatesInv, CallsInv, Live
    <2>4. HeldInv'
      <3>1. \A b \in ToSet(early_candidates) : b.call # None
        BY CallsAssumption DEF CandidatesInv, ArrivedInv, GivenTypes
      <3> QED
        BY <2>1, <3>1 DEF CandidatesInv, HeldInv
    <2> QED
      BY <2>2, <2>3, <2>4 DEF CandidatesInv
  <1>4. ASSUME NEW c \in CallIds, HandleInvite(c) PROVE CandidatesInv'
    <2>1. state[c] = "none" /\ known' = known \cup {c} /\ arrived' = arrived
      BY <1>4 DEF HandleInvite
    <2>2. CASE UNCHANGED <<calls, held>>
      BY <2>1, <2>2 DEF calls, held, CandidatesInv, ArrivedInv, OrderInv, CallsInv, HeldInv
    <2>3. CASE Ring(c)
      BY <2>1, <2>3, RingKeeps
    <2>4. CASE /\ state' = [state EXCEPT ![c] = "Ended"]
               /\ UNCHANGED <<active_call, accepting, overtaken, pending_candidates, delivered, held>>
      <3>1. /\ \A d \in CallIds : state'[d] = IF d = c THEN "Ended" ELSE state[d]
            /\ early_candidates' = early_candidates
        BY <2>4 DEF CallTypes, held
      <3>2. ArrivedInv' /\ OrderInv'
        BY <2>1, <2>4, <3>1 DEF CandidatesInv, ArrivedInv, OrderInv
      <3>3. CallsInv'
        BY <2>1, <2>4, <3>1 DEF CandidatesInv, CallsInv, Live, CallTypes
      <3>4. HeldInv'
        BY <2>1, <2>4, <3>1 DEF CandidatesInv, HeldInv
      <3> QED
        BY <3>2, <3>3, <3>4 DEF CandidatesInv
    <2> QED
      BY <1>4, <2>2, <2>3, <2>4 DEF HandleInvite
  <1>5. ASSUME NEW c \in CallIds, HandleAnswer(c) PROVE CandidatesInv'
    <2>1. /\ known' = known \cup {c}
          /\ \A d \in CallIds : \/ state'[d] = state[d]
                                \/ state[d] = "Dialing" /\ state'[d] = "Connecting"
          /\ UNCHANGED <<active_call, accepting, overtaken, pending_candidates, delivered,
                         early_candidates, arrived>>
      BY <1>5 DEF HandleAnswer, held, CallTypes
    <2>2. ArrivedInv' /\ OrderInv'
      BY <2>1 DEF CandidatesInv, ArrivedInv, OrderInv
    <2>3. CallsInv'
      BY <2>1 DEF CandidatesInv, CallsInv, Live, CallTypes
    <2>4. HeldInv'
      BY <2>1 DEF CandidatesInv, HeldInv
    <2> QED
      BY <2>2, <2>3, <2>4 DEF CandidatesInv
  <1>6. ASSUME NEW c \in CallIds,
               EndLocally(c) \/ HandleSelectAnswer(c) \/ HandleReject(c) \/ HandleHangup(c)
        PROVE  CandidatesInv'
    <2>1. /\ known \subseteq known' /\ UNCHANGED <<early_candidates, arrived>>
          /\ \E ended : End(ended)
      BY <1>6 DEF EndLocally, HandleSelectAnswer, HandleReject, HandleHangup, held
    <2> QED
      BY <2>1, EndKeeps
  <1> QED
    BY <1>1, <1>2, <1>3, <1>4, <1>5, <1>6, FinishAcceptKeeps, PlaceKeeps, BeginAcceptKeeps,
       ReceiveKeeps DEF Next

-------------------------------------------------------------------------------
(* note_outcome, of the outcomes' types.                                    *)
LEMMA OutcomeTypesStep ==
    ASSUME OutcomeTypes, OutcomesInv', [Next]_vars
    PROVE  OutcomeTypes'
  <1>1. outcome_order' \in Seq(CallIds)
    BY DEF OutcomesInv
  <1>2. CASE UNCHANGED results
    BY <1>2 DEF results, OutcomeTypes
  <1>3. ASSUME NEW c \in CallIds, NEW next \in Outcomes, NoteOutcome(c, next)
        PROVE  OutcomeTypes'
    <2>1. MergeOutcome(c, next) \in Outcomes
      BY DEF MergeOutcome, OutcomeTypes
    <2>2. outcomes' \in [DOMAIN outcomes' -> Outcomes]
      BY <1>3, <2>1 DEF NoteOutcome, OutcomeTypes
    <2> QED
      BY <1>1, <2>2 DEF OutcomeTypes
  <1> QED
    BY <1>2, <1>3, StepLearns DEF Learns

(* Every variable keeps its type, and no more batches are held than is      *)
(* allowed: expiry and the limit together make room for every one that      *)
(* comes.                                                                   *)
THEOREM RecordsTyped == Spec => []TypeOK
  <1>1. Init => TypeOK
    <2>1. <<>> \in Seq(Batches) /\ <<>> \in Seq(CallIds) /\ Len(<<>>) = 0 /\ DOMAIN <<>> = {}
      BY EmptySeq, LenProperties
    <2>2. <<>> \in [DOMAIN <<>> -> Outcomes]
      <3>1. <<>> \in Seq(Outcomes)
        BY EmptySeq
      <3> QED
        BY <3>1, LenProperties
    <2> SUFFICES ASSUME Init PROVE TypeOK
      OBVIOUS
    <2>3. OutcomeTypes
      BY <2>1, <2>2 DEF Init, OutcomeTypes
    <2>4. /\ pending_candidates \in [CallIds -> Seq(Batches)]
          /\ state \in [CallIds -> Live \cup {"none", "Ended"}]
      BY <2>1 DEF Init
    <2>5. CallTypes
      BY <2>4 DEF Init, CallTypes
    <2>6. HeldTypes
      <3>1. /\ early_candidates \in Seq(Batches) /\ Len(early_candidates) = 0
            /\ old = {} /\ 0 <= MAX_EARLY_CANDIDATE_BATCHES
        BY <2>1, CallsAssumption DEF Init
      <3> QED
        BY <3>1 DEF HeldTypes
    <2>7. GivenTypes
      BY <2>1, <2>4 DEF Init, GivenTypes
    <2> QED
      BY <2>3, <2>5, <2>6, <2>7, TypesSplit
  <1>2. TypeOK /\ OutcomesInv' /\ [Next]_vars => TypeOK'
    <2> SUFFICES ASSUME TypeOK, OutcomesInv', [Next]_vars PROVE TypeOK'
      OBVIOUS
    <2>1. CallTypes' /\ HeldTypes' /\ GivenTypes' /\ OutcomeTypes'
      BY TypesSplit, TypesStep, OutcomeTypesStep
    <2> QED
      BY <2>1 DEF TypeOK, CallTypes, HeldTypes, GivenTypes, OutcomeTypes
  <1> QED
    BY <1>1, <1>2, OutcomesInvariant, PTL DEF Spec

LEMMA CandidatesInvariant == Spec => []CandidatesInv
  <1>1. Init => CandidatesInv
    <2> SUFFICES ASSUME Init PROVE CandidatesInv
      OBVIOUS
    <2>1. /\ active_call = None /\ accepting = None /\ arrived = {}
          /\ \A c \in CallIds : state[c] = "none" /\ pending_candidates[c] = <<>>
          /\ early_candidates = <<>> /\ delivered = <<>>
      BY DEF Init
    <2>2. ArrivedInv /\ OrderInv
      BY <2>1, EmptyInOrder DEF ArrivedInv, OrderInv, Before
    <2>3. CallsInv /\ HeldInv
      BY <2>1, EmptyInOrder, CallsAssumption DEF CallsInv, HeldInv, Live
    <2> QED
      BY <2>2, <2>3 DEF CandidatesInv
  <1>2. TypeOK /\ CandidatesInv /\ [Next]_vars => CandidatesInv'
    BY TypesSplit, CandidatesStep
  <1> QED
    BY <1>1, <1>2, RecordsTyped, PTL DEF Spec

(* handle_candidates, accept and replay_early_candidates between them: the  *)
(* embedder gets the batches of a call in the order in which they arrived,  *)
(* and none twice, whichever of the three hands them over.                  *)
THEOREM DeliveriesInOrder == Spec => []DeliveredInOrder
  <1>1. CandidatesInv => DeliveredInOrder
    BY DEF CandidatesInv, OrderInv, InOrder, DeliveredInOrder
  <1> QED
    BY <1>1, CandidatesInvariant, PTL

(* Once a call connects, no batch of it waits with the session, and none    *)
(* with the call unless it came in the midst of accept().                   *)
THEOREM ConnectingHoldsNothing == Spec => []NothingHeldBack
  <1>1. TypeOK /\ CandidatesInv => NothingHeldBack
    BY DEF TypeOK, CandidatesInv, HeldInv, NothingHeldBack
  <1> QED
    BY <1>1, RecordsTyped, CandidatesInvariant, PTL

(* A batch dropped is one that hold_early_candidates() drops.               *)
LEMMA HoldDrops ==
    ASSUME HeldTypes, NEW b \in Batches, HoldEarlyCandidates(b),
           NEW x \in ToSet(early_candidates) \ ToSet(early_candidates'), x \notin old
    PROVE  /\ x = Head(early_candidates)
           /\ ToSet(early_candidates) \cap old = {}
           /\ Len(early_candidates) = MAX_EARLY_CANDIDATE_BATCHES
  <1> DEFINE young == Only(early_candidates, Batches \ old)
             kept == IF Len(young) >= MAX_EARLY_CANDIDATE_BATCHES THEN Tail(young) ELSE young
  <1>1. early_candidates' = Append(kept, b)
    BY DEF HoldEarlyCandidates
  <1>2. /\ young \in Seq(Batches) /\ Len(young) \in Nat
        /\ ToSet(young) = ToSet(early_candidates) \cap (Batches \ old)
        /\ Len(young) <= Len(early_candidates) /\ Len(early_candidates) \in Nat
        /\ Len(young) = Len(early_candidates) => young = early_candidates
    BY OnlyKeeps, OnlyBatches DEF HeldTypes
  <1>3. x \in ToSet(young)
    <2>1. x \in Batches
      BY LenProperties, ElementOfSeq DEF ToSet, HeldTypes
    <2> QED
      BY <1>2, <2>1
  <1> HIDE DEF young
  <1>4. Len(young) >= MAX_EARLY_CANDIDATE_BATCHES
    <2> SUFFICES ASSUME ~(Len(young) >= MAX_EARLY_CANDIDATE_BATCHES) PROVE FALSE
      OBVIOUS
    <2>1. early_candidates' = Append(young, b)
      BY <1>1
    <2>2. x \in ToSet(early_candidates')
      BY <1>2, <1>3, <2>1, AppendInOrder
    <2> QED
      BY <2>2
  <1>5. Len(young) = Len(early_candidates) /\ Len(early_candidates) = MAX_EARLY_CANDIDATE_BATCHES
    BY <1>2, <1>4, CallsAssumption DEF HeldTypes
  <1>6. young = early_candidates /\ ToSet(early_candidates) \cap old = {}
    BY <1>2, <1>5
  <1>7. x = Head(young)
    <2>1. /\ Tail(young) \in Seq(Batches) /\ ToSet(young) = ToSet(Tail(young)) \cup {Head(young)}
      <3>1. Len(young) > 0
        BY <1>2, <1>4, CallsAssumption
      <3> QED
        BY <1>2, <3>1, TailInOrder
    <2>2. early_candidates' = Append(Tail(young), b)
      BY <1>1, <1>4
    <2>3. x \notin ToSet(Tail(young))
      BY <2>1, <2>2, AppendInOrder
    <2> QED
      BY <1>3, <2>1, <2>3
  <1> QED
    BY <1>5, <1>6, <1>7

LEMMA ReplayDrops ==
    ASSUME HeldTypes, NEW c, SetActiveCall(c),
           NEW x \in ToSet(early_candidates) \ ToSet(early_candidates')
    PROVE  x.call = active_call'
  <1>1. ToSet(early_candidates') = ToSet(early_candidates) \cap (Batches \ Of(c))
    BY OnlyKeeps DEF HeldTypes, SetActiveCall, ReplayEarlyCandidates
  <1>2. x \in Batches
    BY LenProperties, ElementOfSeq DEF ToSet, HeldTypes
  <1> QED
    BY <1>1, <1>2 DEF Of, SetActiveCall

(* A batch held for a call still to come is dropped for its age or, when    *)
(* as many are held as may be and none is past its time, as the oldest.     *)
THEOREM HeldStays == Spec => HeldUntilClaimed
  <1> DEFINE Stay == \A b \in ToSet(early_candidates) \ ToSet(early_candidates') :
                        \/ b \in old \/ b.call = active_call'
                        \/ b = Head(early_candidates)
                           /\ ToSet(early_candidates) \cap old = {}
                           /\ Len(early_candidates) = MAX_EARLY_CANDIDATE_BATCHES
  <1>1. TypeOK /\ [Next]_vars => [Stay]_vars
    <2> SUFFICES ASSUME TypeOK, [Next]_vars,
                        NEW b \in ToSet(early_candidates) \ ToSet(early_candidates')
                 PROVE  \/ b \in old \/ b.call = active_call'
                        \/ b = Head(early_candidates)
                           /\ ToSet(early_candidates) \cap old = {}
                           /\ Len(early_candidates) = MAX_EARLY_CANDIDATE_BATCHES
      OBVIOUS
    <2>1. HeldTypes
      BY TypesSplit
    <2>2. early_candidates' # early_candidates
      OBVIOUS
    <2>3. \/ \E c \in CallIds : SetActiveCall(c)
          \/ \E x \in Batches : HoldEarlyCandidates(x)
      BY <2>2 DEF Next, vars, held, GrowOld, FinishAccept, ForgetEnded, Place, BeginAccept,
                  EndLocally, HandleInvite, Ring, HandleAnswer, HandleSelectAnswer,
                  HandleReject, HandleHangup, ReceiveCandidates
    <2> QED
      BY <2>1, <2>3, HoldDrops, ReplayDrops
  <1> QED
    BY <1>1, RecordsTyped, PTL DEF Spec, HeldUntilClaimed
===============================================================================
