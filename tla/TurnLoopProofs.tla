---------------------------- MODULE TurnLoopProofs ----------------------------
(***************************************************************************)
(* Theorems about TurnLoop, for any answers, budgets and bounds: what the  *)
(* view of a conversation shows after any mixture of compactions, failures *)
(* and fresh contexts, and that every step of a turn is one TurnHistory    *)
(* allows.                                                                 *)
(***************************************************************************)
EXTENDS TurnLoop, FiniteSetTheorems, SequenceTheorems, TLAPS

---------------------------------------------------------------------------
(* Places in a finite set of numbers.                                      *)

UpTo(numbers, i) == {j \in numbers : j <= i}

LEMMA UpToProperties ==
  ASSUME NEW numbers \in SUBSET Int, IsFiniteSet(numbers), NEW i \in numbers
  PROVE  /\ IsFiniteSet(UpTo(numbers, i))
         /\ Cardinality(UpTo(numbers, i)) \in 1 .. Cardinality(numbers)
         /\ \A j \in numbers : Cardinality(UpTo(numbers, i)) = Cardinality(UpTo(numbers, j)) => i = j
<1>1. \A j \in numbers : /\ UpTo(numbers, j) \in SUBSET numbers /\ j \in UpTo(numbers, j)
                         /\ IsFiniteSet(UpTo(numbers, j))
  BY FS_Subset DEF UpTo
<1>2. Cardinality(UpTo(numbers, i)) \in Nat /\ Cardinality(numbers) \in Nat
  BY <1>1, FS_CardinalityType
<1>3. Cardinality(UpTo(numbers, i)) # 0
  BY <1>1, FS_EmptySet
<1>4. Cardinality(UpTo(numbers, i)) <= Cardinality(numbers)
  BY <1>1, FS_Subset
<1>5. ASSUME NEW a \in numbers, NEW b \in numbers, a <= b,
             Cardinality(UpTo(numbers, a)) = Cardinality(UpTo(numbers, b))
      PROVE  a = b
  <2>1. \A j \in numbers : j <= a => j <= b
    <3>1. \A j \in numbers : j \in Int
      OBVIOUS
    <3> QED BY <3>1, <1>5
  <2>2. UpTo(numbers, a) \in SUBSET UpTo(numbers, b)
    BY <2>1 DEF UpTo
  <2>3. UpTo(numbers, b) = UpTo(numbers, a)
    BY <2>2, <1>1, <1>5, FS_Subset
  <2>4. b <= a
    BY <2>3, <1>1 DEF UpTo
  <2>5. a \in Int /\ b \in Int
    OBVIOUS
  <2> QED BY <2>4, <2>5, <1>5
<1>6. \A j \in numbers : Cardinality(UpTo(numbers, i)) = Cardinality(UpTo(numbers, j)) => i = j
  BY <1>5
<1> QED BY <1>1, <1>2, <1>3, <1>4, <1>6

(* Nth counts a set through, every number once. *)
LEMMA NthProperties ==
  ASSUME NEW numbers \in SUBSET Int, IsFiniteSet(numbers)
  PROVE  /\ Cardinality(numbers) \in Nat
         /\ \A k \in 1 .. Cardinality(numbers) : Nth(numbers, k) \in numbers
         /\ \A k \in 1 .. Cardinality(numbers) : Cardinality(UpTo(numbers, Nth(numbers, k))) = k
         /\ \A k, l \in 1 .. Cardinality(numbers) : Nth(numbers, k) = Nth(numbers, l) => k = l
         /\ \A i \in numbers : \E k \in 1 .. Cardinality(numbers) : Nth(numbers, k) = i
<1> DEFINE size == Cardinality(numbers)
           rank == [i \in numbers |-> Cardinality(UpTo(numbers, i))]
<1>1. size \in Nat
  BY FS_CardinalityType
<1>2. rank \in Injection(numbers, 1 .. size)
  <2>1. rank \in [numbers -> 1 .. size]
    BY UpToProperties
  <2>2. \A i, j \in numbers : rank[i] = rank[j] => i = j
    BY UpToProperties
  <2> QED BY <2>1, <2>2 DEF Injection, IsInjective
<1>3. IsFiniteSet(1 .. size) /\ Cardinality(1 .. size) = size
  BY <1>1, FS_Interval
<1>4. rank \in Surjection(numbers, 1 .. size)
  BY <1>2, <1>3, FS_Injection
<1>5. \A k \in 1 .. size : \E i \in numbers : rank[i] = k
  BY <1>4 DEF Surjection
<1>6. \A k : Nth(numbers, k) = CHOOSE i \in numbers : rank[i] = k
  BY DEF Nth, UpTo
<1>7. \A k \in 1 .. size : Nth(numbers, k) \in numbers /\ rank[Nth(numbers, k)] = k
  BY <1>5, <1>6
<1>8. \A k \in 1 .. size : Cardinality(UpTo(numbers, Nth(numbers, k))) = k
  BY <1>7
<1>9. \A i, j \in numbers : rank[i] = rank[j] => i = j
  BY UpToProperties
<1>10. \A i \in numbers : rank[i] \in 1 .. size
  BY UpToProperties
<1> HIDE DEF rank, size
<1>11. \A i \in numbers : \E k \in 1 .. size : Nth(numbers, k) = i
  BY <1>7, <1>9, <1>10
<1>12. \A k, l \in 1 .. size : Nth(numbers, k) = Nth(numbers, l) => k = l
  BY <1>7
<1> QED BY <1>1, <1>7, <1>11, <1>12, <1>8 DEF size

LEMMA PositionsFinite ==
  ASSUME NEW n \in Nat, NEW numbers \in SUBSET (1 .. n)
  PROVE  numbers \in SUBSET Int /\ numbers \in SUBSET Nat /\ IsFiniteSet(numbers)
<1>1. 1 .. n \subseteq Nat /\ 1 .. n \subseteq Int
  OBVIOUS
<1>2. IsFiniteSet(1 .. n)
  BY FS_Interval
<1> QED BY <1>1, <1>2, FS_Subset

LEMMA GreatestExists ==
  ASSUME NEW numbers \in SUBSET Int, IsFiniteSet(numbers), numbers # {}
  PROVE  \E i \in numbers : \A j \in numbers : j <= i
<1> DEFINE last == Nth(numbers, Cardinality(numbers))
<1>1. Cardinality(numbers) \in Nat /\ Cardinality(numbers) # 0
  BY FS_CardinalityType, FS_EmptySet
<1>2. last \in numbers /\ Cardinality(UpTo(numbers, last)) = Cardinality(numbers)
  BY <1>1, NthProperties
<1> HIDE DEF last
<1>3. UpTo(numbers, last) \in SUBSET numbers
  BY DEF UpTo
<1>4. UpTo(numbers, last) = numbers
  BY <1>2, <1>3, FS_Subset
<1> QED BY <1>2, <1>4 DEF UpTo

---------------------------------------------------------------------------
(* Conversations and what is asked of them.                                *)

Segment == [kind : {"user", "model"}, done : SUBSET Nat]
Piece   == [kind : {"user", "model", "summary"}, of : SUBSET Nat]

Conversations ==
  [transcript : Seq(Segment), active : Seq(Piece), checkpoints : Seq(SUBSET Nat), start : Nat]

(* The effects are known ones, and only what exists is referred to. *)
Typed(c, known) ==
  /\ c \in Conversations
  /\ \A i \in 1 .. Len(c.transcript) : c.transcript[i].done \subseteq known
  /\ \A k \in 1 .. Len(c.active) : c.active[k].of \subseteq 1 .. Len(c.transcript)
  /\ \A k \in 1 .. Len(c.checkpoints) : c.checkpoints[k] \subseteq 1 .. Len(c.transcript)
  /\ c.start \in 1 .. Len(c.transcript) + 1

IsUser(c, i) == i \in 1 .. Len(c.transcript) /\ c.transcript[i].kind = "user"

(* The user messages of the view are real ones, in their order, and the    *)
(* newest of all is among them.                                            *)
UsersShown(c) ==
  /\ \A k \in 1 .. Len(c.active) :
       c.active[k].kind = "user" => \E i \in Nat : IsUser(c, i) /\ c.active[k] = Real("user", i)
  /\ \A k, l \in 1 .. Len(c.active) : \A i, j \in Nat :
       k < l /\ c.active[k] = Real("user", i) /\ c.active[l] = Real("user", j) => i < j
  /\ \A i \in Nat :
       IsUser(c, i) /\ (\A j \in Nat : IsUser(c, j) => j <= i) =>
         \E k \in 1 .. Len(c.active) : c.active[k] = Real("user", i)

Places(c, i)    == {k \in DOMAIN c.active : i \in c.active[k].of}
Omissions(c, i) == {k \in DOMAIN c.checkpoints : i \in c.checkpoints[k]}

Whole(c) ==
  \A i \in c.start .. Len(c.transcript) :
    \/ Omissions(c, i) = {} /\ \E k : Places(c, i) = {k}
    \/ Places(c, i) = {} /\ \E k : Omissions(c, i) = {k}

Good(c, known) == Typed(c, known) /\ UsersShown(c) /\ Whole(c)

LEMMA Elementwise ==
  ASSUME NEW A, NEW B, NEW s \in Seq(A), \A i \in 1 .. Len(s) : s[i] \in B
  PROVE  s \in Seq(B)
  OBVIOUS

LEMMA FunctionIsSeq ==
  ASSUME NEW A, NEW n \in Nat, NEW f \in [1 .. n -> A]
  PROVE  f \in Seq(A) /\ Len(f) = n
  OBVIOUS

LEMMA ConversationType ==
  ASSUME NEW c \in Conversations
  PROVE  /\ c.transcript \in Seq(Segment) /\ Len(c.transcript) \in Nat
         /\ c.active \in Seq(Piece) /\ Len(c.active) \in Nat
         /\ c.checkpoints \in Seq(SUBSET Nat) /\ Len(c.checkpoints) \in Nat
         /\ c.start \in Nat
         /\ DOMAIN c.transcript = 1 .. Len(c.transcript)
         /\ DOMAIN c.active = 1 .. Len(c.active)
         /\ DOMAIN c.checkpoints = 1 .. Len(c.checkpoints)
         /\ \A i \in 1 .. Len(c.transcript) : c.transcript[i] \in Segment
         /\ \A k \in 1 .. Len(c.active) : c.active[k] \in Piece
         /\ \A k \in 1 .. Len(c.checkpoints) : c.checkpoints[k] \in SUBSET Nat
<1>1. /\ c.transcript \in Seq(Segment) /\ c.active \in Seq(Piece)
      /\ c.checkpoints \in Seq(SUBSET Nat) /\ c.start \in Nat
  BY DEF Conversations
<1> QED BY <1>1, LenProperties, ElementOfSeq

LEMMA RealType ==
  ASSUME NEW kind \in {"user", "model"}, NEW i \in Nat
  PROVE  /\ Real(kind, i) \in Piece /\ Real(kind, i).of = {i} /\ Real(kind, i).kind = kind
         /\ \A j : Real(kind, i) = Real("user", j) => kind = "user" /\ i = j
  BY DEF Real, Piece

(* Accounted counts, Whole names: the same for a conversation. *)
LEMMA AccountedOnce ==
  ASSUME NEW c \in Conversations, NEW i,
         \/ Omissions(c, i) = {} /\ \E k : Places(c, i) = {k}
         \/ Places(c, i) = {} /\ \E k : Omissions(c, i) = {k}
  PROVE  Accounted(c, i)
<1>1. Cardinality({}) = 0 /\ \A k : Cardinality({k}) = 1
  BY FS_EmptySet, FS_Singleton
<1>2. Cardinality(Places(c, i)) + Cardinality(Omissions(c, i)) = 1
  BY <1>1
<1> QED BY <1>2 DEF Accounted, Places, Omissions

LEMMA TypedIsConversation ==
  ASSUME NEW c, NEW known, Typed(c, known)
  PROVE  IsConversation(c, known)
<1>1. c \in Conversations
  BY DEF Typed
<1>2. c.transcript \in Seq([kind : {"user", "model"}, done : SUBSET known])
  <2>1. \A i \in 1 .. Len(c.transcript) : c.transcript[i] \in [kind : {"user", "model"}, done : SUBSET known]
    BY <1>1, ConversationType DEF Typed, Segment
  <2>2. c.transcript \in Seq(Segment)
    BY <1>1, ConversationType
  <2> QED BY <2>1, <2>2, Elementwise
<1>3. c.active \in Seq([kind : {"user", "model", "summary"}, of : SUBSET DOMAIN c.transcript])
  <2>1. \A i \in 1 .. Len(c.active) :
          c.active[i] \in [kind : {"user", "model", "summary"}, of : SUBSET DOMAIN c.transcript]
    BY <1>1, ConversationType DEF Typed, Piece
  <2> QED BY <2>1, <1>1, ConversationType, Elementwise
<1>4. c.checkpoints \in Seq(SUBSET DOMAIN c.transcript)
  <2>1. \A i \in 1 .. Len(c.checkpoints) : c.checkpoints[i] \in SUBSET DOMAIN c.transcript
    BY <1>1, ConversationType DEF Typed
  <2>2. c.checkpoints \in Seq(SUBSET Nat)
    BY <1>1, ConversationType
  <2> QED BY <2>1, <2>2, Elementwise
<1> QED BY <1>2, <1>3, <1>4 DEF Typed, IsConversation

---------------------------------------------------------------------------
(* The operations.  A round or a message appended, and the view of a       *)
(* snapshot restored, are both a view followed by what is newer than it.   *)

Follows(d, c) ==
  LET n == Len(c.transcript)
      m == Len(c.active)
  IN /\ Len(d.active) >= m /\ Len(d.transcript) = n + (Len(d.active) - m)
     /\ \A i \in 1 .. n : d.transcript[i] = c.transcript[i]
     /\ \A k \in 1 .. m : d.active[k] = c.active[k]
     /\ \A k \in m + 1 .. Len(d.active) :
          d.active[k] = Real(d.transcript[n + (k - m)].kind, n + (k - m))
     /\ d.checkpoints = c.checkpoints /\ d.start = c.start

LEMMA FollowsGood ==
  ASSUME NEW known, NEW c, Good(c, known), NEW d \in Conversations, Follows(d, c),
         \A i \in 1 .. Len(d.transcript) : d.transcript[i].done \subseteq known
  PROVE  Good(d, known)
<1> DEFINE n == Len(c.transcript)
           m == Len(c.active)
           N == Len(d.transcript)
           M == Len(d.active)
<1>1. c \in Conversations
  BY DEF Good, Typed
<1>2. n \in Nat /\ m \in Nat /\ N \in Nat /\ M \in Nat
  BY <1>1, ConversationType
<1>3. /\ M >= m /\ N = n + (M - m)
      /\ \A i \in 1 .. n : d.transcript[i] = c.transcript[i]
      /\ \A k \in 1 .. m : d.active[k] = c.active[k]
      /\ \A k \in m + 1 .. M : d.active[k] = Real(d.transcript[n + (k - m)].kind, n + (k - m))
      /\ d.checkpoints = c.checkpoints /\ d.start = c.start
  BY DEF Follows
<1>4. \A i \in 1 .. N : d.transcript[i].kind \in {"user", "model"}
  BY ConversationType DEF Segment
<1>5. /\ \A k \in 1 .. m : c.active[k].of \subseteq 1 .. n
      /\ \A k \in 1 .. Len(c.checkpoints) : c.checkpoints[k] \subseteq 1 .. n
      /\ c.start \in 1 .. n + 1
  BY DEF Good, Typed
<1>6. DOMAIN c.active = 1 .. m /\ DOMAIN d.active = 1 .. M /\ DOMAIN c.checkpoints = 1 .. Len(c.checkpoints)
  BY <1>1, ConversationType
<1> HIDE DEF n, m, N, M
(* What is new stands at the end, each for itself. *)
<1>7. \A k \in 1 .. M : k > m =>
        /\ n + (k - m) \in 1 .. N /\ n + (k - m) > n /\ n + (k - m) \in Nat
        /\ d.active[k] = Real(d.transcript[n + (k - m)].kind, n + (k - m))
        /\ d.active[k].of = {n + (k - m)}
        /\ d.active[k].kind = d.transcript[n + (k - m)].kind
        /\ \A j : d.active[k] = Real("user", j) =>
             d.transcript[n + (k - m)].kind = "user" /\ j = n + (k - m)
  <2> TAKE k \in 1 .. M
  <2> HAVE k > m
  <2>1. k \in m + 1 .. M /\ n + (k - m) \in 1 .. N /\ n + (k - m) > n /\ n + (k - m) \in Nat
    BY <1>2, <1>3
  <2>2. d.active[k] = Real(d.transcript[n + (k - m)].kind, n + (k - m))
    BY <1>3, <2>1
  <2>3. d.transcript[n + (k - m)].kind \in {"user", "model"}
    BY <1>4, <2>1
  <2> QED BY <2>1, <2>2, <2>3, RealType
<1>8. \A i \in 1 .. N : i > n =>
        m + (i - n) \in 1 .. M /\ m + (i - n) > m /\ n + ((m + (i - n)) - m) = i
  BY <1>2, <1>3
<1>9. Typed(d, known)
  <2>1. \A k \in 1 .. M : d.active[k].of \subseteq 1 .. N
    <3> TAKE k \in 1 .. M
    <3>1. CASE k <= m
      BY <3>1, <1>2, <1>3, <1>5
    <3>2. CASE k > m
      BY <3>2, <1>7
    <3> QED BY <3>1, <3>2, <1>2
  <2>2. \A k \in 1 .. Len(d.checkpoints) : d.checkpoints[k] \subseteq 1 .. N
    BY <1>2, <1>3, <1>5
  <2>3. d.start \in 1 .. N + 1
    BY <1>2, <1>3, <1>5
  <2> QED BY <2>1, <2>2, <2>3 DEF Typed, N, M
<1>10. \A i \in Nat : i <= n => (IsUser(d, i) <=> IsUser(c, i))
  BY <1>2, <1>3 DEF IsUser, n, N
<1>11. UsersShown(d)
  <2>0. /\ \A k \in 1 .. m :
             c.active[k].kind = "user" => \E i \in Nat : IsUser(c, i) /\ c.active[k] = Real("user", i)
        /\ \A k, l \in 1 .. m : \A i, j \in Nat :
             k < l /\ c.active[k] = Real("user", i) /\ c.active[l] = Real("user", j) => i < j
        /\ \A i \in Nat :
             IsUser(c, i) /\ (\A j \in Nat : IsUser(c, j) => j <= i) =>
               \E k \in 1 .. m : c.active[k] = Real("user", i)
    BY DEF Good, UsersShown, m
  <2>1. \A k \in 1 .. m : \A i \in Nat : c.active[k] = Real("user", i) => i \in 1 .. n
    BY <1>5, RealType
  <2>2. ASSUME NEW k \in 1 .. M, d.active[k].kind = "user"
        PROVE  \E i \in Nat : IsUser(d, i) /\ d.active[k] = Real("user", i)
    <3>1. CASE k <= m
      <4>1. PICK i \in Nat : IsUser(c, i) /\ c.active[k] = Real("user", i)
        BY <3>1, <2>2, <2>0, <1>2, <1>3
      <4>2. i <= n
        BY <4>1 DEF IsUser, n
      <4> QED BY <4>1, <4>2, <3>1, <1>2, <1>3, <1>10
    <3>2. CASE k > m
      BY <3>2, <2>2, <1>7 DEF IsUser, N
    <3> QED BY <3>1, <3>2, <1>2
  <2>3. ASSUME NEW k \in 1 .. M, NEW l \in 1 .. M, NEW i \in Nat, NEW j \in Nat,
               k < l, d.active[k] = Real("user", i), d.active[l] = Real("user", j)
        PROVE  i < j
    <3>1. CASE l <= m
      BY <3>1, <2>3, <2>0, <1>2, <1>3
    <3>2. CASE k <= m /\ l > m
      <4>1. j = n + (l - m) /\ j > n
        BY <3>2, <2>3, <1>7
      <4>2. k \in 1 .. m
        BY <3>2, <1>2
      <4>3. c.active[k] = Real("user", i)
        BY <4>2, <2>3, <1>3
      <4>4. i <= n
        BY <4>2, <4>3, <2>1
      <4> QED BY <4>1, <4>4, <1>2
    <3>3. CASE k > m
      <4>1. i = n + (k - m) /\ j = n + (l - m)
        BY <3>3, <2>3, <1>2, <1>7
      <4> QED BY <4>1, <2>3, <1>2
    <3> QED BY <3>1, <3>2, <3>3, <1>2, <2>3
  <2>4. ASSUME NEW i \in Nat, IsUser(d, i), \A j \in Nat : IsUser(d, j) => j <= i
        PROVE  \E k \in 1 .. M : d.active[k] = Real("user", i)
    <3>1. CASE i <= n
      <4>1. IsUser(c, i)
        BY <3>1, <2>4, <1>10
      <4>2. \A j \in Nat : IsUser(c, j) => j <= n
        BY DEF IsUser, n
      <4>3. \A j \in Nat : IsUser(c, j) => j <= i
        BY <4>2, <2>4, <1>10
      <4>4. PICK k \in 1 .. m : c.active[k] = Real("user", i)
        BY <4>1, <4>3, <2>0
      <4>5. k \in 1 .. M
        BY <1>2, <1>3
      <4>6. d.active[k] = Real("user", i)
        BY <4>4, <1>3
      <4> QED BY <4>5, <4>6
    <3>2. CASE i > n
      <4>1. i \in 1 .. N /\ d.transcript[i].kind = "user"
        BY <2>4 DEF IsUser, N
      <4>2. m + (i - n) \in 1 .. M /\ m + (i - n) > m /\ n + ((m + (i - n)) - m) = i
        BY <4>1, <3>2, <1>8
      <4>3. d.active[m + (i - n)] = Real(d.transcript[n + ((m + (i - n)) - m)].kind, n + ((m + (i - n)) - m))
        BY <4>2, <1>7
      <4> QED BY <4>1, <4>2, <4>3
    <3> QED BY <3>1, <3>2, <1>2
  <2> QED BY <2>2, <2>3, <2>4 DEF UsersShown, M
<1>12. Whole(d)
  <2> SUFFICES ASSUME NEW i \in d.start .. N
               PROVE  \/ Omissions(d, i) = {} /\ \E k : Places(d, i) = {k}
                      \/ Places(d, i) = {} /\ \E k : Omissions(d, i) = {k}
    BY DEF Whole, N
  <2>0. c.start \in 1 .. n + 1 /\ i \in c.start .. N /\ i \in Int /\ i >= 1
    <3>1. i \in c.start .. N /\ c.start \in 1 .. n + 1
      BY <1>3, <1>5
    <3> QED BY <3>1, <1>2
  <2>1. Omissions(d, i) = Omissions(c, i)
    BY <1>3 DEF Omissions
  <2>2. CASE i <= n
    <3>1. i \in c.start .. n
      BY <2>0, <2>2, <1>2
    <3>2. Places(d, i) = Places(c, i)
      <4>1. \A k \in 1 .. M : k > m => i \notin d.active[k].of
        BY <2>2, <1>2, <1>7
      <4> QED BY <4>1, <1>2, <1>3, <1>6 DEF Places
    <3> QED BY <3>1, <3>2, <2>1 DEF Good, Whole, n
  <2>3. CASE i > n
    <3>1. i \in 1 .. N
      BY <2>0, <1>2
    <3>2. Omissions(d, i) = {}
      BY <2>1, <2>3, <1>2, <1>5, <1>6 DEF Omissions
    <3>3. m + (i - n) \in 1 .. M /\ m + (i - n) > m /\ n + ((m + (i - n)) - m) = i
      BY <3>1, <2>3, <1>8
    <3>4. i \in d.active[m + (i - n)].of
      BY <3>3, <1>7
    <3>5. ASSUME NEW k \in 1 .. M, i \in d.active[k].of
          PROVE  k = m + (i - n)
      <4>1. k <= m => d.active[k] = c.active[k] /\ c.active[k].of \subseteq 1 .. n
        BY <1>2, <1>3, <1>5
      <4>3. k > m
        BY <4>1, <3>5, <2>3, <2>0, <1>2
      <4>2. i = n + (k - m)
        BY <4>3, <3>5, <1>7
      <4> QED BY <4>2, <1>2
    <3>6. Places(d, i) = {m + (i - n)}
      BY <3>3, <3>4, <3>5, <1>6 DEF Places
    <3> QED BY <3>2, <3>6
  <2>4. i <= n \/ i > n
    BY <2>0, <1>2
  <2> QED BY <2>2, <2>3, <2>4
<1> QED BY <1>9, <1>11, <1>12 DEF Good

Prefix(s, c) ==
  /\ Len(s.transcript) <= Len(c.transcript)
  /\ \A i \in 1 .. Len(s.transcript) : c.transcript[i] = s.transcript[i]

LEMMA PrefixReflexive ==
  ASSUME NEW c \in Conversations
  PROVE  Prefix(c, c)
  BY ConversationType DEF Prefix

LEMMA PrefixOfExtension ==
  ASSUME NEW s \in Conversations, NEW c \in Conversations, NEW d \in Conversations,
         Prefix(s, c), Prefix(c, d)
  PROVE  Prefix(s, d)
<1>1. Len(s.transcript) \in Nat /\ Len(c.transcript) \in Nat /\ Len(d.transcript) \in Nat
  BY ConversationType
<1> QED BY <1>1 DEF Prefix

LEMMA EmptyGood ==
  ASSUME NEW known
  PROVE  /\ Good(EmptyConversation, known)
         /\ \A c \in Conversations : Prefix(EmptyConversation, c)
<1> DEFINE e == EmptyConversation
<1>1. e \in Conversations /\ e.start = 1
  BY EmptySeq DEF EmptyConversation, Conversations
<1>2. Len(e.transcript) = 0 /\ Len(e.active) = 0 /\ Len(e.checkpoints) = 0
  BY EmptySeq DEF EmptyConversation
<1>3. \A i : ~IsUser(e, i)
  BY <1>2 DEF IsUser
<1> HIDE DEF e
<1>4. Typed(e, known) /\ UsersShown(e) /\ Whole(e)
  BY <1>1, <1>2, <1>3 DEF Typed, UsersShown, Whole
<1>5. \A c \in Conversations : Prefix(e, c)
  BY <1>2, ConversationType DEF Prefix
<1> QED BY <1>4, <1>5 DEF Good, e

LEMMA AppendSegmentGood ==
  ASSUME NEW known, NEW c, Good(c, known),
         NEW kind \in {"user", "model"}, NEW done \in SUBSET Nat, done \subseteq known
  PROVE  /\ Good(AppendSegment(c, kind, done), known)
         /\ AppendSegment(c, kind, done) \in Conversations
         /\ Prefix(c, AppendSegment(c, kind, done))
         /\ AppendSegment(c, kind, done).transcript = Append(c.transcript, [kind |-> kind, done |-> done])
         /\ IsUser(AppendSegment(c, kind, done), Len(c.transcript) + 1) <=> kind = "user"
<1> DEFINE n == Len(c.transcript)
           m == Len(c.active)
           d == AppendSegment(c, kind, done)
           segment == [kind |-> kind, done |-> done]
<1>1. c \in Conversations
  BY DEF Good, Typed
<1>2. /\ c.transcript \in Seq(Segment) /\ n \in Nat
      /\ c.active \in Seq(Piece) /\ m \in Nat
  BY <1>1, ConversationType
<1>3. segment \in Segment
  BY DEF Segment
<1>4. Real(kind, n + 1) \in Piece
  BY <1>2, RealType
<1>5. d = [c EXCEPT !.transcript = Append(c.transcript, segment), !.active = Append(c.active, Real(kind, n + 1))]
  BY DEF AppendSegment
<1>6. /\ d.transcript = Append(c.transcript, segment)
      /\ d.active = Append(c.active, Real(kind, n + 1))
      /\ d.checkpoints = c.checkpoints /\ d.start = c.start
      /\ d \in [transcript : {d.transcript}, active : {d.active},
               checkpoints : {c.checkpoints}, start : {c.start}]
  BY <1>1, <1>5 DEF Conversations
<1>7. /\ d.transcript \in Seq(Segment) /\ Len(d.transcript) = n + 1
      /\ \A i \in 1 .. n : d.transcript[i] = c.transcript[i]
      /\ d.transcript[n + 1] = segment
  BY <1>2, <1>3, <1>6, AppendProperties
<1>8. /\ d.active \in Seq(Piece) /\ Len(d.active) = m + 1
      /\ \A k \in 1 .. m : d.active[k] = c.active[k]
      /\ d.active[m + 1] = Real(kind, n + 1)
  BY <1>2, <1>4, <1>6, AppendProperties
<1>9. c.checkpoints \in Seq(SUBSET Nat) /\ c.start \in Nat
  BY <1>1, ConversationType
<1>10. d \in Conversations
  BY <1>6, <1>7, <1>8, <1>9 DEF Conversations
<1>11. segment.kind = kind /\ segment.done = done
  OBVIOUS
<1>12. \A i \in 1 .. n : c.transcript[i].done \subseteq known
  BY DEF Good, Typed
<1> HIDE DEF n, m, d, segment
<1>13. Follows(d, c)
  <2>1. \A k \in m + 1 .. m + 1 : k = m + 1 /\ n + (k - m) = n + 1
    BY <1>2
  <2>2. \A k \in m + 1 .. Len(d.active) : d.active[k] = Real(d.transcript[n + (k - m)].kind, n + (k - m))
    BY <2>1, <1>7, <1>8, <1>11
  <2>3. Len(d.active) >= m /\ Len(d.transcript) = n + (Len(d.active) - m)
    BY <1>2, <1>7, <1>8
  <2> QED BY <2>2, <2>3, <1>6, <1>7, <1>8 DEF Follows, n, m
<1>14. \A i \in 1 .. Len(d.transcript) : d.transcript[i].done \subseteq known
  <2>1. \A i \in 1 .. n + 1 : i \in 1 .. n \/ i = n + 1
    BY <1>2
  <2> QED BY <2>1, <1>7, <1>11, <1>12
<1>15. Good(d, known)
  BY <1>10, <1>13, <1>14, FollowsGood
<1>16. Prefix(c, d)
  BY <1>2, <1>7 DEF Prefix, n
<1>17. IsUser(d, n + 1) <=> kind = "user"
  BY <1>2, <1>7, <1>11 DEF IsUser
<1> QED BY <1>6, <1>10, <1>15, <1>16, <1>17 DEF d, n, segment

LEMMA AppendRoundGood ==
  ASSUME NEW known \in SUBSET Nat, NEW c, Good(c, known), NEW done \in SUBSET known
  PROVE  /\ Good(AppendRound(c, done), known)
         /\ AppendRound(c, done) \in Conversations
         /\ Prefix(c, AppendRound(c, done))
         /\ AppendRound(c, done).transcript = Append(c.transcript, [kind |-> "model", done |-> done])
<1>1. "model" \in {"user", "model"} /\ done \in SUBSET Nat /\ done \subseteq known
  OBVIOUS
<1> QED BY <1>1, AppendSegmentGood DEF AppendRound

LEMMA AppendUserGood ==
  ASSUME NEW known, NEW c, Good(c, known)
  PROVE  /\ Good(AppendUser(c), known)
         /\ AppendUser(c) \in Conversations
         /\ AppendUser(c).transcript = Append(c.transcript, [kind |-> "user", done |-> {}])
         /\ IsUser(AppendUser(c), Len(c.transcript) + 1)
<1>1. "user" \in {"user", "model"} /\ {} \in SUBSET Nat /\ {} \subseteq known
  OBVIOUS
<1> QED BY <1>1, AppendSegmentGood DEF AppendUser

LEMMA RestoredGood ==
  ASSUME NEW known, NEW c, Good(c, known), NEW s, Good(s, known), Prefix(s, c)
  PROVE  /\ Good(Restored(c, s), known)
         /\ Restored(c, s) \in Conversations
         /\ Prefix(c, Restored(c, s))
         /\ Restored(c, s).transcript = c.transcript
<1> DEFINE n == Len(s.transcript)
           m == Len(s.active)
           N == Len(c.transcript)
           new == [k \in 1 .. N - n |-> Real(c.transcript[n + k].kind, n + k)]
           d == Restored(c, s)
<1>1. c \in Conversations /\ s \in Conversations
  BY DEF Good, Typed
<1>2. /\ c.transcript \in Seq(Segment) /\ N \in Nat
      /\ s.active \in Seq(Piece) /\ m \in Nat
      /\ n \in Nat
  BY <1>1, ConversationType
<1>3. n <= N /\ \A i \in 1 .. n : c.transcript[i] = s.transcript[i]
  BY DEF Prefix
<1>4. d = [c EXCEPT !.active = s.active \o new, !.checkpoints = s.checkpoints, !.start = s.start]
  BY DEF Restored
<1>5. /\ d.transcript = c.transcript /\ d.active = s.active \o new
      /\ d.checkpoints = s.checkpoints /\ d.start = s.start
      /\ d \in [transcript : {c.transcript}, active : {d.active},
               checkpoints : {s.checkpoints}, start : {s.start}]
  BY <1>1, <1>4 DEF Conversations
<1>6. \A k \in 1 .. N - n : Real(c.transcript[n + k].kind, n + k) \in Piece
  <2> TAKE k \in 1 .. N - n
  <2>1. n + k \in 1 .. N
    BY <1>2, <1>3
  <2>2. c.transcript[n + k].kind \in {"user", "model"}
    BY <2>1, <1>1, ConversationType DEF Segment
  <2>3. n + k \in Nat
    BY <2>1, <1>2
  <2> QED BY <2>2, <2>3, RealType
<1>7. N - n \in Nat
  BY <1>2, <1>3
<1>8. new \in Seq(Piece) /\ Len(new) = N - n
  <2>1. new \in [1 .. N - n -> Piece]
    BY <1>6
  <2> HIDE DEF new, N, n
  <2> QED BY <2>1, <1>7, FunctionIsSeq
<1>9. \A k \in 1 .. N - n : new[k] = Real(c.transcript[n + k].kind, n + k)
  OBVIOUS
<1> HIDE DEF n, m, N, new, d
<1>10. /\ d.active \in Seq(Piece) /\ Len(d.active) = m + (N - n)
       /\ \A k \in 1 .. m + (N - n) :
            d.active[k] = IF k <= m THEN s.active[k] ELSE new[k - m]
  <2>1. /\ s.active \o new \in Seq(Piece)
        /\ Len(s.active \o new) = m + Len(new)
        /\ \A k \in 1 .. m + Len(new) :
             (s.active \o new)[k] = IF k <= m THEN s.active[k] ELSE new[k - m]
    BY <1>2, <1>8, ConcatProperties DEF m
  <2> QED BY <2>1, <1>5, <1>8
<1>11. s.checkpoints \in Seq(SUBSET Nat) /\ s.start \in Nat
  BY <1>1, ConversationType
<1>12. d \in Conversations
  BY <1>2, <1>5, <1>10, <1>11 DEF Conversations
<1>13. Follows(d, s)
  <2>1. \A k \in m + 1 .. m + (N - n) : d.active[k] = Real(c.transcript[n + (k - m)].kind, n + (k - m))
    <3> TAKE k \in m + 1 .. m + (N - n)
    <3>1. k \in 1 .. m + (N - n) /\ ~(k <= m) /\ k - m \in 1 .. N - n
      BY <1>2, <1>7
    <3> QED BY <3>1, <1>9, <1>10
  <2>2. \A k \in 1 .. m : d.active[k] = s.active[k]
    BY <1>2, <1>7, <1>10
  <2>3. Len(d.active) >= m /\ N = n + (Len(d.active) - m)
    BY <1>2, <1>7, <1>10
  <2> QED BY <2>1, <2>2, <2>3, <1>3, <1>5, <1>10 DEF Follows, n, m, N
<1>14. \A i \in 1 .. N : c.transcript[i].done \subseteq known
  BY DEF Good, Typed, N
<1>15. Good(d, known)
  BY <1>5, <1>12, <1>13, <1>14, FollowsGood DEF N
<1>16. Prefix(c, d)
  BY <1>2, <1>5 DEF Prefix, N
<1> QED BY <1>5, <1>12, <1>15, <1>16 DEF d

LEMMA ResetActiveGood ==
  ASSUME NEW known, NEW c, Good(c, known)
  PROVE  /\ Good(ResetActive(c), known)
         /\ ResetActive(c) \in Conversations
         /\ Prefix(c, ResetActive(c))
         /\ ResetActive(c).transcript = Append(c.transcript, [kind |-> "user", done |-> {}])
<1> DEFINE n == Len(c.transcript)
           d == ResetActive(c)
           segment == [kind |-> "user", done |-> {}]
<1>1. c \in Conversations
  BY DEF Good, Typed
<1>2. c.transcript \in Seq(Segment) /\ n \in Nat
  BY <1>1, ConversationType
<1>3. segment \in Segment /\ segment.kind = "user" /\ segment.done = {}
  BY DEF Segment
<1>4. /\ Real("user", n + 1) \in Piece /\ Real("user", n + 1).of = {n + 1}
      /\ \A j : Real("user", n + 1) = Real("user", j) => n + 1 = j
  BY <1>2, RealType
<1>5. /\ d.transcript = Append(c.transcript, segment)
      /\ d.active = <<Real("user", n + 1)>>
      /\ d.checkpoints = c.checkpoints /\ d.start = n + 1
      /\ d \in [transcript : {d.transcript}, active : {d.active},
               checkpoints : {c.checkpoints}, start : {n + 1}]
  BY <1>1 DEF Conversations, ResetActive
<1>6. /\ d.transcript \in Seq(Segment) /\ Len(d.transcript) = n + 1
      /\ \A i \in 1 .. n : d.transcript[i] = c.transcript[i]
      /\ d.transcript[n + 1] = segment
  BY <1>2, <1>3, <1>5, AppendProperties
<1>7. /\ d.active \in Seq(Piece) /\ Len(d.active) = 1 /\ d.active[1] = Real("user", n + 1)
  BY <1>4, <1>5
<1>8. /\ \A i \in 1 .. n : c.transcript[i].done \subseteq known
      /\ \A k \in 1 .. Len(c.checkpoints) : c.checkpoints[k] \subseteq 1 .. n
      /\ DOMAIN c.checkpoints = 1 .. Len(c.checkpoints)
      /\ c.checkpoints \in Seq(SUBSET Nat)
  BY <1>1, ConversationType DEF Good, Typed
<1> HIDE DEF n, d, segment
<1>9. d \in Conversations
  <2>1. n + 1 \in Nat
    BY <1>2
  <2> QED BY <2>1, <1>5, <1>6, <1>7, <1>8 DEF Conversations
<1>10. Typed(d, known)
  <2>1. \A i \in 1 .. n + 1 : d.transcript[i].done \subseteq known
    BY <1>2, <1>3, <1>6, <1>8
  <2>2. \A k \in 1 .. 1 : d.active[k].of \subseteq 1 .. n + 1
    BY <1>2, <1>4, <1>7
  <2>3. \A k \in 1 .. Len(c.checkpoints) : c.checkpoints[k] \subseteq 1 .. n + 1
    BY <1>2, <1>8
  <2>4. n + 1 \in 1 .. (n + 1) + 1
    BY <1>2
  <2> QED BY <2>1, <2>2, <2>3, <2>4, <1>5, <1>6, <1>7, <1>9 DEF Typed
<1>11. UsersShown(d)
  <2>1. \A i : IsUser(d, i) => i <= n + 1 /\ i \in Nat
    BY <1>2, <1>6 DEF IsUser
  <2>2. IsUser(d, n + 1) /\ n + 1 \in Nat
    BY <1>2, <1>3, <1>6 DEF IsUser
  <2>3. \A i \in Nat : IsUser(d, i) /\ (\A j \in Nat : IsUser(d, j) => j <= i) => i = n + 1
    BY <2>1, <2>2, <1>2
  <2>4. \A k \in 1 .. 1 : k = 1
    OBVIOUS
  <2>5. \A k, l \in 1 .. 1 : ~(k < l)
    OBVIOUS
  <2> QED BY <2>2, <2>3, <2>4, <2>5, <1>7 DEF UsersShown
<1>12. Whole(d)
  <2> SUFFICES ASSUME NEW i \in d.start .. Len(d.transcript)
               PROVE  Omissions(d, i) = {} /\ Places(d, i) = {1}
    BY DEF Whole
  <2>1. i = n + 1
    BY <1>2, <1>5, <1>6
  <2>2. Omissions(d, i) = {}
    BY <2>1, <1>2, <1>5, <1>8 DEF Omissions
  <2>3. DOMAIN d.active = {1}
    BY <1>5
  <2>4. Places(d, i) = {1}
    BY <2>1, <2>3, <1>4, <1>7 DEF Places
  <2> QED BY <2>2, <2>4
<1>13. Prefix(c, d)
  BY <1>2, <1>6 DEF Prefix, n
<1> QED BY <1>5, <1>9, <1>10, <1>11, <1>12, <1>13 DEF Good, d, segment

---------------------------------------------------------------------------
(* A compaction.  The user message it keeps is the newest of all, because  *)
(* UsersShown says the last one of the view is.                            *)

LEMMA LatestUserIsNewest ==
  ASSUME NEW c \in Conversations, UsersShown(c), NEW someone \in Nat, IsUser(c, someone)
  PROVE  /\ LatestUser(c) \in DOMAIN c.active
         /\ \E u \in Nat :
              /\ c.active[LatestUser(c)] = Real("user", u)
              /\ \A i \in Nat : IsUser(c, i) /\ (\A j \in Nat : IsUser(c, j) => j <= i) => i = u
<1> DEFINE users == {i \in Nat : IsUser(c, i)}
           Last(k) == /\ c.active[k].kind = "user"
                      /\ \A j \in DOMAIN c.active : j > k => c.active[j].kind # "user"
<1>1. DOMAIN c.active = 1 .. Len(c.active) /\ Len(c.active) \in Nat /\ Len(c.transcript) \in Nat
  BY ConversationType
<1>2. users \in SUBSET Int /\ IsFiniteSet(users) /\ users # {}
  <2>1. users \in SUBSET (1 .. Len(c.transcript))
    BY DEF IsUser
  <2>2. users # {}
    OBVIOUS
  <2> HIDE DEF users
  <2> QED BY <2>1, <2>2, <1>1, PositionsFinite
<1>3. PICK u \in users : \A j \in users : j <= u
  BY <1>2, GreatestExists
<1>4. PICK p \in 1 .. Len(c.active) : c.active[p] = Real("user", u)
  BY <1>3 DEF UsersShown
<1>5. c.active[p].kind = "user"
  BY <1>4, RealType
<1>6. ASSUME NEW j \in 1 .. Len(c.active), j > p
      PROVE  c.active[j].kind # "user"
  <2> SUFFICES ASSUME c.active[j].kind = "user" PROVE FALSE
    OBVIOUS
  <2>1. PICK i \in Nat : IsUser(c, i) /\ c.active[j] = Real("user", i)
    BY DEF UsersShown
  <2>2. u < i
    BY <2>1, <1>3, <1>4, <1>6 DEF UsersShown
  <2>3. i <= u
    BY <2>1, <1>3
  <2> QED BY <2>2, <2>3, <1>3
<1>7. p \in DOMAIN c.active /\ Last(p)
  BY <1>1, <1>5, <1>6
<1>8. LatestUser(c) = CHOOSE k \in DOMAIN c.active : Last(k)
  BY DEF LatestUser
<1>9. LatestUser(c) \in DOMAIN c.active /\ Last(LatestUser(c))
  BY <1>7, <1>8
<1>10. LatestUser(c) = p
  <2>1. ~(LatestUser(c) > p) /\ ~(p > LatestUser(c))
    BY <1>7, <1>9
  <2> QED BY <2>1, <1>1, <1>9
<1>11. \A i \in Nat : IsUser(c, i) /\ (\A j \in Nat : IsUser(c, j) => j <= i) => i = u
  <2> TAKE i \in Nat
  <2> HAVE IsUser(c, i) /\ (\A j \in Nat : IsUser(c, j) => j <= i)
  <2>1. i <= u /\ u <= i /\ u \in Nat
    BY <1>3
  <2> QED BY <2>1
<1> QED BY <1>3, <1>4, <1>9, <1>10, <1>11

LEMMA PlansKeepOneUser ==
  ASSUME NEW c \in Conversations, NEW retained \in Plans(c),
         LatestUser(c) \in DOMAIN c.active
  PROVE  /\ retained \subseteq DOMAIN c.active
         /\ LatestUser(c) \in retained
         /\ \A k \in retained : c.active[k].kind = "user" => k = LatestUser(c)
<1>1. PICK rounds \in SUBSET {i \in DOMAIN c.active : c.active[i].kind = "model"} :
        retained = {LatestUser(c)} \union rounds
  BY DEF Plans
<1> QED BY <1>1

LEMMA IndicesMembers ==
  ASSUME NEW c, NEW positions, NEW i
  PROVE  i \in Indices(c, positions) <=> \E k \in positions : i \in c.active[k].of
  BY DEF Indices

(* What a compaction installs, position by position. *)
LEMMA CompactedShape ==
  ASSUME NEW c \in Conversations, NEW retained \in SUBSET DOMAIN c.active, NEW d,
         \A k \in 1 .. Len(c.active) : c.active[k].of \subseteq 1 .. Len(c.transcript)
  PROVE  LET e == Compacted(c, retained, d)
             size == Cardinality(retained)
             omitted == Omitted(c, retained, d)
             summary == Indices(c, DOMAIN c.active \ (retained \union omitted))
         IN /\ e \in Conversations
            /\ e.transcript = c.transcript /\ e.start = c.start
            /\ size \in Nat
            /\ Len(e.active) = size + 1
            /\ e.active[1] = [kind |-> "summary", of |-> summary]
            /\ \A k \in 1 .. size : e.active[k + 1] = c.active[Nth(retained, k)]
            /\ Len(e.checkpoints) = Len(c.checkpoints) + 1
            /\ \A k \in 1 .. Len(c.checkpoints) : e.checkpoints[k] = c.checkpoints[k]
            /\ e.checkpoints[Len(c.checkpoints) + 1] = Indices(c, omitted)
            /\ summary \subseteq 1 .. Len(c.transcript)
            /\ Indices(c, omitted) \subseteq 1 .. Len(c.transcript)
<1> DEFINE e == Compacted(c, retained, d)
           size == Cardinality(retained)
           omitted == Omitted(c, retained, d)
           summary == Indices(c, DOMAIN c.active \ (retained \union omitted))
           first == [kind |-> "summary", of |-> summary]
           kept == Retained(c, retained)
<1>1. /\ DOMAIN c.active = 1 .. Len(c.active) /\ Len(c.active) \in Nat
      /\ c.checkpoints \in Seq(SUBSET Nat) /\ Len(c.checkpoints) \in Nat
      /\ \A k \in 1 .. Len(c.active) : c.active[k] \in Piece
      /\ Len(c.transcript) \in Nat
      /\ c.transcript \in Seq(Segment) /\ c.start \in Nat
  BY ConversationType
<1>2. retained \in SUBSET Int /\ IsFiniteSet(retained)
  <2>1. retained \in SUBSET (1 .. Len(c.active))
    BY <1>1
  <2> QED BY <2>1, <1>1, PositionsFinite
<1>3. size \in Nat /\ \A k \in 1 .. size : Nth(retained, k) \in retained
  BY <1>2, NthProperties
<1>4. summary \subseteq 1 .. Len(c.transcript) /\ Indices(c, omitted) \subseteq 1 .. Len(c.transcript)
  BY <1>1 DEF Indices, Omitted
<1>5. summary \in SUBSET Nat /\ Indices(c, omitted) \in SUBSET Nat
  <2> HIDE DEF summary, omitted
  <2> QED BY <1>1, <1>4, PositionsFinite
<1>6. kept = [k \in 1 .. size |-> c.active[Nth(retained, k)]]
  BY DEF Retained
<1>7. e = [c EXCEPT !.active = <<first>> \o kept,
                    !.checkpoints = Append(c.checkpoints, Indices(c, omitted))]
  BY DEF Compacted
<1>8. /\ e.transcript = c.transcript /\ e.start = c.start
      /\ e.active = <<first>> \o kept
      /\ e.checkpoints = Append(c.checkpoints, Indices(c, omitted))
      /\ e \in [transcript : {c.transcript}, active : {e.active},
               checkpoints : {e.checkpoints}, start : {c.start}]
  BY <1>7 DEF Conversations
<1> HIDE DEF e, size, omitted, summary, kept
<1>9. first \in Piece
  BY <1>5 DEF Piece
<1>10. kept \in Seq(Piece) /\ Len(kept) = size
  <2>1. kept \in [1 .. size -> Piece]
    BY <1>1, <1>3, <1>6
  <2> QED BY <2>1, <1>3, FunctionIsSeq
<1>11. <<first>> \in Seq(Piece) /\ Len(<<first>>) = 1 /\ <<first>>[1] = first
  BY <1>9
<1> HIDE DEF first
<1>12. /\ e.active \in Seq(Piece) /\ Len(e.active) = 1 + size
       /\ \A k \in 1 .. 1 + size : e.active[k] = IF k <= 1 THEN <<first>>[k] ELSE kept[k - 1]
  <2>1. /\ <<first>> \o kept \in Seq(Piece)
        /\ Len(<<first>> \o kept) = 1 + size
        /\ \A k \in 1 .. 1 + size :
             (<<first>> \o kept)[k] = IF k <= 1 THEN <<first>>[k] ELSE kept[k - 1]
    BY <1>10, <1>11, ConcatProperties
  <2> QED BY <2>1, <1>8
<1>13. e.active[1] = first
  BY <1>3, <1>11, <1>12
<1>14. \A k \in 1 .. size : e.active[k + 1] = c.active[Nth(retained, k)]
  <2> TAKE k \in 1 .. size
  <2>1. k + 1 \in 1 .. 1 + size /\ ~(k + 1 <= 1) /\ (k + 1) - 1 = k
    BY <1>3
  <2>2. e.active[k + 1] = kept[k]
    BY <2>1, <1>12
  <2> QED BY <2>2, <1>6
<1>15. /\ e.checkpoints \in Seq(SUBSET Nat) /\ Len(e.checkpoints) = Len(c.checkpoints) + 1
       /\ \A k \in 1 .. Len(c.checkpoints) : e.checkpoints[k] = c.checkpoints[k]
       /\ e.checkpoints[Len(c.checkpoints) + 1] = Indices(c, omitted)
  BY <1>1, <1>5, <1>8, AppendProperties
<1>16. e \in Conversations
  BY <1>1, <1>8, <1>12, <1>15 DEF Conversations
<1>17. Len(e.active) = size + 1
  BY <1>3, <1>12
<1> QED BY <1>3, <1>4, <1>8, <1>13, <1>14, <1>15, <1>16, <1>17 DEF e, size, omitted, summary, first

LEMMA CompactedGood ==
  ASSUME NEW known, NEW c, Good(c, known), NEW someone \in Nat, IsUser(c, someone),
         NEW retained \in Plans(c), NEW d
  PROVE  /\ Good(Compacted(c, retained, d), known)
         /\ Compacted(c, retained, d) \in Conversations
         /\ Prefix(c, Compacted(c, retained, d))
         /\ Compacted(c, retained, d).transcript = c.transcript
<1> DEFINE e == Compacted(c, retained, d)
           n == Len(c.transcript)
           m == Len(c.active)
           o == Len(c.checkpoints)
           p == LatestUser(c)
           size == Cardinality(retained)
           omitted == Omitted(c, retained, d)
           rest == DOMAIN c.active \ (retained \union omitted)
           summary == Indices(c, rest)
           At(k) == Nth(retained, k)
<1>1. c \in Conversations /\ UsersShown(c)
  BY DEF Good, Typed
<1>2. /\ DOMAIN c.active = 1 .. m /\ m \in Nat /\ n \in Nat
      /\ DOMAIN c.checkpoints = 1 .. o /\ o \in Nat
  BY <1>1, ConversationType
<1>3. /\ \A i \in 1 .. n : c.transcript[i].done \subseteq known
      /\ \A k \in 1 .. m : c.active[k].of \subseteq 1 .. n
      /\ \A k \in 1 .. o : c.checkpoints[k] \subseteq 1 .. n
      /\ c.start \in 1 .. n + 1
  BY DEF Good, Typed
<1>4. PICK u \in Nat :
        /\ c.active[p] = Real("user", u)
        /\ \A i \in Nat : IsUser(c, i) /\ (\A j \in Nat : IsUser(c, j) => j <= i) => i = u
  BY <1>1, LatestUserIsNewest
<1>5. p \in DOMAIN c.active
  BY <1>1, LatestUserIsNewest
<1>6. /\ retained \in SUBSET DOMAIN c.active /\ p \in retained
      /\ \A k \in retained : c.active[k].kind = "user" => k = p
  BY <1>1, <1>5, PlansKeepOneUser
<1>7. /\ e \in Conversations
      /\ e.transcript = c.transcript /\ e.start = c.start
      /\ size \in Nat
      /\ Len(e.active) = size + 1
      /\ e.active[1] = [kind |-> "summary", of |-> summary]
      /\ \A k \in 1 .. size : e.active[k + 1] = c.active[At(k)]
      /\ Len(e.checkpoints) = o + 1
      /\ \A k \in 1 .. o : e.checkpoints[k] = c.checkpoints[k]
      /\ e.checkpoints[o + 1] = Indices(c, omitted)
      /\ summary \subseteq 1 .. n
      /\ Indices(c, omitted) \subseteq 1 .. n
  BY <1>1, <1>3, <1>6, CompactedShape
<1>8. /\ \A k \in 1 .. size : At(k) \in retained
      /\ \A k, l \in 1 .. size : At(k) = At(l) => k = l
      /\ \A i \in retained : \E k \in 1 .. size : At(k) = i
  <2>1. retained \in SUBSET (1 .. m)
    BY <1>2, <1>6
  <2>2. retained \in SUBSET Int /\ IsFiniteSet(retained)
    BY <2>1, <1>2, PositionsFinite
  <2> QED BY <2>2, NthProperties
<1>9. omitted \subseteq DOMAIN c.active \ retained
  BY DEF Omitted
<1>10. /\ DOMAIN e.active = 1 .. size + 1 /\ DOMAIN e.checkpoints = 1 .. o + 1
  BY <1>7, ConversationType
<1>11. e.active[1].kind = "summary" /\ e.active[1].of = summary
  BY <1>7
<1>12. \A j : e.active[1] # Real("user", j)
  BY <1>11 DEF Real
<1>13. \A i : i \in summary <=> \E k \in rest : i \in c.active[k].of
  BY IndicesMembers
<1>14. \A i : i \in Indices(c, omitted) <=> \E k \in omitted : i \in c.active[k].of
  BY IndicesMembers
<1>15. /\ \A k \in 1 .. size + 1 : k = 1 \/ (k - 1 \in 1 .. size /\ (k - 1) + 1 = k)
       /\ \A k \in 1 .. size : k + 1 \in 1 .. size + 1 /\ (k + 1) - 1 = k /\ k + 1 # 1
       /\ 1 \in 1 .. size + 1
  BY <1>7
<1>16. \A k \in 1 .. o + 1 : k \in 1 .. o \/ k = o + 1
  BY <1>2
<1>17. \A k \in 1 .. o : k \in 1 .. o + 1 /\ k # o + 1
  BY <1>2
<1>18. \A k \in rest : k \in 1 .. m /\ k \notin retained /\ k \notin omitted
  BY <1>2
<1>19. \A k \in 1 .. m : k \in retained \/ k \in omitted \/ k \in rest
  BY <1>2
<1>20. o + 1 \in 1 .. o + 1
  BY <1>2
<1> HIDE DEF e, n, m, o, p, size, omitted, rest, summary, At
<1>21. Typed(e, known)
  <2>1. \A k \in 1 .. size + 1 : e.active[k].of \subseteq 1 .. n
    <3> TAKE k \in 1 .. size + 1
    <3>1. CASE k = 1
      BY <3>1, <1>7, <1>11
    <3>2. CASE k - 1 \in 1 .. size /\ (k - 1) + 1 = k
      <4>1. e.active[k] = c.active[At(k - 1)]
        BY <3>2, <1>7
      <4>2. At(k - 1) \in 1 .. m
        BY <3>2, <1>2, <1>6, <1>8
      <4> QED BY <4>1, <4>2, <1>3
    <3> QED BY <3>1, <3>2, <1>15
  <2>2. \A k \in 1 .. o + 1 : e.checkpoints[k] \subseteq 1 .. n
    BY <1>3, <1>7, <1>16
  <2> QED BY <2>1, <2>2, <1>3, <1>7 DEF Typed, n
<1>22. UsersShown(e)
  <2>1. \A i : IsUser(e, i) <=> IsUser(c, i)
    BY <1>7 DEF IsUser
  <2>2. \A k \in 1 .. size + 1 : e.active[k].kind = "user" =>
          /\ k - 1 \in 1 .. size /\ (k - 1) + 1 = k
          /\ At(k - 1) = p /\ e.active[k] = c.active[p]
    <3> TAKE k \in 1 .. size + 1
    <3> HAVE e.active[k].kind = "user"
    <3>1. k - 1 \in 1 .. size /\ (k - 1) + 1 = k
      BY <1>11, <1>15
    <3>2. e.active[k] = c.active[At(k - 1)] /\ At(k - 1) \in retained
      BY <3>1, <1>7, <1>8
    <3>3. At(k - 1) = p
      BY <3>2, <1>6
    <3> QED BY <3>1, <3>2, <3>3
  <2>3. ASSUME NEW k \in 1 .. Len(e.active), e.active[k].kind = "user"
        PROVE  \E i \in Nat : IsUser(e, i) /\ e.active[k] = Real("user", i)
    <3>1. e.active[k] = c.active[p] /\ p \in 1 .. m
      BY <2>2, <2>3, <1>2, <1>5, <1>7
    <3> QED BY <3>1, <2>1, <2>3, <1>1 DEF UsersShown, m
  <2>4. ASSUME NEW k \in 1 .. Len(e.active), NEW l \in 1 .. Len(e.active), NEW i \in Nat, NEW j \in Nat,
               k < l, e.active[k] = Real("user", i), e.active[l] = Real("user", j)
        PROVE  i < j
    <3>1. e.active[k].kind = "user" /\ e.active[l].kind = "user"
      BY <2>4, RealType
    <3>2. k - 1 \in 1 .. size /\ l - 1 \in 1 .. size /\ At(k - 1) = At(l - 1)
      BY <3>1, <2>2, <1>7
    <3>3. k - 1 = l - 1
      BY <3>2, <1>8
    <3> QED BY <3>3, <2>4, <1>7
  <2>5. ASSUME NEW i \in Nat, IsUser(e, i), \A j \in Nat : IsUser(e, j) => j <= i
        PROVE  \E k \in 1 .. Len(e.active) : e.active[k] = Real("user", i)
    <3>1. i = u
      BY <2>1, <2>5, <1>4
    <3>2. PICK k \in 1 .. size : At(k) = p
      BY <1>6, <1>8
    <3>3. e.active[k + 1] = Real("user", u) /\ k + 1 \in 1 .. Len(e.active)
      BY <3>2, <1>4, <1>7, <1>15
    <3> QED BY <3>1, <3>3
  <2> QED BY <2>3, <2>4, <2>5 DEF UsersShown
<1>23. Whole(e)
  <2> SUFFICES ASSUME NEW i \in c.start .. n
               PROVE  \/ Omissions(e, i) = {} /\ \E k : Places(e, i) = {k}
                      \/ Places(e, i) = {} /\ \E k : Omissions(e, i) = {k}
    BY <1>7 DEF Whole, n
  <2>1. \A k : k \in Places(e, i) <=>
          \/ k = 1 /\ \E q \in rest : i \in c.active[q].of
          \/ k - 1 \in 1 .. size /\ k \in 1 .. size + 1 /\ i \in c.active[At(k - 1)].of
    <3> TAKE k
    <3>1. ASSUME k \in Places(e, i)
          PROVE  \/ k = 1 /\ \E q \in rest : i \in c.active[q].of
                 \/ k - 1 \in 1 .. size /\ k \in 1 .. size + 1 /\ i \in c.active[At(k - 1)].of
      <4>1. k \in 1 .. size + 1 /\ i \in e.active[k].of
        BY <3>1, <1>10 DEF Places
      <4>2. CASE k = 1
        BY <4>1, <4>2, <1>11, <1>13
      <4>3. CASE k - 1 \in 1 .. size /\ (k - 1) + 1 = k
        <5>1. e.active[(k - 1) + 1] = c.active[At(k - 1)]
          BY <4>3, <1>7
        <5> QED BY <5>1, <4>1, <4>3
      <4> QED BY <4>1, <4>2, <4>3, <1>15
    <3>2. ASSUME k = 1, \E q \in rest : i \in c.active[q].of
          PROVE  k \in Places(e, i)
      BY <3>2, <1>10, <1>11, <1>13, <1>15 DEF Places
    <3>3. ASSUME k - 1 \in 1 .. size, k \in 1 .. size + 1, i \in c.active[At(k - 1)].of
          PROVE  k \in Places(e, i)
      <4>1. (k - 1) + 1 = k
        BY <3>3, <1>7
      <4>2. e.active[(k - 1) + 1] = c.active[At(k - 1)]
        BY <3>3, <1>7
      <4> QED BY <4>1, <4>2, <3>3, <1>10 DEF Places
    <3> QED BY <3>1, <3>2, <3>3
  <2>2. \A k : k \in Omissions(e, i) <=>
          \/ k \in Omissions(c, i)
          \/ k = o + 1 /\ \E q \in omitted : i \in c.active[q].of
    <3> TAKE k
    <3>1. k \in Omissions(e, i) <=> k \in 1 .. o + 1 /\ i \in e.checkpoints[k]
      BY <1>10 DEF Omissions
    <3>2. k \in Omissions(c, i) <=> k \in 1 .. o /\ i \in c.checkpoints[k]
      BY <1>2 DEF Omissions
    <3>3. CASE k \in 1 .. o
      BY <3>1, <3>2, <3>3, <1>7, <1>17
    <3>4. CASE k = o + 1
      <4>1. k \notin 1 .. o /\ k \in 1 .. o + 1
        BY <3>4, <1>17, <1>20
      <4> QED BY <4>1, <3>1, <3>2, <3>4, <1>7, <1>14
    <3> QED BY <3>1, <3>2, <3>3, <3>4, <1>16
  <2>3. \A q : q \in Places(c, i) <=> q \in 1 .. m /\ i \in c.active[q].of
    BY <1>2 DEF Places
  <2>4. CASE Omissions(c, i) = {} /\ \E q : Places(c, i) = {q}
    <3>1. PICK q : Places(c, i) = {q}
      BY <2>4
    <3>2. q \in 1 .. m /\ i \in c.active[q].of /\ \A r \in 1 .. m : i \in c.active[r].of => r = q
      BY <3>1, <2>3
    <3>3. \A k \in 1 .. size : At(k) \in 1 .. m
      BY <1>2, <1>6, <1>8
    <3>4. omitted \subseteq 1 .. m
      BY <1>2, <1>9
    <3>5. CASE q \in retained
      <4>1. PICK k \in 1 .. size : At(k) = q
        BY <3>5, <1>8
      <4>2. q \notin rest /\ q \notin omitted
        BY <3>5, <1>9, <1>18
      <4>3. k + 1 \in Places(e, i)
        BY <4>1, <3>2, <2>1, <1>15
      <4>4. \A l \in Places(e, i) : l = k + 1
        <5> TAKE l \in Places(e, i)
        <5>1. l - 1 \in 1 .. size /\ l \in 1 .. size + 1 /\ At(l - 1) = q
          BY <2>1, <3>2, <3>3, <4>2, <1>18
        <5>2. l - 1 = k
          BY <5>1, <4>1, <1>8
        <5> QED BY <5>1, <5>2, <1>7
      <4>5. Omissions(e, i) = {}
        BY <2>2, <2>4, <3>2, <3>4, <4>2
      <4> QED BY <4>3, <4>4, <4>5
    <3>6. CASE q \in omitted
      <4>1. q \notin rest /\ q \notin retained
        BY <3>6, <1>9, <1>18
      <4>2. Places(e, i) = {}
        BY <4>1, <2>1, <3>2, <3>3, <1>8, <1>18
      <4>3. Omissions(e, i) = {o + 1}
        BY <3>2, <3>6, <2>2, <2>4
      <4> QED BY <4>2, <4>3
    <3>7. CASE q \in rest
      <4>1. q \notin omitted /\ q \notin retained
        BY <3>7, <1>18
      <4>2. Omissions(e, i) = {}
        BY <2>2, <2>4, <3>2, <3>4, <4>1
      <4>3. Places(e, i) = {1}
        BY <4>1, <3>2, <3>3, <3>7, <2>1, <1>8
      <4> QED BY <4>2, <4>3
    <3> QED BY <3>2, <3>5, <3>6, <3>7, <1>19
  <2>5. CASE Places(c, i) = {} /\ \E q : Omissions(c, i) = {q}
    <3>1. \A r \in 1 .. m : i \notin c.active[r].of
      BY <2>3, <2>5
    <3>2. Places(e, i) = {}
      BY <3>1, <2>1, <1>2, <1>6, <1>8, <1>18
    <3>3. Omissions(e, i) = Omissions(c, i)
      BY <3>1, <2>2, <1>2, <1>9
    <3> QED BY <3>2, <3>3, <2>5
  <2> QED BY <2>4, <2>5 DEF Good, Whole, n
<1>24. Prefix(c, e)
  BY <1>2, <1>7 DEF Prefix, n
<1> QED BY <1>7, <1>21, <1>22, <1>23, <1>24 DEF Good, e

---------------------------------------------------------------------------
(* The invariant.  A snapshot is worth restoring because it is whole on    *)
(* its own and the transcript only grew since; a compaction has a user     *)
(* message to keep because no turn runs before the first one; and what a   *)
(* round has had is only ever open while the round is.                     *)

ConversationInv ==
  /\ Good(conv, 1 .. effects) /\ Good(snapshot, 1 .. effects)
  /\ Prefix(snapshot, conv)
  /\ pc # "idle" => \E i \in Nat : IsUser(conv, i)

RoundInv ==
  /\ effects \in Nat
  /\ round \subseteq 1 .. effects /\ lost \subseteq 1 .. effects
  /\ pc # "round" => round = {}

LEMMA GoodWithMore ==
  ASSUME NEW known, NEW more, known \subseteq more, NEW c, Good(c, known)
  PROVE  Good(c, more)
  BY DEF Good, Typed

LEMMA UsersStay ==
  ASSUME NEW c \in Conversations, NEW d \in Conversations, Prefix(c, d), NEW i \in Nat, IsUser(c, i)
  PROVE  IsUser(d, i)
<1>1. Len(c.transcript) \in Nat /\ Len(d.transcript) \in Nat
  BY ConversationType
<1> QED BY <1>1 DEF IsUser, Prefix

(* What the conversation may be while a turn runs. *)
Current(c, known) ==
  /\ Good(c, known) /\ c \in Conversations
  /\ Prefix(snapshot, c)
  /\ \E i \in Nat : IsUser(c, i)

LEMMA CurrentStays ==
  ASSUME NEW known, Good(snapshot, known), NEW c, Current(c, known),
         NEW d \in Conversations, Good(d, known), Prefix(c, d)
  PROVE  Current(d, known)
<1>1. c \in Conversations /\ Prefix(snapshot, c) /\ snapshot \in Conversations
  BY DEF Current, Good, Typed
<1>2. Prefix(snapshot, d)
  BY <1>1, PrefixOfExtension
<1>3. \E i \in Nat : IsUser(d, i)
  BY <1>1, UsersStay DEF Current
<1> QED BY <1>2, <1>3 DEF Current

LEMMA ConcatEmpty ==
  ASSUME NEW s \in Seq(Segment), NEW e \in Segment
  PROVE  /\ Append(s, e) = s \o <<e>> \o << >>
         /\ \A f \in Segment : Append(Append(s, e), f) = s \o <<e>> \o <<f>>
         /\ Append(s, e) \in Seq(Segment)
<1>1. Append(s, e) = s \o <<e>> /\ Append(s, e) \in Seq(Segment)
  BY AppendIsConcat, AppendProperties
<1>2. s \o <<e>> = s \o <<e>> \o << >>
  BY <1>1, ConcatEmptySeq
<1>3. \A f \in Segment : Append(Append(s, e), f) = (s \o <<e>>) \o <<f>>
  BY <1>1, AppendIsConcat
<1> QED BY <1>1, <1>2, <1>3

(* The transcript of c is that of conv, one round and what follows it. *)
Says(c, had, after) == c.transcript = conv.transcript \o <<Turns!Round(had)>> \o after

LEMMA RoundAppended ==
  ASSUME NEW known \in SUBSET Nat, Good(snapshot, known), NEW c, Current(c, known),
         c.transcript = conv.transcript, NEW had \in SUBSET known
  PROVE  /\ Current(AppendRound(c, had), known)
         /\ Says(AppendRound(c, had), had, << >>)
<1> DEFINE d == AppendRound(c, had)
<1>1. /\ Good(d, known) /\ d \in Conversations /\ Prefix(c, d)
      /\ d.transcript = Append(c.transcript, [kind |-> "model", done |-> had])
  <2>1. Good(c, known)
    BY DEF Current
  <2> QED BY <2>1, AppendRoundGood
<1>2. c.transcript \in Seq(Segment) /\ [kind |-> "model", done |-> had] \in Segment
  BY ConversationType DEF Current, Segment
<1>3. d.transcript = conv.transcript \o <<[kind |-> "model", done |-> had]>> \o << >>
  BY <1>1, <1>2, ConcatEmpty
<1> HIDE DEF d
<1>4. Current(d, known)
  BY <1>1, CurrentStays
<1> QED BY <1>3, <1>4 DEF Says, Turns!Round, d

LEMMA TwoRoundsAppended ==
  ASSUME NEW known \in SUBSET Nat, Good(snapshot, known), NEW c, Current(c, known),
         c.transcript = conv.transcript
  PROVE  /\ Current(AppendRound(AppendRound(c, {}), {}), known)
         /\ Says(AppendRound(AppendRound(c, {}), {}), {}, <<Turns!Round({})>>)
<1> DEFINE segment == [kind |-> "model", done |-> {}]
           d == AppendRound(c, {})
           e == AppendRound(d, {})
<1>1. Current(d, known)
  BY RoundAppended
<1>2. d.transcript = Append(c.transcript, segment) /\ {} \in SUBSET known
  <2>1. Good(c, known) /\ {} \in SUBSET known
    BY DEF Current
  <2> QED BY <2>1, AppendRoundGood
<1> HIDE DEF d
<1>3. /\ Good(e, known) /\ e \in Conversations /\ Prefix(d, e)
      /\ e.transcript = Append(d.transcript, segment)
  <2>1. Good(d, known)
    BY <1>1 DEF Current
  <2> QED BY <2>1, <1>2, AppendRoundGood
<1>4. c.transcript \in Seq(Segment) /\ segment \in Segment
  BY ConversationType DEF Current, Segment
<1>5. e.transcript = conv.transcript \o <<segment>> \o <<segment>>
  <2>1. Append(Append(c.transcript, segment), segment) = c.transcript \o <<segment>> \o <<segment>>
    BY <1>4, ConcatEmpty
  <2> QED BY <2>1, <1>2, <1>3
<1> HIDE DEF e
<1>6. Current(e, known)
  BY <1>1, <1>3, CurrentStays
<1> QED BY <1>5, <1>6 DEF Says, Turns!Round, d, e

LEMMA FreshViewAppended ==
  ASSUME NEW known \in SUBSET Nat, Good(snapshot, known), NEW c, Current(c, known),
         c.transcript = conv.transcript, NEW had \in SUBSET known
  PROVE  /\ Current(ResetActive(AppendRound(c, had)), known)
         /\ Says(ResetActive(AppendRound(c, had)), had, <<Turns!User>>)
<1> DEFINE d == AppendRound(c, had)
           e == ResetActive(d)
           model == [kind |-> "model", done |-> had]
           user == [kind |-> "user", done |-> {}]
<1>1. Current(d, known)
  BY RoundAppended
<1>2. d.transcript = Append(c.transcript, model)
  <2>1. Good(c, known)
    BY DEF Current
  <2> QED BY <2>1, AppendRoundGood
<1> HIDE DEF d
<1>3. /\ Good(e, known) /\ e \in Conversations /\ Prefix(d, e)
      /\ e.transcript = Append(d.transcript, user)
  BY <1>1, ResetActiveGood DEF Current
<1>4. c.transcript \in Seq(Segment) /\ model \in Segment /\ user \in Segment
  BY ConversationType DEF Current, Segment
<1>5. e.transcript = conv.transcript \o <<model>> \o <<user>>
  <2>1. Append(Append(c.transcript, model), user) = c.transcript \o <<model>> \o <<user>>
    BY <1>4, ConcatEmpty
  <2> QED BY <2>1, <1>2, <1>3
<1> HIDE DEF e
<1>6. Current(e, known)
  BY <1>1, <1>3, CurrentStays
<1> QED BY <1>5, <1>6 DEF Says, Turns!Round, Turns!User, d, e

LEMMA UnwindKeeps ==
  ASSUME NEW known, Good(snapshot, known), NEW c, Current(c, known)
  PROVE  /\ Current(Restored(c, snapshot), known)
         /\ Restored(c, snapshot).transcript = c.transcript
<1>1. Good(c, known) /\ Prefix(snapshot, c) /\ c \in Conversations
  BY DEF Current
<1>2. /\ Good(Restored(c, snapshot), known) /\ Restored(c, snapshot) \in Conversations
      /\ Prefix(c, Restored(c, snapshot))
      /\ Restored(c, snapshot).transcript = c.transcript
  BY <1>1, RestoredGood
<1> QED BY <1>2, CurrentStays

LEMMA CompactionKeeps ==
  ASSUME NEW known, Good(snapshot, known), NEW c, Current(c, known),
         NEW retained \in Plans(c), NEW d
  PROVE  /\ Current(Compacted(c, retained, d), known)
         /\ Compacted(c, retained, d).transcript = c.transcript
<1>1. Good(c, known)
  BY DEF Current
<1>2. PICK someone \in Nat : IsUser(c, someone)
  BY DEF Current
<1>3. /\ Good(Compacted(c, retained, d), known) /\ Compacted(c, retained, d) \in Conversations
      /\ Prefix(c, Compacted(c, retained, d))
      /\ Compacted(c, retained, d).transcript = c.transcript
  BY <1>1, <1>2, CompactedGood
<1> QED BY <1>3, CurrentStays

---------------------------------------------------------------------------
(* What a step leaves behind.                                              *)

LEMMA ConversationNext ==
  ASSUME ConversationInv, effects \in Nat, effects' \in Nat, effects' >= effects,
         Current(conv', 1 .. effects'),
         snapshot' = snapshot \/ snapshot' = EmptyConversation \/ snapshot' = conv'
  PROVE  ConversationInv'
<1> DEFINE known == 1 .. effects'
<1>1. 1 .. effects \subseteq known
  OBVIOUS
<1>2. Good(snapshot, known)
  BY <1>1, GoodWithMore DEF ConversationInv
<1>3. /\ Good(conv', known) /\ conv' \in Conversations
      /\ Prefix(snapshot, conv') /\ \E i \in Nat : IsUser(conv', i)
  BY DEF Current
<1>4. Good(snapshot', known) /\ Prefix(snapshot', conv')
  BY <1>2, <1>3, EmptyGood, PrefixReflexive
<1> QED BY <1>3, <1>4 DEF ConversationInv

LEMMA CurrentNow ==
  ASSUME ConversationInv, pc # "idle", NEW known, 1 .. effects \subseteq known
  PROVE  /\ Good(snapshot, known)
         /\ Current(conv, known)
<1>1. Good(conv, known) /\ Good(snapshot, known)
  BY GoodWithMore DEF ConversationInv
<1> QED BY <1>1 DEF ConversationInv, Current, Good, Typed

LEMMA RecordStep ==
  ASSUME pc # "idle", conv \in Conversations, round \in SUBSET Nat,
         NEW last \in SUBSET Nat,
         last = {} \/ \E e : last = {e} /\ Turns!Fresh(e),
         NEW after \in {<< >>, <<Turns!User>>, <<Turns!Round({})>>},
         Says(conv', round \union last, after), round' = {}, lost' = lost
  PROVE  Turns!Record
<1> DEFINE had == round \union last
           n == Len(conv.transcript)
           one == Turns!Round(had)
<1>1. conv.transcript \in Seq(Segment) /\ n \in Nat
  BY ConversationType
<1>2. one \in Segment /\ one.done = had /\ Turns!User \in Segment /\ Turns!Round({}) \in Segment
  BY DEF Turns!Round, Turns!User, Segment
<1>3. conv'.transcript = conv.transcript \o <<one>> \o after
  BY DEF Says
<1>4. after \in Seq(Segment) /\ Len(after) \in Nat
  <2>1. << >> \in Seq(Segment)
    BY EmptySeq
  <2>2. \A x \in Segment : <<x>> \in Seq(Segment)
    OBVIOUS
  <2>3. after \in Seq(Segment)
    BY <2>1, <2>2, <1>2
  <2> QED BY <2>3, LenProperties
<1>5. <<one>> \in Seq(Segment) /\ Len(<<one>>) = 1 /\ <<one>>[1] = one
  BY <1>2
<1> HIDE DEF one, n
<1>6. /\ conv.transcript \o <<one>> \in Seq(Segment)
      /\ Len(conv.transcript \o <<one>>) = n + 1
      /\ (conv.transcript \o <<one>>)[n + 1] = one
  <2>1. n + 1 \in 1 .. n + 1 /\ ~(n + 1 <= n) /\ (n + 1) - n = 1
    BY <1>1
  <2> QED BY <2>1, <1>1, <1>5, ConcatProperties DEF n
<1>7. /\ conv'.transcript \in Seq(Segment) /\ n + 1 \in DOMAIN conv'.transcript
      /\ conv'.transcript[n + 1] = one
  <2> DEFINE upto == conv.transcript \o <<one>>
  <2>1. upto \in Seq(Segment) /\ Len(upto) = n + 1 /\ upto[n + 1] = one
    BY <1>6
  <2> HIDE DEF upto
  <2>2. /\ upto \o after \in Seq(Segment) /\ Len(upto \o after) = (n + 1) + Len(after)
        /\ \A i \in 1 .. (n + 1) + Len(after) :
             (upto \o after)[i] = IF i <= n + 1 THEN upto[i] ELSE after[i - (n + 1)]
    <3>1. /\ upto \o after \in Seq(Segment) /\ Len(upto \o after) = Len(upto) + Len(after)
          /\ \A i \in 1 .. Len(upto) + Len(after) :
               (upto \o after)[i] = IF i <= Len(upto) THEN upto[i] ELSE after[i - Len(upto)]
      BY <2>1, <1>4, ConcatProperties
    <3> QED BY <3>1, <2>1
  <2>3. n + 1 \in 1 .. (n + 1) + Len(after) /\ n + 1 <= n + 1
    BY <1>1, <1>4
  <2>4. (upto \o after)[n + 1] = one
    BY <2>1, <2>2, <2>3
  <2>5. DOMAIN (upto \o after) = 1 .. (n + 1) + Len(after)
    BY <2>2, LenProperties
  <2> QED BY <2>2, <2>3, <2>4, <2>5, <1>3 DEF upto
<1>8. \A e \in last : e \in UNION {conv'.transcript[i].done : i \in DOMAIN conv'.transcript}
  BY <1>2, <1>7
<1>9. last \in {{}} \union {{e} : e \in {e \in (Turns!Recorded)' : Turns!Fresh(e)}}
  BY <1>8 DEF Turns!Recorded
<1>10. (pc # "idle")' \in BOOLEAN
  OBVIOUS
<1> QED BY <1>3, <1>9, <1>10 DEF Turns!Record, one

LEMMA EndStep ==
  ASSUME pc # "idle", pc' = "idle", conv'.transcript = conv.transcript,
         NEW last, last = {} \/ \E e : last = {e} /\ Turns!Fresh(e),
         round' = {}, lost' = lost \union round \union last
  PROVE  Turns!End
<1>1. last \in {{}} \union {{e} : e \in {e \in lost' : Turns!Fresh(e)}}
  OBVIOUS
<1> QED BY <1>1 DEF Turns!End

LEMMA QuietStep ==
  ASSUME conv'.transcript = conv.transcript, round' = round, lost' = lost,
         pc' # "idle" <=> pc # "idle"
  PROVE  UNCHANGED Turns!vars
  BY DEF Turns!vars

Inv == ConversationInv /\ RoundInv

SnapshotFollows == snapshot' = snapshot \/ snapshot' = EmptyConversation \/ snapshot' = conv'

LEMMA Ready ==
  ASSUME Inv, pc # "idle"
  PROVE  /\ effects \in Nat /\ 1 .. effects \in SUBSET Nat /\ round \in SUBSET (1 .. effects)
         /\ Good(snapshot, 1 .. effects) /\ Current(conv, 1 .. effects)
         /\ conv \in Conversations
<1>1. effects \in Nat /\ round \in SUBSET (1 .. effects)
  BY DEF Inv, RoundInv
<1>2. Good(snapshot, 1 .. effects) /\ Current(conv, 1 .. effects)
  BY CurrentNow DEF Inv
<1> QED BY <1>1, <1>2 DEF Current

LEMMA RecordedStep ==
  ASSUME Inv, pc # "idle", effects' = effects, lost' = lost, round' = {}, SnapshotFollows,
         NEW after \in {<< >>, <<Turns!User>>, <<Turns!Round({})>>},
         Current(conv', 1 .. effects), Says(conv', round, after)
  PROVE  Inv' /\ Turns!Next
<1>1. ConversationInv'
  BY ConversationNext DEF Inv, RoundInv, SnapshotFollows
<1>2. RoundInv'
  BY DEF Inv, RoundInv
<1>3. conv \in Conversations /\ round \in SUBSET Nat
  BY Ready
<1>4. Says(conv', round \union {}, after)
  OBVIOUS
<1>5. {} \in SUBSET Nat
  OBVIOUS
<1>6. Turns!Record
  BY <1>3, <1>4, <1>5, RecordStep
<1> QED BY <1>1, <1>2, <1>6 DEF Inv, Turns!Next

LEMMA StutteringStep ==
  ASSUME Inv, pc # "idle", pc' # "idle", effects' = effects, lost' = lost, round' = round,
         pc' = "round" \/ round = {}, SnapshotFollows,
         Current(conv', 1 .. effects), conv'.transcript = conv.transcript
  PROVE  Inv' /\ UNCHANGED Turns!vars
<1>1. ConversationInv'
  BY ConversationNext DEF Inv, RoundInv, SnapshotFollows
<1>2. RoundInv'
  BY DEF Inv, RoundInv
<1>3. UNCHANGED Turns!vars
  BY QuietStep
<1> QED BY <1>1, <1>2, <1>3 DEF Inv

LEMMA EndingStep ==
  ASSUME Inv, pc # "idle", pc' = "idle", effects' = effects, lost' = lost \union round,
         round' = {}, SnapshotFollows,
         Current(conv', 1 .. effects), conv'.transcript = conv.transcript
  PROVE  Inv' /\ Turns!Next
<1>1. ConversationInv'
  BY ConversationNext DEF Inv, RoundInv, SnapshotFollows
<1>2. RoundInv'
  BY DEF Inv, RoundInv
<1>3. lost' = lost \union round \union {}
  OBVIOUS
<1>4. Turns!End
  BY <1>3, EndStep
<1> QED BY <1>1, <1>2, <1>4 DEF Inv, Turns!Next

(* The next effect is in no round, recorded or lost. *)
LEMMA NextIsFresh ==
  ASSUME Inv, NEW e, e = effects + 1
  PROVE  e \in Nat /\ e \notin 1 .. effects /\ Turns!Fresh(e)
<1>1. /\ effects \in Nat /\ round \subseteq 1 .. effects /\ lost \subseteq 1 .. effects
      /\ conv \in Conversations
  BY DEF Inv, RoundInv, ConversationInv, Good, Typed
<1>2. e \in Nat /\ e \notin 1 .. effects
  BY <1>1
<1>3. \A i \in DOMAIN conv.transcript : conv.transcript[i].done \subseteq 1 .. effects
  BY <1>1, ConversationType DEF Inv, ConversationInv, Good, Typed
<1>4. e \notin Turns!Recorded
  BY <1>2, <1>3 DEF Turns!Recorded
<1> QED BY <1>1, <1>2, <1>4 DEF Turns!Fresh

(* An exception out of a turn, which may take a round with it. *)
LEMMA LosingStep ==
  ASSUME Inv, pc # "idle", pc' = "idle", LoseRound, round' = {}, SnapshotFollows,
         Current(conv', 1 .. effects), conv'.transcript = conv.transcript
  PROVE  Inv' /\ Turns!Next
<1> DEFINE e == effects + 1
           last == effects + 1 .. effects'
<1>1. effects \in Nat /\ round \subseteq 1 .. effects /\ lost \subseteq 1 .. effects
  BY DEF Inv, RoundInv
<1>2. effects' = effects \/ effects' = e
  BY DEF LoseRound
<1>3. e \in Nat /\ Turns!Fresh(e)
  BY NextIsFresh
<1>4. last = {} \/ last = {e}
  BY <1>1, <1>2
<1>5. lost' = lost \union round \union last
  BY DEF LoseRound
<1>6. /\ effects' \in Nat /\ effects' >= effects
      /\ 1 .. effects \subseteq 1 .. effects' /\ last \subseteq 1 .. effects'
  BY <1>1, <1>2
<1> HIDE DEF e, last
<1>7. Current(conv', 1 .. effects')
  BY <1>6, GoodWithMore DEF Current
<1>8. ConversationInv'
  BY <1>1, <1>6, <1>7, ConversationNext DEF Inv, SnapshotFollows
<1>9. RoundInv'
  BY <1>1, <1>5, <1>6 DEF RoundInv
<1>10. Turns!End
  BY <1>3, <1>4, <1>5, EndStep
<1> QED BY <1>8, <1>9, <1>10 DEF Inv, Turns!Next

---------------------------------------------------------------------------
(* Action by action: the invariant stays, and the step is one of           *)
(* TurnHistory's or leaves its variables alone.                            *)

Keeps == Inv' /\ (Turns!Next \/ UNCHANGED Turns!vars)

LEMMA IncompleteKeeps ==
  ASSUME Inv, pc # "idle", round = {}, NEW c, Current(c, 1 .. effects),
         \/ c.transcript = conv.transcript
         \/ c = AppendRound(conv, {}),
         Incomplete(c), UNCHANGED <<effects, lost>>, round' = round
  PROVE  Keeps
<1>1. conv' = AppendRound(c, {}) /\ pc' = "idle" /\ SnapshotFollows
  BY DEF Incomplete, Return, SnapshotFollows
<1>2. /\ 1 .. effects \in SUBSET Nat /\ Good(snapshot, 1 .. effects)
      /\ Current(conv, 1 .. effects) /\ {} \in SUBSET (1 .. effects)
  BY Ready
<1>3. CASE c.transcript = conv.transcript
  <2>1. Current(conv', 1 .. effects) /\ Says(conv', round, << >>)
    BY <1>1, <1>2, <1>3, RoundAppended
  <2> QED BY <1>1, <2>1, RecordedStep DEF Keeps
<1>4. CASE c = AppendRound(conv, {})
  <2>1. Current(conv', 1 .. effects) /\ Says(conv', round, <<Turns!Round({})>>)
    BY <1>1, <1>2, <1>4, TwoRoundsAppended
  <2> QED BY <1>1, <2>1, RecordedStep DEF Keeps
<1> QED BY <1>3, <1>4

LEMMA RecoverKeeps ==
  ASSUME Inv, pc # "idle", round = {}, NEW c, Current(c, 1 .. effects),
         \/ c.transcript = conv.transcript
         \/ c = AppendRound(conv, {}),
         NEW locals, Recover(c, locals), UNCHANGED <<effects, lost>>, round' = round
  PROVE  Keeps
<1>1. CASE Incomplete(c)
  BY <1>1, IncompleteKeeps
<1>2. CASE conv' = c /\ pc' = "top" /\ snapshot' = snapshot
  <2>1. CASE c.transcript = conv.transcript
    BY <1>2, <2>1, StutteringStep DEF Keeps, SnapshotFollows
  <2>2. CASE c = AppendRound(conv, {})
    <3>1. /\ 1 .. effects \in SUBSET Nat /\ Good(snapshot, 1 .. effects)
          /\ Current(conv, 1 .. effects) /\ {} \in SUBSET (1 .. effects)
      BY Ready
    <3>2. Says(conv', round, << >>)
      BY <1>2, <2>2, <3>1, RoundAppended
    <3> QED BY <1>2, <3>2, RecordedStep DEF Keeps, SnapshotFollows
  <2> QED BY <2>1, <2>2
<1> QED BY <1>1, <1>2 DEF Recover, Goto

LEMMA BetweenTurnsKeeps ==
  ASSUME Inv, SubmitText \/ ChangeMode \/ StartManualCompaction \/ Cancel
  PROVE  Keeps
<1>1. CASE SubmitText
  <2>1. /\ pc = "idle" /\ conv' = AppendUser(conv) /\ pc' = "top" /\ snapshot' = conv'
        /\ UNCHANGED <<round, effects, lost>>
    BY <1>1 DEF SubmitText, BeginAttempt
  <2>2. effects \in Nat /\ Good(conv, 1 .. effects) /\ round = {}
    BY <2>1 DEF Inv, RoundInv, ConversationInv
  <2>4. /\ Good(conv', 1 .. effects) /\ conv' \in Conversations
        /\ conv'.transcript = Append(conv.transcript, [kind |-> "user", done |-> {}])
        /\ IsUser(conv', Len(conv.transcript) + 1)
    BY <2>1, <2>2, AppendUserGood
  <2>5. Len(conv.transcript) + 1 \in Nat
    BY <2>2, ConversationType DEF Good, Typed
  <2>6. ConversationInv'
    BY <2>1, <2>4, <2>5, PrefixReflexive DEF ConversationInv
  <2>7. RoundInv'
    BY <2>1, <2>2 DEF Inv, RoundInv
  <2>8. Turns!Submit
    BY <2>1, <2>4 DEF Turns!Submit, Turns!User
  <2> QED BY <2>6, <2>7, <2>8 DEF Keeps, Inv, Turns!Next
<1>2. CASE ChangeMode
  <2>1. UNCHANGED <<conv, snapshot, pc, round, effects, lost>>
    BY <1>2 DEF ChangeMode, control, history
  <2> QED BY <2>1 DEF Keeps, Inv, ConversationInv, RoundInv, Turns!vars
<1>3. CASE StartManualCompaction
  <2>1. /\ pc = "idle" /\ pc' = "manual" /\ UNCHANGED <<conv, snapshot, round, effects, lost>>
        /\ Users # {}
    BY <1>3 DEF StartManualCompaction, Goto, history
  <2>2. conv \in Conversations
    BY DEF Inv, ConversationInv, Good, Typed
  <2>3. \E i \in Nat : IsUser(conv, i)
    <3>1. DOMAIN conv.transcript = 1 .. Len(conv.transcript) /\ Len(conv.transcript) \in Nat
      BY <2>2, ConversationType
    <3>2. PICK i \in 1 .. Len(conv.transcript) : conv.transcript[i].kind = "user"
      BY <2>1, <3>1 DEF Users
    <3> QED BY <3>1, <3>2 DEF IsUser
  <2>4. ConversationInv'
    BY <2>1, <2>3 DEF Inv, ConversationInv
  <2>5. RoundInv'
    BY <2>1 DEF Inv, RoundInv
  <2>6. Turns!Work
    BY <2>1 DEF Turns!Work
  <2> QED BY <2>4, <2>5, <2>6 DEF Keeps, Inv, Turns!Next
<1>4. CASE Cancel
  <2>1. UNCHANGED <<conv, snapshot, pc, round, effects, lost>>
    BY <1>4 DEF Cancel, history
  <2> QED BY <2>1 DEF Keeps, Inv, ConversationInv, RoundInv, Turns!vars
<1> QED BY <1>1, <1>2, <1>3, <1>4

LEMMA TopKeeps ==
  ASSUME Inv, NextStep \/ StopAtBoundary \/ Interrupt
  PROVE  Keeps
<1>1. CASE NextStep
  <2>1. /\ pc = "top" /\ pc' \in {"request", "auto"}
        /\ UNCHANGED <<conv, snapshot, round, effects, lost>>
    BY <1>1 DEF NextStep, Goto, history
  <2>2. round = {} /\ Current(conv, 1 .. effects)
    BY <2>1, Ready DEF Inv, RoundInv
  <2> QED BY <2>1, <2>2, StutteringStep DEF Keeps, SnapshotFollows
<1>2. CASE StopAtBoundary
  <2>1. pc = "top" /\ Incomplete(conv) /\ UNCHANGED <<effects, lost>> /\ round' = round
    BY <1>2 DEF StopAtBoundary, history
  <2>2. round = {} /\ Current(conv, 1 .. effects)
    BY <2>1, Ready DEF Inv, RoundInv
  <2> QED BY <2>1, <2>2, IncompleteKeeps
<1>3. CASE Interrupt
  <2>1. /\ pc \in {"top", "request"} \union Triggers /\ pc' = "idle"
        /\ snapshot' = EmptyConversation /\ UNCHANGED <<effects, lost>>
        /\ \/ conv' = conv /\ round' = round
           \/ conv' = Restored(conv, snapshot) /\ round' = {}
    BY <1>3 DEF Interrupt, Return, Unwind, NoRound, history
  <2>2. pc # "idle" /\ pc # "round"
    BY <2>1 DEF Triggers
  <2>3. round = {} /\ Current(conv, 1 .. effects) /\ Good(snapshot, 1 .. effects)
    BY <2>2, Ready DEF Inv, RoundInv
  <2>4. Current(conv', 1 .. effects) /\ conv'.transcript = conv.transcript
    BY <2>1, <2>3, UnwindKeeps
  <2>5. lost' = lost \union round /\ round' = {} /\ SnapshotFollows
    BY <2>1, <2>3 DEF SnapshotFollows
  <2> QED BY <2>1, <2>2, <2>4, <2>5, EndingStep DEF Keeps
<1> QED BY <1>1, <1>2, <1>3

LEMMA CompactionsKeep ==
  ASSUME Inv, CompactionInstalls \/ CompactionFails
  PROVE  Keeps
<1>1. pc \in Triggers
  BY DEF CompactionInstalls, CompactionFails, Triggers
<1>2. pc # "idle" /\ pc # "round"
  BY <1>1 DEF Triggers
<1>3. round = {} /\ Current(conv, 1 .. effects) /\ Good(snapshot, 1 .. effects)
  BY <1>2, Ready DEF Inv, RoundInv
<1>4. CASE CompactionInstalls
  <2>1. UNCHANGED <<effects, lost>> /\ round' = round
    BY <1>4 DEF CompactionInstalls, history
  <2>2. PICK retained \in Plans(conv), d \in 0 .. MaxSummaryDrops :
          LET compacted == Compacted(conv, retained, d) IN
          \/ pc = "recovery" /\ Recover(compacted, [turn EXCEPT !.reactive = TRUE])
          \/ pc = "auto" /\ conv' = compacted /\ Goto("request", turn)
          \/ pc = "manual" /\ conv' = compacted /\ Return
    BY <1>4 DEF CompactionInstalls
  <2> DEFINE compacted == Compacted(conv, retained, d)
  <2>3. Current(compacted, 1 .. effects) /\ compacted.transcript = conv.transcript
    BY <1>3, CompactionKeeps
  <2>4. \/ Recover(compacted, [turn EXCEPT !.reactive = TRUE])
        \/ conv' = compacted /\ Goto("request", turn)
        \/ conv' = compacted /\ Return
    BY <2>2
  <2> HIDE DEF compacted
  <2>5. CASE Recover(compacted, [turn EXCEPT !.reactive = TRUE])
    BY <1>2, <1>3, <2>1, <2>3, <2>5, RecoverKeeps
  <2>6. CASE conv' = compacted /\ Goto("request", turn)
    <3>1. pc' = "request" /\ SnapshotFollows
      BY <2>6 DEF Goto, SnapshotFollows
    <3> QED BY <1>2, <1>3, <2>1, <2>3, <2>6, <3>1, StutteringStep DEF Keeps
  <2>7. CASE conv' = compacted /\ Return
    <3>1. pc' = "idle" /\ SnapshotFollows /\ lost' = lost \union round /\ round' = {}
      BY <2>1, <2>7, <1>3 DEF Return, SnapshotFollows
    <3> QED BY <1>2, <2>1, <2>3, <2>7, <3>1, EndingStep DEF Keeps
  <2> QED BY <2>4, <2>5, <2>6, <2>7
<1>5. CASE CompactionFails
  <2>1. UNCHANGED <<conv, effects, lost>> /\ round' = round /\ SnapshotFollows
        /\ (pc' = "request" \/ pc' = "idle")
    BY <1>5 DEF CompactionFails, Goto, Return, SnapshotFollows, history
  <2>2. CASE pc' = "request"
    BY <1>2, <1>3, <2>1, <2>2, StutteringStep DEF Keeps
  <2>3. CASE pc' = "idle"
    <3>1. lost' = lost \union round /\ round' = {}
      BY <2>1, <1>3
    <3> QED BY <1>2, <1>3, <2>1, <2>3, <3>1, EndingStep DEF Keeps
  <2> QED BY <2>1, <2>2, <2>3
<1> QED BY <1>4, <1>5

LEMMA RequestKeeps ==
  ASSUME Inv,
         \/ ContextOverflow \/ OutputLimit \/ FailRequest \/ Retry
         \/ Text \/ Empty \/ \E calls \in Responses : ToolCalls(calls)
  PROVE  Keeps
<1>1. pc \in {"request", "recovery", "backoff"}
  BY DEF ContextOverflow, OutputLimit, FailRequest, Retry, Text, Empty, ToolCalls
<1>2. pc # "idle" /\ pc # "round"
  BY <1>1
<1>3. /\ round = {} /\ Current(conv, 1 .. effects) /\ Good(snapshot, 1 .. effects)
      /\ 1 .. effects \in SUBSET Nat /\ {} \in SUBSET (1 .. effects)
  BY <1>2, Ready DEF Inv, RoundInv
<1>4. Current(AppendRound(conv, {}), 1 .. effects) /\ Says(AppendRound(conv, {}), round, << >>)
  BY <1>3, RoundAppended
<1>5. CASE ContextOverflow
  <2>1. UNCHANGED <<conv, effects, lost>> /\ round' = round /\ pc' = "recovery" /\ SnapshotFollows
    BY <1>5 DEF ContextOverflow, Goto, SnapshotFollows, history
  <2> QED BY <2>1, <1>2, <1>3, StutteringStep DEF Keeps
<1>6. CASE OutputLimit
  <2>1. /\ Recover(conv, [turn EXCEPT !.outputs = @ + 1])
        /\ UNCHANGED <<effects, lost>> /\ round' = round
    BY <1>6 DEF OutputLimit, history
  <2> QED BY <2>1, <1>2, <1>3, RecoverKeeps
<1>7. CASE FailRequest
  <2>1. /\ conv' = Restored(conv, snapshot) /\ round' = {} /\ UNCHANGED <<effects, lost>>
        /\ SnapshotFollows /\ (pc' = "idle" \/ pc' = "backoff")
    BY <1>7 DEF FailRequest, Unwind, NoRound, Return, Goto, SnapshotFollows, history
  <2>2. Current(conv', 1 .. effects) /\ conv'.transcript = conv.transcript
    BY <2>1, <1>3, UnwindKeeps
  <2>3. lost' = lost \union round /\ round' = round
    BY <2>1, <1>3
  <2>4. CASE pc' = "idle"
    BY <1>2, <2>1, <2>2, <2>3, <2>4, EndingStep DEF Keeps
  <2>5. CASE pc' = "backoff"
    BY <1>2, <1>3, <2>1, <2>2, <2>3, <2>5, StutteringStep DEF Keeps
  <2> QED BY <2>1, <2>4, <2>5
<1>8. CASE Retry
  <2>1. /\ UNCHANGED <<conv, effects, lost>> /\ round' = round
        /\ SnapshotFollows /\ (pc' = "idle" \/ pc' = "top")
    BY <1>8 DEF Retry, Return, BeginAttempt, SnapshotFollows, history
  <2>2. lost' = lost \union round /\ round' = {}
    BY <2>1, <1>3
  <2>3. CASE pc' = "idle"
    BY <1>2, <1>3, <2>1, <2>2, <2>3, EndingStep DEF Keeps
  <2>4. CASE pc' = "top"
    BY <1>2, <1>3, <2>1, <2>4, StutteringStep DEF Keeps
  <2> QED BY <2>1, <2>3, <2>4
<1>9. CASE Text
  <2>1. /\ conv' = AppendRound(conv, {}) /\ UNCHANGED <<effects, lost>> /\ round' = round
        /\ SnapshotFollows
    BY <1>9 DEF Text, Return, Goto, SnapshotFollows, history
  <2> QED BY <1>2, <1>3, <1>4, <2>1, RecordedStep DEF Keeps
<1>10. CASE Empty
  <2> DEFINE c == AppendRound(conv, {})
  <2>1. /\ Incomplete(c) \/ Recover(c, [turn EXCEPT !.empties = @ + 1])
        /\ UNCHANGED <<effects, lost>> /\ round' = round
    BY <1>10 DEF Empty, history
  <2> QED BY <1>2, <1>3, <1>4, <2>1, IncompleteKeeps, RecoverKeeps
<1>11. CASE \E calls \in Responses : ToolCalls(calls)
  <2>1. PICK calls \in Responses : ToolCalls(calls)
    BY <1>11
  <2>2. UNCHANGED <<effects, lost>> /\ round' = round
    BY <2>1 DEF ToolCalls, history
  <2>3. \/ Incomplete(AppendRound(conv, {}))
        \/ conv' = conv /\ pc' = "round" /\ snapshot' = snapshot
    BY <2>1 DEF ToolCalls, Goto
  <2>4. CASE Incomplete(AppendRound(conv, {}))
    BY <1>2, <1>3, <1>4, <2>2, <2>4, IncompleteKeeps
  <2>5. CASE conv' = conv /\ pc' = "round" /\ snapshot' = snapshot
    BY <1>2, <1>3, <2>2, <2>5, StutteringStep DEF Keeps, SnapshotFollows
  <2> QED BY <2>3, <2>4, <2>5
<1> QED BY <1>5, <1>6, <1>7, <1>8, <1>9, <1>10, <1>11

LEMMA ExecutedOutcome ==
  ASSUME NEW done, NEW rest, Executed(done, rest)
  PROVE  \/ /\ conv' = Restored(AppendRound(conv, done), snapshot) /\ round' = {}
            /\ pc' = "idle" /\ snapshot' = EmptyConversation
         \/ /\ conv' = conv /\ round' = done
            /\ pc' = "round" /\ snapshot' = snapshot
  BY DEF Executed, Unwind, NoRound, Return, Goto

LEMMA CallWithoutEffectKeeps ==
  ASSUME Inv, pc = "round", NEW rest, Executed(round, rest), UNCHANGED <<effects, lost>>
  PROVE  Keeps
<1>1. /\ Current(conv, 1 .. effects) /\ Good(snapshot, 1 .. effects)
      /\ 1 .. effects \in SUBSET Nat /\ round \in SUBSET (1 .. effects)
  BY Ready
<1>2. CASE /\ conv' = Restored(AppendRound(conv, round), snapshot) /\ round' = {}
           /\ pc' = "idle" /\ snapshot' = EmptyConversation
  <2> DEFINE c == AppendRound(conv, round)
  <2>1. Current(c, 1 .. effects) /\ Says(c, round, << >>)
    BY <1>1, RoundAppended
  <2> HIDE DEF c
  <2>2. Current(conv', 1 .. effects) /\ conv'.transcript = c.transcript
    BY <1>1, <1>2, <2>1, UnwindKeeps DEF c
  <2>3. Says(conv', round, << >>)
    BY <2>1, <2>2 DEF Says
  <2> QED BY <1>2, <2>2, <2>3, RecordedStep DEF Keeps, SnapshotFollows
<1>3. CASE /\ conv' = conv /\ round' = round
           /\ pc' = "round" /\ snapshot' = snapshot
  BY <1>1, <1>3, StutteringStep DEF Keeps, SnapshotFollows
<1> QED BY <1>2, <1>3, ExecutedOutcome

LEMMA WriteKeeps ==
  ASSUME Inv, Write
  PROVE  Keeps
<1> DEFINE e == effects + 1
           done == round \union {e}
           known == 1 .. e
<1>1. /\ pc = "round" /\ effects' = e /\ lost' = lost /\ Executed(done, Tail(left))
  BY DEF Write, MayWrite, NextCall
<1>2. /\ effects \in Nat /\ round \in SUBSET (1 .. effects) /\ lost \subseteq 1 .. effects
      /\ conv \in Conversations
  BY <1>1, Ready DEF Inv, RoundInv
<1>3. /\ e \in Nat /\ effects' \in Nat /\ effects' >= effects /\ e \notin 1 .. effects
      /\ 1 .. effects \subseteq known /\ e \in known /\ known \in SUBSET Nat
  BY <1>1, <1>2
<1>4. Good(snapshot, known) /\ Current(conv, known)
  <2> HIDE DEF known
  <2> QED BY <1>1, <1>3, CurrentNow DEF Inv
<1>5. Turns!Fresh(e)
  BY NextIsFresh
<1>6. done \in SUBSET known
  <2> HIDE DEF e, known
  <2> QED BY <1>2, <1>3
<1>7. effects' = e /\ known = 1 .. effects'
  BY <1>1
<1> HIDE DEF e, known
<1>8. CASE /\ conv' = Restored(AppendRound(conv, done), snapshot) /\ round' = {}
           /\ pc' = "idle" /\ snapshot' = EmptyConversation
  <2> DEFINE c == AppendRound(conv, done)
  <2>1. Current(c, known) /\ Says(c, done, << >>)
    <3> HIDE DEF done
    <3> QED BY <1>3, <1>4, <1>6, RoundAppended
  <2> HIDE DEF c
  <2>2. Current(conv', known) /\ conv'.transcript = c.transcript
    BY <1>4, <1>8, <2>1, UnwindKeeps DEF c
  <2>3. Says(conv', round \union {e}, << >>)
    BY <2>1, <2>2 DEF Says
  <2>4. ConversationInv'
    BY <1>2, <1>3, <1>7, <1>8, <2>2, ConversationNext DEF Inv
  <2>5. RoundInv'
    BY <1>1, <1>2, <1>3, <1>7, <1>8 DEF RoundInv
  <2>6. Turns!Record
    <3>1. round \in SUBSET Nat /\ {e} \in SUBSET Nat
      BY <1>2, <1>3
    <3> QED BY <3>1, <1>1, <1>2, <1>5, <1>8, <2>3, RecordStep
  <2> QED BY <2>4, <2>5, <2>6 DEF Keeps, Inv, Turns!Next
<1>9. CASE /\ conv' = conv /\ round' = done
           /\ pc' = "round" /\ snapshot' = snapshot
  <2>1. ConversationInv'
    BY <1>2, <1>3, <1>4, <1>7, <1>9, ConversationNext DEF Inv
  <2>2. lost' \subseteq 1 .. effects' /\ round' \subseteq 1 .. effects'
    BY <1>1, <1>2, <1>3, <1>6, <1>7, <1>9
  <2>3. RoundInv'
    BY <2>2, <1>3, <1>9 DEF RoundInv
  <2>4. Turns!Have
    BY <1>1, <1>5, <1>9 DEF Turns!Have
  <2> QED BY <2>1, <2>3, <2>4 DEF Keeps, Inv, Turns!Next
<1> QED BY <1>1, <1>8, <1>9, ExecutedOutcome

LEMMA RoundKeeps ==
  ASSUME Inv, ReadBatch \/ NoEffect \/ RoundRaises \/ ApprovePlan \/ FinishRound
  PROVE  Keeps
<1>1. pc = "round"
  BY DEF ReadBatch, NoEffect, RoundRaises, ApprovePlan, FinishRound, NextCall
<1>2. /\ Current(conv, 1 .. effects) /\ Good(snapshot, 1 .. effects)
      /\ 1 .. effects \in SUBSET Nat /\ round \in SUBSET (1 .. effects)
  BY <1>1, Ready
<1>3. CASE ReadBatch
  <2>1. PICK n \in 1 .. Len(left) : Executed(round, SubSeq(left, n + 1, Len(left)))
    BY <1>3 DEF ReadBatch
  <2>2. UNCHANGED <<effects, lost>>
    BY <1>3 DEF ReadBatch, history
  <2> QED BY <1>1, <2>1, <2>2, CallWithoutEffectKeeps
<1>4. CASE NoEffect \/ ApprovePlan
  <2>1. Executed(round, Tail(left)) /\ UNCHANGED <<effects, lost>>
    BY <1>4 DEF NoEffect, ApprovePlan, history
  <2> QED BY <1>1, <2>1, CallWithoutEffectKeeps
<1>5. CASE RoundRaises
  <2>1. /\ conv' = Restored(conv, snapshot) /\ round' = {} /\ LoseRound
        /\ pc' = "idle" /\ snapshot' = EmptyConversation
    BY <1>5 DEF RoundRaises, Unwind, NoRound, Return
  <2>2. Current(conv', 1 .. effects) /\ conv'.transcript = conv.transcript
    BY <2>1, <1>2, UnwindKeeps
  <2> QED BY <2>1, <2>2, <1>1, LosingStep DEF Keeps, SnapshotFollows
<1>6. CASE FinishRound
  <2>1. /\ conv' = IF clear THEN ResetActive(AppendRound(conv, round)) ELSE AppendRound(conv, round)
        /\ round' = {} /\ UNCHANGED <<snapshot, effects, lost>>
    BY <1>6 DEF FinishRound, Goto, NoRound, history
  <2>2. CASE clear
    <3>1. Current(conv', 1 .. effects) /\ Says(conv', round, <<Turns!User>>)
      BY <2>1, <2>2, <1>2, FreshViewAppended
    <3> QED BY <3>1, <2>1, <1>1, RecordedStep DEF Keeps, SnapshotFollows
  <2>3. CASE ~clear
    <3>1. Current(conv', 1 .. effects) /\ Says(conv', round, << >>)
      BY <2>1, <2>3, <1>2, RoundAppended
    <3> QED BY <3>1, <2>1, <1>1, RecordedStep DEF Keeps, SnapshotFollows
  <2> QED BY <2>2, <2>3
<1> QED BY <1>3, <1>4, <1>5, <1>6

LEMMA KeyboardInterruptKeeps ==
  ASSUME Inv, KeyboardInterrupt
  PROVE  Keeps
<1>1. /\ pc # "idle" /\ LoseRound /\ pc' = "idle" /\ snapshot' = EmptyConversation
      /\ \/ pc # "round" /\ conv' = conv /\ round' = round
         \/ conv' = Restored(conv, snapshot) /\ round' = {}
  BY DEF KeyboardInterrupt, Return, Unwind, NoRound
<1>2. Current(conv, 1 .. effects) /\ Good(snapshot, 1 .. effects)
  BY <1>1, Ready
<1>3. round' = {}
  BY <1>1 DEF Inv, RoundInv
<1>4. Current(conv', 1 .. effects) /\ conv'.transcript = conv.transcript
  BY <1>1, <1>2, UnwindKeeps
<1> QED BY <1>1, <1>3, <1>4, LosingStep DEF Keeps, SnapshotFollows

---------------------------------------------------------------------------
LEMMA InitInv == Init => Inv
<1> SUFFICES ASSUME Init PROVE Inv
  OBVIOUS
<1>1. /\ conv = EmptyConversation /\ snapshot = EmptyConversation /\ pc = "idle"
      /\ round = {} /\ effects = 0 /\ lost = {}
  BY DEF Init
<1>2. EmptyConversation \in Conversations
  BY EmptyGood DEF Good, Typed
<1> QED BY <1>1, <1>2, EmptyGood DEF Inv, ConversationInv, RoundInv

LEMMA StepKeeps == Inv /\ [Next]_vars => Inv' /\ [Turns!Next]_(Turns!vars)
<1> SUFFICES ASSUME Inv, [Next]_vars PROVE Keeps
  BY DEF Keeps
<1>1. CASE Next
  BY <1>1, BetweenTurnsKeeps, TopKeeps, CompactionsKeep, RequestKeeps, RoundKeeps, WriteKeeps,
     KeyboardInterruptKeeps
  DEF Next, Worker
<1>2. CASE UNCHANGED vars
  BY <1>2 DEF vars, control, history, Keeps, Inv, ConversationInv, RoundInv, Turns!vars
<1> QED BY <1>1, <1>2

LEMMA Invariance == Spec => []Inv
  BY InitInv, StepKeeps, PTL DEF Spec

(* Every step of a turn is one TurnHistory allows: the transcript only     *)
(* grows, an effect is recorded once, by the round that had it, unless an  *)
(* exception left that round and ended the turn: an aborted approval, an   *)
(* error outside the tool, Ctrl-C.  No cancellation seen after a tool, no  *)
(* failure and no retry loses or repeats one.                              *)
THEOREM TurnsKeepHistory == Spec => Turns!Safety
<1>1. Init => Turns!Init
  BY EmptySeq DEF Init, Turns!Init, EmptyConversation
<1> QED BY <1>1, InitInv, StepKeeps, PTL DEF Spec, Turns!Safety

(* With it, all TurnHistory asks is that turns end, which TLC checks.      *)
THEOREM HistoryIsKeptIfTurnsEnd == Spec /\ []<>(pc = "idle") => KeepsHistory
<1>1. (pc = "idle") <=> ~(pc # "idle")
  OBVIOUS
<1> QED BY <1>1, TurnsKeepHistory, PTL DEF KeepsHistory, Turns!Spec

(* ViewIsWhole: no mixture of compactions, failures, interrupts and fresh  *)
(* contexts loses a segment from the view or shows it twice.               *)
THEOREM ViewsAreWhole == Spec => []ViewIsWhole
<1>1. Inv => ViewIsWhole
  <2> SUFFICES ASSUME Inv, NEW i \in conv.start .. Len(conv.transcript) PROVE Accounted(conv, i)
    BY DEF ViewIsWhole
  <2>1. conv \in Conversations /\ Whole(conv)
    BY DEF Inv, ConversationInv, Good, Typed
  <2> QED BY <2>1, AccountedOnce DEF Whole
<1> QED BY <1>1, Invariance, PTL

(* LatestUserVisible: a compaction always finds the newest user message    *)
(* last among those of the view, so it never summarizes the task away.     *)
THEOREM TaskStaysVisible == Spec => []LatestUserVisible
<1>1. Inv => LatestUserVisible
  <2> SUFFICES ASSUME Inv, NEW i \in Users, \A j \in Users : j <= i
               PROVE  \E k \in DOMAIN conv.active : conv.active[k] = Real("user", i)
    BY DEF LatestUserVisible
  <2>1. conv \in Conversations /\ UsersShown(conv)
    BY DEF Inv, ConversationInv, Good, Typed
  <2>2. /\ DOMAIN conv.transcript = 1 .. Len(conv.transcript) /\ Len(conv.transcript) \in Nat
        /\ DOMAIN conv.active = 1 .. Len(conv.active)
    BY <2>1, ConversationType
  <2>3. \A j \in Nat : IsUser(conv, j) => j \in Users
    BY <2>2 DEF IsUser, Users
  <2>4. i \in Nat /\ IsUser(conv, i)
    BY <2>2 DEF IsUser, Users
  <2> QED BY <2>1, <2>2, <2>3, <2>4 DEF UsersShown
<1> QED BY <1>1, Invariance, PTL

---------------------------------------------------------------------------
(* Types.  That the calls of a turn stay within their budget is what       *)
(* Admitted computes: of the calls it lets through, those that count still *)
(* fit, wherever in the answer they stand.                                 *)

LEMMA AdmittedProperties ==
  ASSUME NEW calls \in Seq(Kinds), MaxToolCalls \in Nat, turn.calls \in 0 .. MaxToolCalls
  PROVE  LET admitted == Admitted(calls)
             counted == {i \in DOMAIN admitted : admitted[i] # "free"}
         IN /\ admitted \in Seq(Kinds)
            /\ Cardinality(counted) \in Nat
            /\ turn.calls + Cardinality(counted) <= MaxToolCalls
<1> DEFINE count(i) == Cardinality({j \in 1 .. i : calls[j] # "free"})
           which == {i \in DOMAIN calls : calls[i] = "free" \/ turn.calls + count(i) <= MaxToolCalls}
           size == Cardinality(which)
           at == [k \in 1 .. size |-> Nth(which, k)]
           admitted == Admitted(calls)
           counted == {i \in DOMAIN admitted : admitted[i] # "free"}
           budgeted == {i \in which : calls[i] # "free"}
<1>1. admitted = [k \in 1 .. size |-> calls[Nth(which, k)]]
  BY DEF Admitted
<1>2. DOMAIN calls = 1 .. Len(calls) /\ Len(calls) \in Nat /\ \A i \in 1 .. Len(calls) : calls[i] \in Kinds
  BY LenProperties, ElementOfSeq
<1>3. which \in SUBSET (1 .. Len(calls))
  BY <1>2
<1>4. which \in SUBSET Int /\ IsFiniteSet(which)
  <2> HIDE DEF which
  <2> QED BY <1>2, <1>3, PositionsFinite
<1>5. /\ size \in Nat
      /\ \A k \in 1 .. size : Nth(which, k) \in which
      /\ \A k, l \in 1 .. size : Nth(which, k) = Nth(which, l) => k = l
  <2> HIDE DEF which
  <2> QED BY <1>4, NthProperties
<1>6. budgeted \in SUBSET which /\ \A i \in budgeted : calls[i] # "free" /\ turn.calls + count(i) <= MaxToolCalls
  OBVIOUS
<1>7. \A i \in which : calls[i] # "free" => i \in budgeted
  OBVIOUS
<1> HIDE DEF which, size, admitted, budgeted
<1>8. admitted \in Seq(Kinds) /\ DOMAIN admitted = 1 .. size
  <2>1. admitted \in [1 .. size -> Kinds]
    BY <1>1, <1>2, <1>3, <1>5
  <2> QED BY <2>1, <1>5, FunctionIsSeq
<1>9. IsFiniteSet(budgeted) /\ budgeted \in SUBSET Int
  BY <1>4, <1>6, FS_Subset
<1>10. counted \in SUBSET (1 .. size)
  BY <1>8
<1>11. IsFiniteSet(counted)
  <2> HIDE DEF counted
  <2> QED BY <1>5, <1>10, PositionsFinite
(* The admitted calls that count stand for as many budgeted ones. *)
<1>12. Cardinality(counted) <= Cardinality(budgeted)
  <2> DEFINE from == [k \in counted |-> Nth(which, k)]
  <2>1. \A k \in counted : k \in 1 .. size /\ Nth(which, k) \in budgeted
    BY <1>1, <1>5, <1>7, <1>8
  <2> HIDE DEF counted
  <2>2. from \in [counted -> budgeted] /\ \A k, l \in counted : from[k] = from[l] => k = l
    BY <2>1, <1>5
  <2> HIDE DEF from
  <2>3. from \in Injection(counted, budgeted)
    BY <2>2 DEF Injection, IsInjective
  <2> QED BY <2>3, <1>9, FS_Injection
<1>13. Cardinality(counted) \in Nat /\ Cardinality(budgeted) \in Nat
  BY <1>9, <1>11, FS_CardinalityType
(* The last of those saw all of them when it was let through. *)
<1>14. turn.calls + Cardinality(budgeted) <= MaxToolCalls
  <2>1. CASE budgeted = {}
    BY <2>1, FS_EmptySet
  <2>2. CASE budgeted # {}
    <3>1. PICK last \in budgeted : \A i \in budgeted : i <= last
      BY <2>2, <1>9, GreatestExists
    <3>2. last \in 1 .. Len(calls) /\ last \in Nat
      BY <1>2, <1>3, <1>6
    <3> DEFINE seen == {j \in 1 .. last : calls[j] # "free"}
    <3>3. budgeted \in SUBSET seen
      <4> SUFFICES ASSUME NEW i \in budgeted PROVE i \in 1 .. last /\ calls[i] # "free"
        OBVIOUS
      <4>1. i \in 1 .. Len(calls) /\ i <= last /\ calls[i] # "free"
        BY <3>1, <1>3, <1>6
      <4> QED BY <4>1, <3>2
    <3>4. IsFiniteSet(seen)
      <4>1. seen \in SUBSET (1 .. last)
        OBVIOUS
      <4> HIDE DEF seen
      <4> QED BY <4>1, <3>2, PositionsFinite
    <3>5. count(last) = Cardinality(seen)
      OBVIOUS
    <3>6. turn.calls + count(last) <= MaxToolCalls
      BY <3>1, <1>6
    <3>7. turn.calls + Cardinality(seen) <= MaxToolCalls
      BY <3>5, <3>6
    <3> HIDE DEF seen
    <3>8. Cardinality(budgeted) <= Cardinality(seen) /\ Cardinality(seen) \in Nat
      BY <3>3, <3>4, FS_Subset, FS_CardinalityType
    <3> QED BY <3>7, <3>8, <1>13
  <2> QED BY <2>1, <2>2
<1> HIDE DEF counted
<1>15. turn.calls + Cardinality(counted) <= MaxToolCalls
  BY <1>12, <1>13, <1>14
<1> QED BY <1>8, <1>13, <1>15 DEF counted, admitted

Locals ==
  [step : 0 .. MaxSteps, calls : 0 .. MaxToolCalls, recoveries : 0 .. MaxRecoveries + 1,
   outputs : 0 .. MaxOutputRecoveries, empties : 0 .. MaxEmptyResponses,
   reactive : BOOLEAN, asked : BOOLEAN, stalled : BOOLEAN]

(* An automatic compaction only begins while it is not disabled, a backoff *)
(* only before the last attempt: the bounds of TypeOK rest on that.        *)
CountsInv ==
  /\ failures \in 0 .. MaxCompactionFailures
  /\ pc \in Points
  /\ attempt \in 0 .. MaxAttempts
  /\ turn \in Locals
  /\ left \in Seq(Kinds)
  /\ turns \in 0 .. MaxTurns
  /\ pc = "auto" => failures < MaxCompactionFailures
  /\ pc = "backoff" => attempt < MaxAttempts

FlagsInv == planning \in BOOLEAN /\ clear \in BOOLEAN /\ cancelled \in BOOLEAN

LEMMA Limits ==
  /\ MaxSteps \in Nat /\ MaxToolCalls \in Nat /\ MaxRecoveries \in Nat /\ MaxOutputRecoveries \in Nat
  /\ MaxEmptyResponses \in Nat /\ MaxCompactionFailures \in Nat \ {0}
  /\ MaxAttempts \in Nat \ {0} /\ MaxTurns \in Nat
  BY LimitsAssumption

LEMMA NewTurnType == NewTurn \in Locals
  BY Limits DEF NewTurn, Locals

LEMMA LocalsRange ==
  ASSUME turn \in Locals
  PROVE  /\ turn.step \in 0 .. MaxSteps /\ turn.calls \in 0 .. MaxToolCalls
         /\ turn.recoveries \in 0 .. MaxRecoveries + 1
         /\ turn.outputs \in 0 .. MaxOutputRecoveries /\ turn.empties \in 0 .. MaxEmptyResponses
  BY DEF Locals

LEMMA LocalsType ==
  ASSUME turn \in Locals
  PROVE  /\ \A n \in 0 .. MaxSteps : [turn EXCEPT !.step = n] \in Locals
         /\ \A n \in 0 .. MaxOutputRecoveries : [turn EXCEPT !.outputs = n] \in Locals
         /\ \A n \in 0 .. MaxEmptyResponses : [turn EXCEPT !.empties = n] \in Locals
         /\ \A n \in 0 .. MaxToolCalls, k \in 0 .. MaxEmptyResponses :
              [turn EXCEPT !.empties = k, !.calls = n] \in Locals
         /\ \A b \in BOOLEAN : /\ [turn EXCEPT !.reactive = b] \in Locals
                              /\ [turn EXCEPT !.asked = b] \in Locals
                              /\ [turn EXCEPT !.stalled = b] \in Locals
  BY DEF Locals

LEMMA FlagsStep == FlagsInv /\ [Next]_vars => FlagsInv'
<1> SUFFICES ASSUME FlagsInv, [Next]_vars PROVE FlagsInv'
  OBVIOUS
<1> USE DEF FlagsInv
<1>1. CASE SubmitText \/ ChangeMode \/ StartManualCompaction \/ Cancel
  BY <1>1 DEF SubmitText, ChangeMode, StartManualCompaction, Cancel, BeginAttempt, Goto, control, shared
<1>2. CASE NextStep \/ StopAtBoundary \/ Interrupt
  BY <1>2 DEF NextStep, StopAtBoundary, Interrupt, Goto, Return, Incomplete, shared
<1>3. CASE CompactionFails \/ ContextOverflow \/ FailRequest \/ Retry \/ Text
  BY <1>3 DEF CompactionFails, ContextOverflow, FailRequest, Retry, Text, BeginAttempt, Goto, Return, shared
<1>4. CASE CompactionInstalls \/ OutputLimit \/ Empty
  BY <1>4 DEF CompactionInstalls, OutputLimit, Empty, Recover, Goto, Return, Incomplete, shared
<1>5. CASE \E calls \in Responses : ToolCalls(calls)
  BY <1>5 DEF ToolCalls, Goto, Return, Incomplete, shared
<1>6. CASE ReadBatch \/ NoEffect \/ Write \/ RoundRaises \/ ApprovePlan \/ FinishRound
  BY <1>6 DEF ReadBatch, NoEffect, Write, RoundRaises, ApprovePlan, FinishRound, Executed,
              Goto, Return, shared
<1>8. CASE KeyboardInterrupt
  BY <1>8 DEF KeyboardInterrupt, Return, shared
<1>7. CASE UNCHANGED vars
  BY <1>7 DEF vars, shared, control
<1> QED BY <1>1, <1>2, <1>3, <1>4, <1>5, <1>6, <1>7, <1>8 DEF Next, Worker

(* The ways on: out of the turn, or to another place with locals in range. *)
LEMMA ReturnCounts ==
  ASSUME CountsInv, Return, left' \in Seq(Kinds),
         failures' \in 0 .. MaxCompactionFailures, turns' \in 0 .. MaxTurns
  PROVE  CountsInv'
<1>1. pc' = "idle" /\ turn' \in Locals /\ attempt' \in 0 .. MaxAttempts
  BY NewTurnType, Limits DEF Return
<1> QED BY <1>1 DEF CountsInv, Points

LEMMA GotoCounts ==
  ASSUME CountsInv, NEW there \in Points, NEW locals \in Locals, Goto(there, locals),
         there = "auto" => failures' < MaxCompactionFailures,
         there = "backoff" => attempt < MaxAttempts,
         left' \in Seq(Kinds),
         failures' \in 0 .. MaxCompactionFailures, turns' \in 0 .. MaxTurns
  PROVE  CountsInv'
  BY DEF CountsInv, Goto

LEMMA RecoverCounts ==
  ASSUME CountsInv, NEW c, NEW locals \in Locals, locals.recoveries = turn.recoveries,
         Recover(c, locals), left' \in Seq(Kinds),
         failures' \in 0 .. MaxCompactionFailures, turns' \in 0 .. MaxTurns
  PROVE  CountsInv'
<1>1. CASE turn.recoveries + 1 > MaxRecoveries
  BY <1>1, ReturnCounts DEF Recover, Incomplete
<1>2. CASE ~(turn.recoveries + 1 > MaxRecoveries)
  <2>1. locals.recoveries + 1 \in 0 .. MaxRecoveries + 1
    <3>1. turn.recoveries \in 0 .. MaxRecoveries + 1 /\ MaxRecoveries \in Nat
      BY LocalsRange, Limits DEF CountsInv
    <3> QED BY <3>1, <1>2
  <2> DEFINE more == [locals EXCEPT !.recoveries = @ + 1]
  <2>2. more \in Locals
    BY <2>1 DEF Locals
  <2>3. Goto("top", more)
    BY <1>2 DEF Recover
  <2> HIDE DEF more
  <2>4. "top" \in Points
    BY DEF Points
  <2> QED BY <2>2, <2>3, <2>4, GotoCounts
<1> QED BY <1>1, <1>2

LEMMA ExecutedCounts ==
  ASSUME CountsInv, NEW done, NEW rest \in Seq(Kinds), Executed(done, rest),
         failures' = failures, turns' = turns
  PROVE  CountsInv'
<1>1. CASE cancelled
  BY <1>1, ReturnCounts, EmptySeq DEF Executed, Unwind, NoRound, CountsInv
<1>2. CASE ~cancelled
  BY <1>2, GotoCounts DEF Executed, CountsInv, Points
<1> QED BY <1>1, <1>2

LEMMA CountsStep == CountsInv /\ [Next]_vars => CountsInv'
<1> SUFFICES ASSUME CountsInv, [Next]_vars PROVE CountsInv'
  OBVIOUS
<1>1. /\ turn \in Locals /\ left \in Seq(Kinds) /\ turns \in 0 .. MaxTurns
      /\ failures \in 0 .. MaxCompactionFailures /\ attempt \in 0 .. MaxAttempts
      /\ 0 \in 0 .. MaxCompactionFailures
  BY Limits DEF CountsInv
<1>2. /\ \A n \in 0 .. MaxSteps : [turn EXCEPT !.step = n] \in Locals
      /\ \A n \in 0 .. MaxOutputRecoveries : [turn EXCEPT !.outputs = n] \in Locals
      /\ \A n \in 0 .. MaxEmptyResponses : [turn EXCEPT !.empties = n] \in Locals
      /\ \A n \in 0 .. MaxToolCalls, k \in 0 .. MaxEmptyResponses :
           [turn EXCEPT !.empties = k, !.calls = n] \in Locals
      /\ \A b \in BOOLEAN : /\ [turn EXCEPT !.reactive = b] \in Locals
                           /\ [turn EXCEPT !.asked = b] \in Locals
                           /\ [turn EXCEPT !.stalled = b] \in Locals
  BY <1>1, LocalsType
<1>23. /\ turn.step \in 0 .. MaxSteps /\ turn.calls \in 0 .. MaxToolCalls
      /\ turn.outputs \in 0 .. MaxOutputRecoveries /\ turn.empties \in 0 .. MaxEmptyResponses
  BY <1>1, LocalsRange
<1>3. << >> \in Seq(Kinds) /\ TRUE \in BOOLEAN /\ {"idle", "top", "request", "round", "backoff", "auto", "manual", "recovery"} \subseteq Points
  BY EmptySeq DEF Points, Triggers
<1>4. CASE SubmitText
  <2>1. /\ pc' = "top" /\ turn' = NewTurn /\ attempt' = 1 /\ turns' = turns + 1 /\ turns < MaxTurns
        /\ UNCHANGED <<failures, left>>
    BY <1>4 DEF SubmitText, BeginAttempt
  <2>2. attempt' \in 0 .. MaxAttempts /\ turns' \in 0 .. MaxTurns
    BY <2>1, <1>1, Limits
  <2> QED BY <2>1, <2>2, <1>1, <1>3, NewTurnType DEF CountsInv
<1>5. CASE ChangeMode \/ Cancel
  BY <1>5 DEF ChangeMode, Cancel, CountsInv, control, history
<1>6. CASE StartManualCompaction
  <2>1. Goto("manual", turn) /\ UNCHANGED <<failures, left, turns>>
    BY <1>6 DEF StartManualCompaction, history
  <2> QED BY <2>1, <1>1, <1>3, GotoCounts
<1>7. CASE NextStep
  <2> DEFINE next == [turn EXCEPT !.step = @ + 1]
  <2>1. /\ turn.step < MaxSteps /\ UNCHANGED <<failures, left, turns>>
        /\ Goto("request", next) \/ (~Disabled /\ Goto("auto", next))
    BY <1>7 DEF NextStep, history
  <2>2. turn.step + 1 \in 0 .. MaxSteps
    BY <2>1, <1>23, Limits
  <2>3. next \in Locals
    BY <2>2, <1>2
  <2>4. ~Disabled => failures < MaxCompactionFailures
    BY <1>1, Limits DEF Disabled
  <2> HIDE DEF next
  <2>5. CASE Goto("request", next)
    BY <2>1, <2>3, <2>5, <1>1, <1>3, GotoCounts
  <2>6. CASE ~Disabled /\ Goto("auto", next)
    BY <2>1, <2>3, <2>4, <2>6, <1>1, <1>3, GotoCounts
  <2> QED BY <2>1, <2>5, <2>6
<1>8. CASE StopAtBoundary \/ Interrupt
  <2>1. Return /\ UNCHANGED <<failures, turns>> /\ (left' = left \/ left' = << >>)
    BY <1>8 DEF StopAtBoundary, Interrupt, Incomplete, Unwind, NoRound, history
  <2> QED BY <2>1, <1>1, <1>3, ReturnCounts
<1>9. CASE CompactionInstalls
  <2>1. /\ failures' = 0 /\ UNCHANGED <<left, turns>>
        /\ \/ \E c : Recover(c, [turn EXCEPT !.reactive = TRUE])
           \/ Goto("request", turn)
           \/ Return
    BY <1>9 DEF CompactionInstalls, history
  <2>2. [turn EXCEPT !.reactive = TRUE].recoveries = turn.recoveries
    BY <1>1 DEF Locals
  <2> QED BY <2>1, <2>2, <1>1, <1>2, <1>3, RecoverCounts, GotoCounts, ReturnCounts
<1>10. CASE CompactionFails
  <2>1. UNCHANGED <<left, turns>>
    BY <1>10 DEF CompactionFails, history
  <2>2. CASE pc = "auto" /\ failures' = failures + 1 /\ Goto("request", turn)
    <3>1. failures < MaxCompactionFailures
      BY <2>2 DEF CountsInv
    <3>2. failures' \in 0 .. MaxCompactionFailures
      BY <2>2, <3>1, <1>1, Limits
    <3> QED BY <2>1, <2>2, <3>2, <1>1, <1>3, GotoCounts
  <2>3. CASE Return /\ UNCHANGED failures
    BY <2>1, <2>3, <1>1, ReturnCounts
  <2> QED BY <1>10, <2>2, <2>3 DEF CompactionFails
<1>11. CASE ContextOverflow
  <2>1. Goto("recovery", turn) /\ UNCHANGED <<failures, left, turns>>
    BY <1>11 DEF ContextOverflow, history
  <2> QED BY <2>1, <1>1, <1>3, GotoCounts
<1>12. CASE OutputLimit
  <2>1. /\ turn.outputs < MaxOutputRecoveries /\ UNCHANGED <<failures, left, turns>>
        /\ Recover(conv, [turn EXCEPT !.outputs = @ + 1])
    BY <1>12 DEF OutputLimit, history
  <2>2. turn.outputs + 1 \in 0 .. MaxOutputRecoveries
    BY <2>1, <1>23, Limits
  <2>3. [turn EXCEPT !.outputs = @ + 1] \in Locals /\ [turn EXCEPT !.outputs = @ + 1].recoveries = turn.recoveries
    BY <2>2, <1>1, <1>2 DEF Locals
  <2> QED BY <2>1, <2>3, <1>1, RecoverCounts
<1>13. CASE FailRequest
  <2>1. /\ left' = << >> /\ UNCHANGED <<failures, turns>>
        /\ Return \/ (attempt < MaxAttempts /\ Goto("backoff", turn))
    BY <1>13 DEF FailRequest, Unwind, NoRound, history
  <2> QED BY <2>1, <1>1, <1>3, ReturnCounts, GotoCounts
<1>14. CASE Retry
  <2>1. pc = "backoff" /\ UNCHANGED <<failures, left, turns>> /\ (Return \/ BeginAttempt(conv, attempt + 1))
    BY <1>14 DEF Retry, history
  <2>2. CASE BeginAttempt(conv, attempt + 1)
    <3>1. attempt < MaxAttempts
      BY <2>1 DEF CountsInv
    <3>2. attempt' \in 0 .. MaxAttempts /\ pc' = "top" /\ turn' = NewTurn
      BY <3>1, <2>2, <1>1, Limits DEF BeginAttempt
    <3> QED BY <3>2, <2>1, <1>1, <1>3, NewTurnType DEF CountsInv
  <2> QED BY <2>1, <2>2, <1>1, ReturnCounts
<1>15. CASE Text
  <2>1. /\ UNCHANGED <<failures, left, turns>>
        /\ Return \/ Goto("top", [turn EXCEPT !.asked = TRUE])
    BY <1>15 DEF Text, history
  <2> QED BY <2>1, <1>1, <1>2, <1>3, ReturnCounts, GotoCounts
<1>16. CASE Empty
  <2> DEFINE c == AppendRound(conv, {})
             locals == [turn EXCEPT !.empties = @ + 1]
  <2>1. /\ UNCHANGED <<failures, left, turns>>
        /\ \/ Incomplete(c)
           \/ ~(turn.empties + 1 >= MaxEmptyResponses) /\ Recover(c, locals)
    BY <1>16 DEF Empty, history
  <2>2. CASE Incomplete(c)
    BY <2>1, <2>2, <1>1, ReturnCounts DEF Incomplete
  <2>3. CASE ~(turn.empties + 1 >= MaxEmptyResponses) /\ Recover(c, locals)
    <3>1. turn.empties + 1 \in 0 .. MaxEmptyResponses
      BY <2>3, <1>23, Limits
    <3>2. locals \in Locals /\ locals.recoveries = turn.recoveries
      BY <3>1, <1>1, <1>2 DEF Locals
    <3> HIDE DEF locals, c
    <3> QED BY <2>1, <2>3, <3>2, <1>1, RecoverCounts
  <2> QED BY <2>1, <2>2, <2>3
<1>17. CASE \E calls \in Responses : ToolCalls(calls)
  <2>1. PICK calls \in Responses : ToolCalls(calls)
    BY <1>17
  <2>2. calls \in Seq(Kinds)
    BY ResponsesAssumption DEF Kinds
  <2> DEFINE admitted == Admitted(calls)
             counted == Cardinality({i \in DOMAIN admitted : admitted[i] # "free"})
             locals == [turn EXCEPT !.empties = 0, !.calls = @ + counted]
  <2>3. UNCHANGED <<failures, turns>>
    BY <2>1 DEF ToolCalls, history
  <2>4. admitted \in Seq(Kinds) /\ counted \in Nat /\ turn.calls + counted <= MaxToolCalls
    BY <2>2, <1>23, Limits, AdmittedProperties
  <2>5. \/ Incomplete(AppendRound(conv, {})) /\ left' = left
        \/ left' = admitted /\ Goto("round", locals)
    BY <2>1 DEF ToolCalls
  <2>6. locals = [turn EXCEPT !.empties = 0, !.calls = turn.calls + counted]
    OBVIOUS
  <2> HIDE DEF admitted, counted, locals
  <2>7. turn.calls + counted \in 0 .. MaxToolCalls /\ 0 \in 0 .. MaxEmptyResponses
    BY <2>4, <1>23, Limits
  <2>8. locals \in Locals
    BY <2>6, <2>7, <1>2
  <2>9. CASE Incomplete(AppendRound(conv, {})) /\ left' = left
    BY <2>3, <2>9, <1>1, ReturnCounts DEF Incomplete
  <2>10. CASE left' = admitted /\ Goto("round", locals)
    BY <2>3, <2>4, <2>8, <2>10, <1>1, <1>3, GotoCounts
  <2> QED BY <2>5, <2>9, <2>10
<1>18. CASE ReadBatch
  <2>1. PICK n \in 1 .. Len(left) : Executed(round, SubSeq(left, n + 1, Len(left)))
    BY <1>18 DEF ReadBatch
  <2>2. UNCHANGED <<failures, turns>>
    BY <1>18 DEF ReadBatch, history
  <2>3. SubSeq(left, n + 1, Len(left)) \in Seq(Kinds)
    <3>1. Len(left) \in Nat
      BY <1>1, LenProperties
    <3> QED BY <3>1, <1>1, SubSeqProperties
  <2> QED BY <2>1, <2>2, <2>3, ExecutedCounts
<1>19. CASE NoEffect \/ Write \/ ApprovePlan
  <2>1. left # << >> /\ UNCHANGED <<failures, turns>>
    BY <1>19 DEF NoEffect, Write, MayWrite, ApprovePlan, NextCall, history
  <2>2. \E done : Executed(done, Tail(left))
    BY <1>19 DEF NoEffect, Write, ApprovePlan
  <2>3. Tail(left) \in Seq(Kinds)
    BY <2>1, <1>1, HeadTailProperties
  <2> QED BY <2>1, <2>2, <2>3, ExecutedCounts
<1>20. CASE RoundRaises \/ KeyboardInterrupt
  <2>1. Return /\ (left' = << >> \/ left' = left) /\ UNCHANGED <<failures, turns>>
    BY <1>20 DEF RoundRaises, KeyboardInterrupt, Unwind, NoRound
  <2> QED BY <2>1, <1>1, <1>3, ReturnCounts
<1>21. CASE FinishRound
  <2>1. left' = << >> /\ UNCHANGED <<failures, turns>>
    BY <1>21 DEF FinishRound, NoRound, history
  <2>2. PICK stalled \in {turn.stalled, TRUE} : Goto("top", [turn EXCEPT !.stalled = stalled])
    BY <1>21 DEF FinishRound
  <2>3. stalled \in BOOLEAN
    BY <1>1 DEF Locals
  <2>4. [turn EXCEPT !.stalled = stalled] \in Locals
    BY <2>3, <1>2
  <2> QED BY <2>1, <2>2, <2>4, <1>1, <1>3, GotoCounts
<1>22. CASE UNCHANGED vars
  BY <1>22 DEF vars, control, history, CountsInv
<1> QED
  BY <1>4, <1>5, <1>6, <1>7, <1>8, <1>9, <1>10, <1>11, <1>12, <1>13, <1>14, <1>15, <1>16, <1>17,
     <1>18, <1>19, <1>20, <1>21, <1>22 DEF Next, Worker

(* TypeOK: the counters of a turn stay within the limits of the code, and  *)
(* a conversation only refers to what its transcript has.                  *)
THEOREM TurnTypes == Spec => []TypeOK
<1>1. Init => CountsInv /\ FlagsInv
  <2> SUFFICES ASSUME Init PROVE CountsInv /\ FlagsInv
    OBVIOUS
  <2>1. CountsInv
    BY NewTurnType, Limits, EmptySeq DEF Init, CountsInv, Points
  <2>2. FlagsInv
    BY DEF Init, FlagsInv
  <2> QED BY <2>1, <2>2
<1>2. Inv /\ CountsInv /\ FlagsInv => TypeOK
  <2> SUFFICES ASSUME Inv, CountsInv, FlagsInv PROVE TypeOK
    OBVIOUS
  <2>1. IsConversation(conv, 1 .. effects) /\ IsConversation(snapshot, 1 .. effects)
    BY TypedIsConversation DEF Inv, ConversationInv, Good
  <2> QED BY <2>1 DEF TypeOK, Inv, RoundInv, CountsInv, FlagsInv, Locals
<1> QED BY <1>1, <1>2, Invariance, CountsStep, FlagsStep, PTL DEF Spec

=============================================================================
