----------------------------- MODULE ServerProofs ------------------------------
(***************************************************************************)
(* What the server keeps: the operations log with the page that shows it,  *)
(* the registration with Consul, and the groups.                           *)
(***************************************************************************)
EXTENDS OperationsPage, ConsulRegistrar, Groups, FiniteSetTheorems, SequenceTheorems,
        WellFoundedInduction, TLAPS

-----------------------------------------------------------------------------
(***************************************************************************)
(* The operations log keeps exactly the newest Kept lines and never        *)
(* rewrites one, for every Kept and however many lines are appended.       *)
(***************************************************************************)

\* Every key is a number already given out, every line is about a host.
LEMMA LogTypeCorrect == LogSpec => []LogTypeOK
<1> USE LogAssumption DEF LogAssumption, LogTypeOK, Keys
<1>1. LogInit => LogTypeOK
  BY DEF LogInit
<1>2. ASSUME LogTypeOK, [LogNext]_logVars
      PROVE LogTypeOK'
  <2>1. CASE UNCHANGED logVars
    BY <1>2, <2>1 DEF logVars
  <2>2. ASSUME NEW h \in Hosts, AppendOperation(h)
        PROVE LogTypeOK'
    BY <1>2, <2>2 DEF AppendOperation, Surplus
  <2> QED
    BY <1>2, <2>1, <2>2 DEF LogNext
<1> QED
  BY <1>1, <1>2, PTL DEF LogSpec

\* "The log keeps the newest 10,000 entries": at every moment the keys are the
\* last Kept numbers given out, so nothing recent is missing and nothing old
\* remains.  The set is inductive as it stands, given the types.
THEOREM KeepsNewest == LogSpec => []KeepsTheNewest
<1> USE LogAssumption DEF LogAssumption, LogTypeOK, Keys, KeepsTheNewest
<1>1. LogInit => KeepsTheNewest
  BY DEF LogInit
<1>2. ASSUME LogTypeOK, KeepsTheNewest, [LogNext]_logVars
      PROVE KeepsTheNewest'
  <2>1. CASE UNCHANGED logVars
    BY <1>2, <2>1 DEF logVars
  <2>2. ASSUME NEW h \in Hosts, AppendOperation(h)
        PROVE KeepsTheNewest'
    <3>1. (DOMAIN log)' = (DOMAIN log \cup {seq + 1}) \ Surplus(seq + 1)
      BY <2>2 DEF AppendOperation
    <3>2. (DOMAIN log)' = {k \in 1 .. seq + 1 : seq + 1 < k + Kept}
      BY <1>2, <3>1 DEF Surplus
    <3> QED
      BY <2>2, <3>2 DEF AppendOperation
  <2> QED
    BY <1>2, <2>1, <2>2 DEF LogNext
<1> QED
  BY <1>1, <1>2, LogTypeCorrect, PTL DEF LogSpec

\* "append-only; nothing here is ever rewritten": an append leaves every line
\* it does not drop alone, and its number is above every number in use.
THEOREM LogIsAppendOnly == LogSpec => AppendOnly
<1> DEFINE Step ==
      /\ \A k \in Keys \cap DOMAIN log' : log'[k] = log[k]
      /\ \A k \in DOMAIN log' \ Keys : k > seq
<1>1. ASSUME LogTypeOK, [LogNext]_logVars
      PROVE [Step]_logVars
  <2>1. ASSUME NEW h \in Hosts, AppendOperation(h)
        PROVE Step
    BY <1>1, <2>1 DEF AppendOperation, LogTypeOK, Keys
  <2> QED
    BY <1>1, <2>1 DEF LogNext
<1> QED
  BY <1>1, LogTypeCorrect, PTL DEF LogSpec, AppendOnly

-----------------------------------------------------------------------------
(***************************************************************************)
(* What the cursor of the log reads is the page that was asked for, for    *)
(* logs and pages of any size.                                             *)
(***************************************************************************)

-----------------------------------------------------------------------------
(***************************************************************************)
(* The least number of a set: the induction the rest uses.                 *)
(***************************************************************************)

\* The numbers are well founded, as a set of pairs.
LEMMA LessIsWellFounded ==
  \E R : IsWellFoundedOn(R, Nat) /\ \A x, y \in Nat : x < y => <<x, y>> \in R
<1>1. \A x, y \in Nat : x < y => <<x, y>> \in OpToRel(<, Nat)
  BY Zenon DEF OpToRel
<1> QED
  BY <1>1, NatLessThanWellFounded, Zenon

\* Every set of numbers has a least one.
LEMMA LeastNumber ==
  ASSUME NEW T \in SUBSET Nat, T # {}
  PROVE  \E n \in T : \A m \in T : n <= m
<1>1. PICK R : /\ IsWellFoundedOn(R, Nat)
               /\ \A x, y \in Nat : x < y => <<x, y>> \in R
  BY LessIsWellFounded, Zenon
<1>2. T \subseteq Nat
  OBVIOUS
<1>3. IsWellFoundedOn(R, Nat)
  BY <1>1, Zenon
<1>4. \E x \in T : \A y \in T : ~ (<<y, x>> \in R)
  BY <1>3, <1>2, WFMin, Zenon
<1>5. PICK x \in T : \A y \in T : ~ (<<y, x>> \in R)
  BY <1>4, Zenon
<1>6. \A y \in T : ~ (y < x)
  BY <1>1, <1>2, <1>5, Zenon
<1>7. \A y \in T : y \in Nat /\ x \in Nat
  BY <1>2
<1> QED
  BY <1>6, <1>7

\* A bounded set of numbers has a greatest one.
LEMMA GreatestNumber ==
  ASSUME NEW T \in SUBSET Nat, T # {}, NEW bound \in Nat, \A n \in T : n <= bound
  PROVE  \E n \in T : \A m \in T : m <= n
<1> DEFINE U == {bound - n : n \in T}
<1>1. U \subseteq Nat /\ U # {}
  <2>1. \A n \in T : n \in Nat /\ bound - n \in Nat
    OBVIOUS
  <2> QED
    BY <2>1
<1>2. PICK u \in U : \A m \in U : u <= m
  <2>1. U \in SUBSET Nat /\ U # {}
    BY <1>1
  <2> QED
    BY <2>1, LeastNumber
<1>3. PICK n \in T : u = bound - n
  OBVIOUS
<1>4. \A m \in T : bound - n <= bound - m
  BY <1>2, <1>3
<1> QED
  BY <1>4

-----------------------------------------------------------------------------
(***************************************************************************)
(* The cursor.                                                             *)
(***************************************************************************)

\* Keys are numbers that were given out.
LEMMA KeysAreNumbers ==
  ASSUME LogTypeOK
  PROVE  /\ seq \in Nat
         /\ \A k \in Keys : k \in Nat /\ 1 <= k /\ k <= seq
<1>1. MaxAppends \in Nat /\ seq \in 0 .. MaxAppends /\ Keys \subseteq 1 .. seq
  BY LogAssumption DEF LogAssumption, LogTypeOK
<1> QED
  BY <1>1

\* What one step down of the cursor is: to the next key, or to none.
LEMMA StepDown ==
  ASSUME LogTypeOK, NEW k \in Nat
  PROVE  \/ /\ PrevKey(k) = 0
            /\ \A j \in Keys : ~ (j < k)
         \/ /\ PrevKey(k) \in Keys
            /\ PrevKey(k) < k
            /\ \A j \in Keys : j < k => j <= PrevKey(k)
<1> DEFINE below == {j \in Keys : j < k}
<1>1. below \in SUBSET Nat /\ \A n \in below : n <= k
  <2>1. \A n \in Keys : n \in Nat
    BY KeysAreNumbers
  <2> QED
    BY <2>1
<1>2. CASE below = {}
  BY <1>2 DEF PrevKey
<1>3. CASE below # {}
  <2>1. \E x \in below : \A y \in below : y <= x
    BY <1>1, <1>3, GreatestNumber
  <2>2. \E x \in below : \A y \in below : x >= y
    BY <1>1, <2>1
  <2>3. Max(below) \in below /\ \A y \in below : Max(below) >= y
    BY <2>2 DEF Max
  <2> QED
    BY <1>1, <1>3, <2>3 DEF PrevKey
<1> QED
  BY <1>2, <1>3

\* Where Seek lands.
LEMMA SeekLands ==
  ASSUME LogTypeOK, NEW k \in Nat
  PROVE  \/ /\ SeekKey(k) = 0
            /\ \A j \in Keys : ~ (j >= k)
         \/ /\ SeekKey(k) \in Keys
            /\ SeekKey(k) >= k
            /\ \A j \in Keys : j >= k => SeekKey(k) <= j
<1> DEFINE above == {j \in Keys : j >= k}
<1>1. above \in SUBSET Nat
  <2>1. \A n \in Keys : n \in Nat
    BY KeysAreNumbers
  <2> QED
    BY <2>1
<1>2. CASE above = {}
  BY <1>2 DEF SeekKey
<1>3. CASE above # {}
  <2>1. \E x \in above : \A y \in above : x =< y
    BY <1>1, <1>3, LeastNumber
  <2>2. Min(above) \in above /\ \A y \in above : Min(above) =< y
    BY <2>1 DEF Min
  <2> QED
    BY <1>1, <1>3, <2>2 DEF SeekKey
<1> QED
  BY <1>2, <1>3

\* The walk starts at the newest line below before, whether or not before is
\* the number of a line that is still there.
LEMMA WalkStarts ==
  ASSUME LogTypeOK, NEW before \in Nat
  PROVE  /\ StartKey(before) \in Keys \cup {0}
         /\ \A j \in Keys : before = 0 \/ j < before => j <= StartKey(before)
         /\ StartKey(before) # 0 /\ before # 0 => StartKey(before) < before
<1>1. /\ seq + 1 \in Nat
      /\ \A k \in Keys : k \in Nat /\ 1 <= k /\ k <= seq /\ k < seq + 1
  BY KeysAreNumbers
<1>2. LastKey \in Keys \cup {0} /\ \A j \in Keys : j <= LastKey
  BY <1>1, StepDown DEF LastKey
<1>3. CASE before = 0 \/ SeekKey(before) = 0
  <2>1. StartKey(before) = LastKey
    BY <1>3 DEF StartKey
  <2>2. before # 0 => \A j \in Keys : ~ (j >= before)
    BY <1>3, <1>1, SeekLands
  <2> QED
    BY <1>1, <1>2, <2>1, <2>2
<1>4. CASE before # 0 /\ SeekKey(before) # 0
  <2> DEFINE s == SeekKey(before)
  <2>1. s \in Keys /\ s >= before /\ \A j \in Keys : j >= before => s <= j
    BY <1>4, SeekLands
  <2>2. StartKey(before) = PrevKey(s)
    BY <1>4 DEF StartKey
  <2>3. s \in Nat
    BY <1>1, <2>1
  <2> HIDE DEF s
  <2>4. CASE PrevKey(s) = 0 /\ \A j \in Keys : ~ (j < s)
    BY <1>1, <1>4, <2>1, <2>2, <2>3, <2>4
  <2>5. CASE /\ PrevKey(s) \in Keys /\ PrevKey(s) < s
             /\ \A j \in Keys : j < s => j <= PrevKey(s)
    <3> DEFINE p == PrevKey(s)
    <3>2. p \in Nat /\ p < s /\ (p >= before => s <= p)
      BY <1>1, <2>1, <2>5
    <3> HIDE DEF p
    <3>3. p < before
      BY <2>3, <3>2
    <3>1. PrevKey(s) < before
      BY <3>3 DEF p
    <3> QED
      BY <1>1, <1>4, <2>1, <2>2, <2>3, <2>5, <3>1
  <2> QED
    BY <2>3, <2>4, <2>5, StepDown
<1> QED
  BY <1>3, <1>4

-----------------------------------------------------------------------------
(***************************************************************************)
(* A page.                                                                 *)
(***************************************************************************)

\* Any part of the log is finite.
LEMMA LogIsFinite ==
  ASSUME LogTypeOK, NEW S \in SUBSET Keys
  PROVE  IsFiniteSet(S) /\ Cardinality(S) \in Nat
<1>1. seq \in Nat /\ S \in SUBSET (1 .. seq)
  BY KeysAreNumbers DEF LogTypeOK
<1>2. IsFiniteSet(1 .. seq)
  BY <1>1, FS_Interval
<1> QED
  BY <1>1, <1>2, FS_Subset, FS_CardinalityType

\* Nothing is the newest of nothing, and no line is among the newest none.
LEMMA NewestOfNothing ==
  ASSUME LogTypeOK, NEW S \in SUBSET Keys, NEW n \in Nat, S = {} \/ n = 0
  PROVE  NewestOf(S, n) = {}
<1>1. ASSUME NEW k \in S, Cardinality({j \in S : j > k}) < 0
      PROVE  FALSE
  BY <1>1, LogIsFinite
<1> QED
  BY <1>1 DEF NewestOf

\* The newest n lines are the newest and the n - 1 newest of the others.
LEMMA NewestAndOthers ==
  ASSUME LogTypeOK, NEW S \in SUBSET Keys, NEW k \in S, NEW n \in Nat \ {0},
         \A j \in S : j <= k
  PROVE  NewestOf(S, n) = {k} \cup NewestOf(S \ {k}, n - 1)
<1>1. \A j \in S : j \in Nat
  BY KeysAreNumbers
<1>2. {j \in S : j > k} = {}
  BY <1>1
<1>3. Cardinality({j \in S : j > k}) < n
  BY <1>2, FS_EmptySet
<1>4. ASSUME NEW x \in S \ {k}
      PROVE  Cardinality({j \in S : j > x}) < n
             <=> Cardinality({j \in S \ {k} : j > x}) < n - 1
  <2> DEFINE A == {j \in S \ {k} : j > x}
  <2>1. {j \in S : j > x} = A \cup {k} /\ k \notin A
    BY <1>1
  <2>2. IsFiniteSet(A) /\ Cardinality(A) \in Nat
    BY LogIsFinite
  <2> HIDE DEF A
  <2>3. Cardinality(A \cup {k}) = Cardinality(A) + 1
    BY <2>1, <2>2, FS_AddElement
  <2>4. Cardinality(A) + 1 < n <=> Cardinality(A) < n - 1
    BY <2>2
  <2> QED
    BY <2>1, <2>3, <2>4 DEF A
<1> QED
  BY <1>3, <1>4 DEF NewestOf

\* The lines about the host up to one number.
Upto(h, k) == {j \in Keys : Concerns(j, h) /\ j <= k}

\* Below a line there is what the cursor finds from there.
LEMMA LinesBelow ==
  ASSUME LogTypeOK, NEW k \in Keys, NEW h
  PROVE  /\ PrevKey(k) \in Keys \cup {0}
         /\ Concerns(k, h) => /\ k \in Upto(h, k)
                              /\ Upto(h, PrevKey(k)) = Upto(h, k) \ {k}
         /\ ~Concerns(k, h) => Upto(h, PrevKey(k)) = Upto(h, k)
<1>1. k \in Nat /\ \A j \in Keys : j \in Nat /\ 1 <= j
  BY KeysAreNumbers
<1> DEFINE p == PrevKey(k)
<1>2. \/ p = 0 /\ \A j \in Keys : ~ (j < k)
      \/ p \in Keys /\ p < k /\ \A j \in Keys : j < k => j <= p
  BY <1>1, StepDown
<1> HIDE DEF p
<1>3. p \in Keys \cup {0}
  BY <1>2
<1>4. \A j \in Keys : j <= p <=> j < k
  <2>1. CASE p = 0 /\ \A j \in Keys : ~ (j < k)
    BY <1>1, <2>1
  <2>2. CASE p \in Keys /\ p < k /\ \A j \in Keys : j < k => j <= p
    <3>1. p \in Nat
      BY <1>1, <2>2
    <3> QED
      BY <1>1, <2>2, <3>1
  <2> QED
    BY <1>2, <2>1, <2>2
<1>5. Upto(h, p) = {j \in Keys : Concerns(j, h) /\ j < k}
  BY <1>4 DEF Upto
<1>6. \A j \in Keys : j < k <=> j <= k /\ j # k
  BY <1>1
<1>7. Upto(h, p) = Upto(h, k) \ {k}
  BY <1>5, <1>6 DEF Upto
<1>8. Concerns(k, h) <=> k \in Upto(h, k)
  BY <1>1 DEF Upto
<1> QED
  BY <1>3, <1>7, <1>8 DEF p

\* The walk from a key finds the newest lines of the host up to that key.  It is
\* by induction on the key: the walk is the only function that satisfies its
\* definition, and finding the newest lines does.
LEMMA WalkIsExact ==
  ASSUME LogTypeOK, NEW h, NEW before \in Nat, NEW limit \in Nat
  PROVE  GetOperations(h, before, limit) =
           NewestOf(Upto(h, StartKey(before)), limit)
<1> DEFINE exact == [k \in Keys \cup {0} |->
                       [room \in 0 .. limit |-> NewestOf(Upto(h, k), room)]]
           walk == CHOOSE collect :
             collect = [k \in Keys \cup {0} |->
               [room \in 0 .. limit |->
                  IF k = 0 \/ room = 0 THEN {}
                  ELSE IF Concerns(k, h)
                  THEN {k} \cup collect[PrevKey(k)][room - 1]
                  ELSE collect[PrevKey(k)][room]]]
<1>1. \A k \in Keys : k \in Nat /\ 1 <= k
  BY KeysAreNumbers
<1>8. ASSUME NEW k \in Keys
      PROVE  PrevKey(k) \in Keys \cup {0} /\ PrevKey(k) \in Nat /\ PrevKey(k) < k
  <2>1. k \in Nat /\ 1 <= k
    BY <1>1
  <2>2. CASE PrevKey(k) = 0
    BY <2>1, <2>2
  <2>3. CASE PrevKey(k) \in Keys /\ PrevKey(k) < k
    BY <1>1, <2>3
  <2> QED
    BY <2>1, <2>2, <2>3, StepDown
<1>2. ASSUME NEW k \in Keys \cup {0}, NEW room \in 0 .. limit
      PROVE  /\ PrevKey(k) \in Keys \cup {0} \/ k = 0
             /\ NewestOf(Upto(h, k), room) =
                  IF k = 0 \/ room = 0 THEN {}
                  ELSE IF Concerns(k, h)
                  THEN {k} \cup NewestOf(Upto(h, PrevKey(k)), room - 1)
                  ELSE NewestOf(Upto(h, PrevKey(k)), room)
  <2>1. Upto(h, k) \in SUBSET Keys /\ room \in Nat
    BY DEF Upto
  <2>2. CASE k = 0 \/ room = 0
    <3>1. k = 0 => Upto(h, k) = {}
      <4>1. \A j \in Keys : ~ (j <= 0)
        BY <1>1
      <4> QED
        BY <4>1 DEF Upto
    <3>2. NewestOf(Upto(h, k), room) = {}
      BY <2>1, <2>2, <3>1, NewestOfNothing
    <3>3. k # 0 => PrevKey(k) \in Keys \cup {0}
      BY LinesBelow
    <3> QED
      BY <2>2, <3>2, <3>3
  <2>3. CASE k # 0 /\ room # 0
    <3>1. k \in Keys /\ room \in Nat \ {0}
      BY <2>1, <2>3
    <3>2. PrevKey(k) \in Keys \cup {0}
      BY <3>1, LinesBelow
    <3>3. CASE Concerns(k, h)
      <4>1. k \in Upto(h, k) /\ Upto(h, PrevKey(k)) = Upto(h, k) \ {k}
        BY <3>1, <3>3, LinesBelow
      <4>2. \A j \in Upto(h, k) : j <= k
        BY DEF Upto
      <4>3. NewestOf(Upto(h, k), room) =
              {k} \cup NewestOf(Upto(h, k) \ {k}, room - 1)
        BY <2>1, <3>1, <4>1, <4>2, NewestAndOthers
      <4> QED
        BY <2>3, <3>2, <3>3, <4>1, <4>3
    <3>4. CASE ~Concerns(k, h)
      BY <2>3, <3>1, <3>2, <3>4, LinesBelow
    <3> QED
      BY <3>3, <3>4
  <2> QED
    BY <2>2, <2>3
<1>3. exact = [k \in Keys \cup {0} |->
                 [room \in 0 .. limit |->
                    IF k = 0 \/ room = 0 THEN {}
                    ELSE IF Concerns(k, h)
                    THEN {k} \cup exact[PrevKey(k)][room - 1]
                    ELSE exact[PrevKey(k)][room]]]
  <2>1. ASSUME NEW k \in Keys \cup {0}, NEW room \in 0 .. limit
        PROVE  NewestOf(Upto(h, k), room) =
                 IF k = 0 \/ room = 0 THEN {}
                 ELSE IF Concerns(k, h)
                 THEN {k} \cup exact[PrevKey(k)][room - 1]
                 ELSE exact[PrevKey(k)][room]
    <3>1. CASE k = 0 \/ room = 0
      BY <1>2, <3>1
    <3>2. CASE k # 0 /\ room # 0
      <4>1. PrevKey(k) \in Keys \cup {0} /\ room - 1 \in 0 .. limit
        BY <1>2, <3>2
      <4>2. /\ exact[PrevKey(k)][room - 1] =
                 NewestOf(Upto(h, PrevKey(k)), room - 1)
            /\ exact[PrevKey(k)][room] = NewestOf(Upto(h, PrevKey(k)), room)
        BY <4>1
      <4> QED
        BY <1>2, <4>2
    <3> QED
      BY <3>1, <3>2
  <2> QED
    BY <2>1
<1>4. walk = [k \in Keys \cup {0} |->
                [room \in 0 .. limit |->
                   IF k = 0 \/ room = 0 THEN {}
                   ELSE IF Concerns(k, h)
                   THEN {k} \cup walk[PrevKey(k)][room - 1]
                   ELSE walk[PrevKey(k)][room]]]
  <2> HIDE DEF exact
  <2> QED
    BY <1>3
<1>5. GetOperations(h, before, limit) = walk[StartKey(before)][limit]
  BY DEF GetOperations
<1> HIDE DEF walk
<1>6. \A k \in Keys \cup {0} : walk[k] = exact[k]
  <2> DEFINE apart == {k \in Keys \cup {0} : walk[k] # exact[k]}
  <2>1. SUFFICES ASSUME apart # {}
                 PROVE  FALSE
    OBVIOUS
  <2>2. apart \in SUBSET Nat
    BY <1>1
  <2>3. PICK k \in apart : \A m \in apart : k <= m
    BY <2>1, <2>2, LeastNumber
  <2>4. k \in Keys \cup {0} /\ walk[k] # exact[k]
    BY <2>3
  <2>5. k # 0 => /\ PrevKey(k) \in Keys \cup {0}
                 /\ walk[PrevKey(k)] = exact[PrevKey(k)]
    <3>1. SUFFICES ASSUME k # 0
                   PROVE  /\ PrevKey(k) \in Keys \cup {0}
                          /\ walk[PrevKey(k)] = exact[PrevKey(k)]
      OBVIOUS
    <3>2. /\ k \in Nat
          /\ PrevKey(k) \in Keys \cup {0} /\ PrevKey(k) \in Nat
          /\ PrevKey(k) < k
      BY <1>1, <1>8, <2>4, <3>1
    <3>4. ~ (k <= PrevKey(k))
      BY <3>2
    <3>5. PrevKey(k) \notin apart
      BY <2>3, <3>4, Zenon
    <3> QED
      BY <3>2, <3>5
  <2> HIDE DEF exact, apart
  <2>6. exact[k] = [room \in 0 .. limit |->
                      IF k = 0 \/ room = 0 THEN {}
                      ELSE IF Concerns(k, h)
                      THEN {k} \cup exact[PrevKey(k)][room - 1]
                      ELSE exact[PrevKey(k)][room]]
    BY <1>3, <2>4
  <2>7. walk[k] = [room \in 0 .. limit |->
                     IF k = 0 \/ room = 0 THEN {}
                     ELSE IF Concerns(k, h)
                     THEN {k} \cup walk[PrevKey(k)][room - 1]
                     ELSE walk[PrevKey(k)][room]]
    BY <1>4, <2>4
  <2>8. walk[k] = exact[k]
    <3>1. CASE k = 0
      BY <2>6, <2>7, <3>1
    <3>2. CASE k # 0
      BY <2>5, <2>6, <2>7, <3>2
    <3> QED
      BY <3>1, <3>2
  <2> QED
    BY <2>4, <2>8
<1>7. StartKey(before) \in Keys \cup {0} /\ limit \in 0 .. limit
  BY WalkStarts
<1> QED
  BY <1>5, <1>6, <1>7

\* A page is the newest lines below before, whatever of them is still there.
LEMMA PageIsExact ==
  ASSUME LogTypeOK, NEW h, NEW before \in Nat, NEW limit \in Nat
  PROVE  GetOperations(h, before, limit) = NewestOf(Eligible(h, before), limit)
<1>1. \A k \in Keys : k \in Nat
  BY KeysAreNumbers
<1> DEFINE s == StartKey(before)
<1>2. /\ s \in Keys \cup {0}
      /\ \A j \in Keys : before = 0 \/ j < before => j <= s
      /\ s # 0 /\ before # 0 => s < before
  BY WalkStarts
<1> HIDE DEF s
<1>3. \A j \in Keys : j <= s <=> before = 0 \/ j < before
  <2>1. s \in Nat
    BY <1>1, <1>2
  <2>2. ASSUME NEW j \in Keys, j <= s, before # 0
        PROVE  j < before
    <3>1. j \in Nat /\ j # 0
      BY KeysAreNumbers
    <3>2. s < before
      BY <1>2, <2>1, <2>2, <3>1
    <3> QED
      BY <2>1, <2>2, <3>1, <3>2
  <2> QED
    BY <1>2, <2>2
<1>4. Upto(h, s) = Eligible(h, before)
  BY <1>3 DEF Upto, Eligible
<1> QED
  BY <1>4, WalkIsExact DEF s

\* "Seek lands on the first key at or after": whatever was trimmed below the
\* cursor of a browser, every page is the newest lines below it, no line left
\* out and none again.
THEOREM CursorReadsPages == LogSpec => []PagesAreExact
<1>1. LogTypeOK => PagesAreExact
  <2>1. ASSUME LogTypeOK, NEW h \in Hosts \cup {AllHosts},
               NEW before \in 0 .. MaxAppends + 1, NEW limit \in 1 .. Kept
        PROVE  GetOperations(h, before, limit) =
                 NewestOf(Eligible(h, before), limit)
    <3>1. before \in Nat /\ limit \in Nat
      BY LogAssumption DEF LogAssumption
    <3> QED
      BY <2>1, <3>1, PageIsExact
  <2> QED
    BY <2>1 DEF PagesAreExact
<1> QED
  BY <1>1, LogTypeCorrect, PTL

-----------------------------------------------------------------------------
(***************************************************************************)
(* The page in the browser.                                                *)
(***************************************************************************)

-----------------------------------------------------------------------------
(***************************************************************************)
(* The invariant of the page.                                              *)
(***************************************************************************)

Seqs(ops) == {ops[n].seq : n \in DOMAIN ops}
Descends(ops) == \A m, n \in DOMAIN ops : m < n => ops[m].seq > ops[n].seq

\* A page on its way to the browser: newest first, of the host that was asked
\* about, and with every line of it that is still in the log, from its last line
\* up to its first or to the line it was to continue from.
PageHolds(f, last, lines) ==
  /\ Descends(f.ops)
  /\ \A n \in DOMAIN f.ops :
       /\ f.ops[n].seq <= last
       /\ f.before = 0 \/ f.ops[n].seq < f.before
       /\ f.host = AllHosts \/ f.ops[n].host = f.host
  /\ f.ops # <<>> =>
       \A k \in DOMAIN lines :
         /\ f.host = AllHosts \/ lines[k] = f.host
         /\ Last(f.ops).seq <= k
         /\ IF f.before = 0 THEN k <= f.ops[1].seq ELSE k < f.before
         => k \in Seqs(f.ops)

FetchHolds(f, last, lines) ==
  /\ f.before <= last
  /\ f.kind # "older" => f.before = 0
  /\ f.served => PageHolds(f, last, lines)

FetchInv == \A i \in DOMAIN fetches : FetchHolds(fetches[i], seq, log)

\* The page knows of no line that was not given out.
CursorInv == newestSeq <= seq /\ oldestSeq <= seq

\* While fetches do not overlap, the one under way is about the host chosen, and
\* an older page continues the rows that are shown.
TableInv ==
  /\ Len(fetches) <= 1
  /\ RowsDescend /\ CursorsMatchRows /\ NoGaps /\ RowsAreOfTheHost
  /\ more => rows # <<>>
  /\ \A i \in DOMAIN fetches :
       /\ fetches[i].host = host
       /\ fetches[i].kind = "older" =>
            fetches[i].before = oldestSeq /\ rows # <<>>

PageInv == PageTypeOK /\ FetchInv /\ CursorInv /\ (Orderly => TableInv)

-----------------------------------------------------------------------------
(***************************************************************************)
(* Sequences of fetches and of lines.                                      *)
(***************************************************************************)

\* A sequence without one of its elements: those above it move down by one.
LEMMA MovedDown ==
  ASSUME NEW S, NEW s \in Seq(S), NEW i \in DOMAIN s
  PROVE  /\ RemoveAt(s, i) \in Seq(S)
         /\ Len(RemoveAt(s, i)) = Len(s) - 1
         /\ DOMAIN RemoveAt(s, i) = 1 .. Len(s) - 1
         /\ \A j \in 1 .. Len(s) - 1 :
              /\ j \in DOMAIN s /\ j + 1 \in DOMAIN s
              /\ j < i => RemoveAt(s, i)[j] = s[j]
              /\ j >= i => RemoveAt(s, i)[j] = s[j + 1]
<1> DEFINE n == Len(s)
           before == SubSeq(s, 1, i - 1)
           after == SubSeq(s, i + 1, n)
<1>1. n \in Nat /\ DOMAIN s = 1 .. n /\ i \in 1 .. n
  BY LenProperties
<1>2. /\ before \in Seq(S) /\ Len(before) = i - 1
      /\ \A j \in 1 .. (i - 1) : before[j] = s[j]
  <2>1. \A j \in 1 .. (i - 1) : j \in DOMAIN s
    BY <1>1
  <2> QED
    BY <1>1, <2>1, SubSeqProperties
<1>3. /\ after \in Seq(S) /\ Len(after) = n - i
      /\ \A j \in 1 .. (n - i) : after[j] = s[i + j]
  <2>1. \A j \in (i + 1) .. n : j \in DOMAIN s
    BY <1>1
  <2> QED
    BY <1>1, <2>1, SubSeqProperties
<1>4. RemoveAt(s, i) = before \o after
  BY DEF RemoveAt
<1> HIDE DEF before, after, n
<1> DEFINE r == before \o after
<1>5. /\ r \in Seq(S)
      /\ Len(r) = Len(before) + Len(after)
      /\ \A j \in 1 .. Len(before) + Len(after) :
           r[j] = IF j <= Len(before) THEN before[j] ELSE after[j - Len(before)]
  BY <1>2, <1>3, ConcatProperties
<1> HIDE DEF r
<1>6. Len(r) = n - 1 /\ DOMAIN r = 1 .. (n - 1)
  <2>1. Len(r) = n - 1
    BY <1>1, <1>2, <1>3, <1>5
  <2> QED
    BY <1>5, <2>1, LenProperties
<1>7. ASSUME NEW j \in 1 .. (n - 1)
      PROVE  /\ j \in DOMAIN s /\ j + 1 \in DOMAIN s
             /\ j < i => r[j] = s[j]
             /\ j >= i => r[j] = s[j + 1]
  <2>1. j \in 1 .. Len(before) + Len(after) /\ j \in DOMAIN s /\ j + 1 \in DOMAIN s
    BY <1>1, <1>5, <1>6, <1>2, <1>3
  <2>2. CASE j <= i - 1
    <3>1. r[j] = s[j] /\ ~(j >= i)
      BY <1>1, <1>2, <1>5, <2>1, <2>2
    <3> QED
      BY <2>1, <3>1
  <2>3. CASE ~ (j <= i - 1)
    <3>1. /\ j - (i - 1) \in 1 .. (n - i)
          /\ i + (j - (i - 1)) = j + 1 /\ j + 1 \in DOMAIN s
      BY <1>1, <2>1, <2>3
    <3>2. r[j] = after[j - (i - 1)]
      BY <1>2, <1>5, <2>1, <2>3
    <3>3. r[j] = s[j + 1]
      BY <1>3, <3>1, <3>2
    <3>4. ~(j < i)
      BY <1>1, <1>7, <2>3
    <3> QED
      BY <2>1, <3>3, <3>4
  <2> QED
    BY <2>2, <2>3
<1> QED
  BY <1>4, <1>5, <1>6, <1>7 DEF r, n

\* Each of those that are left was there before.
LEMMA Removed ==
  ASSUME NEW S, NEW s \in Seq(S), NEW i \in DOMAIN s
  PROVE  /\ RemoveAt(s, i) \in Seq(S)
         /\ Len(RemoveAt(s, i)) = Len(s) - 1
         /\ \A j \in DOMAIN RemoveAt(s, i) :
              \E l \in DOMAIN s : RemoveAt(s, i)[j] = s[l]
<1>1. i \in Int
  BY LenProperties
<1>2. ASSUME NEW j \in DOMAIN RemoveAt(s, i)
      PROVE  \E l \in DOMAIN s : RemoveAt(s, i)[j] = s[l]
  <2>1. j \in 1 .. Len(s) - 1 /\ (j < i \/ j >= i)
    BY <1>1, MovedDown
  <2> QED
    BY <2>1, MovedDown
<1> QED
  BY <1>2, MovedDown

\* The fresh lines of a page are its first ones, up to the last that is fresh.
LEMMA FreshIsTop ==
  ASSUME NEW ops \in Seq(Rows), Descends(ops), newestSeq \in Nat
  PROVE  \E top \in 0 .. Len(ops) :
           /\ Fresh(ops) \in Seq(Rows)
           /\ Len(Fresh(ops)) = top
           /\ \A n \in 1 .. top : Fresh(ops)[n] = ops[n]
           /\ \A n \in DOMAIN ops : ops[n].seq > newestSeq <=> n <= top
<1> DEFINE over == {0} \cup {n \in DOMAIN ops : ops[n].seq > newestSeq}
           top == Max(over)
<1>1. Len(ops) \in Nat /\ DOMAIN ops = 1 .. Len(ops)
  BY LenProperties
<1>2. \A n \in DOMAIN ops : ops[n].seq \in Nat
  <2>1. \A n \in DOMAIN ops : ops[n] \in Rows
    BY ElementOfSeq, <1>1
  <2>2. MaxAppends \in Nat
    BY LogAssumption DEF LogAssumption
  <2> QED
    BY <2>1, <2>2 DEF Rows
<1>3. over \in SUBSET Nat /\ over # {} /\ \A n \in over : n <= Len(ops)
  BY <1>1
<1>4. top \in over /\ \A n \in over : n <= top
  <2>1. \E n \in over : \A m \in over : m <= n
    BY <1>1, <1>3, GreatestNumber
  <2>2. \E n \in over : \A m \in over : n >= m
    BY <1>3, <2>1
  <2>3. top \in over /\ \A n \in over : top >= n
    BY <2>2 DEF Max
  <2> HIDE DEF top, over
  <2> QED
    BY <1>3, <2>3
<1>5. Fresh(ops) = SubSeq(ops, 1, top)
  BY DEF Fresh
<1> HIDE DEF top
<1>6. top \in 0 .. Len(ops)
  BY <1>1, <1>4
<1>7. \A n \in DOMAIN ops : ops[n].seq > newestSeq <=> n <= top
  <2>1. ASSUME NEW n \in DOMAIN ops, n <= top
        PROVE  ops[n].seq > newestSeq
    <3>1. top \in DOMAIN ops /\ ops[top].seq > newestSeq
      BY <1>1, <1>4, <1>6, <2>1
    <3>2. n = top \/ ops[n].seq > ops[top].seq
      BY <1>1, <1>6, <2>1, <3>1 DEF Descends
    <3> QED
      BY <1>2, <3>1, <3>2
  <2> QED
    BY <1>4, <2>1
<1>8. /\ SubSeq(ops, 1, top) \in Seq(Rows)
      /\ Len(SubSeq(ops, 1, top)) = top
      /\ \A n \in 1 .. top : SubSeq(ops, 1, top)[n] = ops[n]
  <2>1. \A j \in 1 .. top : j \in DOMAIN ops
    BY <1>1, <1>6
  <2> QED
    BY <1>6, <2>1, SubSeqProperties
<1> QED
  BY <1>5, <1>6, <1>7, <1>8

-----------------------------------------------------------------------------
(***************************************************************************)
(* The server's answer.                                                    *)
(***************************************************************************)

\* A listing holds the lines, each once, newest first.
LEMMA ListingIsAll ==
  ASSUME LogTypeOK, NEW S \in SUBSET Keys, NEW page \in NewestFirst(S)
  PROVE  \E n \in Nat :
           /\ page \in [1 .. n -> S]
           /\ \A k, l \in 1 .. n : k < l => page[k] > page[l]
           /\ \A k \in S : \E m \in 1 .. n : page[m] = k
<1> DEFINE n == Cardinality(S)
<1>1. IsFiniteSet(S) /\ n \in Nat
  BY LogIsFinite
<1>2. /\ page \in [1 .. n -> S]
      /\ \A i, j \in 1 .. n : i # j => page[i] # page[j]
      /\ \A k, l \in DOMAIN page : k < l => page[k] > page[l]
  BY DEF NewestFirst, SetToSeqs
<1> HIDE DEF n
<1>3. page \in Injection(1 .. n, S)
  BY <1>2 DEF Injection, IsInjective
<1>4. IsFiniteSet(1 .. n) /\ Cardinality(1 .. n) = n
  BY <1>1, FS_Interval
<1>5. page \in Surjection(1 .. n, S)
  BY <1>1, <1>3, <1>4, FS_Injection DEF n
<1>6. \A k \in S : \E m \in 1 .. n : page[m] = k
  BY <1>5 DEF Surjection
<1> QED
  BY <1>1, <1>2, <1>6

\* With a line, a page has every newer one that is eligible.
LEMMA NewerAreThere ==
  ASSUME LogTypeOK, NEW S \in SUBSET Keys, NEW n \in Nat,
         NEW k \in NewestOf(S, n), NEW j \in S, k <= j
  PROVE  j \in NewestOf(S, n)
<1>1. k \in S /\ Cardinality({i \in S : i > k}) < n
  BY DEF NewestOf
<1>2. \A i \in S : i \in Nat
  BY KeysAreNumbers
<1> DEFINE A == {i \in S : i > j}
           B == {i \in S : i > k}
<1>3. A \subseteq B
  BY <1>1, <1>2
<1>4. A \in SUBSET Keys /\ B \in SUBSET Keys
  OBVIOUS
<1> HIDE DEF A, B
<1>5. /\ IsFiniteSet(B) /\ Cardinality(B) \in Nat
      /\ Cardinality(A) \in Nat /\ Cardinality(A) <= Cardinality(B)
  BY <1>3, <1>4, LogIsFinite, FS_Subset
<1>6. Cardinality(A) < n
  BY <1>1, <1>5 DEF B
<1> QED
  BY <1>6 DEF NewestOf, A

\* The rows made of a page.
RowsOf(page) == [n \in DOMAIN page |-> [seq |-> page[n], host |-> log[page[n]]]]

\* What the server answers is a page of the log as it stands.
LEMMA AnswerHolds ==
  ASSUME LogTypeOK, NEW h \in Hosts \cup {AllHosts}, NEW before \in Nat,
         NEW page \in NewestFirst(GetOperations(h, before, PageSize)),
         NEW f, f.ops = RowsOf(page), f.host = h, f.before = before
  PROVE  f.ops \in Seq(Rows) /\ PageHolds(f, seq, log)
<1> DEFINE S == GetOperations(h, before, PageSize)
<1>1. S = NewestOf(Eligible(h, before), PageSize) /\ PageSize \in Nat
  BY PageAssumption, PageIsExact DEF PageAssumption
<1>2. S \in SUBSET Keys /\ \A k \in S : Concerns(k, h) /\ (before = 0 \/ k < before)
  BY <1>1 DEF NewestOf, Eligible
<1>3. ASSUME NEW k \in S, NEW j \in Keys, Concerns(j, h), k <= j,
             before = 0 \/ j < before
      PROVE  j \in S
  <2>1. j \in Eligible(h, before) /\ Eligible(h, before) \in SUBSET Keys
    BY <1>3 DEF Eligible
  <2> QED
    BY <1>1, <1>3, <2>1, NewerAreThere
<1> HIDE DEF S
<1>4. PICK n \in Nat :
        /\ page \in [1 .. n -> S]
        /\ \A k, l \in 1 .. n : k < l => page[k] > page[l]
        /\ \A k \in S : \E m \in 1 .. n : page[m] = k
  BY <1>2, ListingIsAll DEF S
<1>5. \A k \in S : /\ k \in Nat /\ 1 <= k /\ k <= seq /\ k \in 1 .. MaxAppends
                  /\ log[k] \in Hosts
  <2>1. \A k \in Keys : k \in Nat /\ 1 <= k /\ k <= seq
    BY KeysAreNumbers
  <2>2. seq \in Nat /\ seq <= MaxAppends /\ MaxAppends \in Nat
    BY KeysAreNumbers, LogAssumption DEF LogTypeOK, LogAssumption
  <2>3. \A k \in Keys : log[k] \in Hosts
    BY DEF LogTypeOK
  <2> QED
    BY <1>2, <2>1, <2>2, <2>3
<1>6. \A m \in 1 .. n : page[m] \in S
  BY <1>4
<1>7. /\ DOMAIN f.ops = 1 .. n
      /\ \A m \in 1 .. n : /\ f.ops[m] = [seq |-> page[m], host |-> log[page[m]]]
                           /\ f.ops[m].seq = page[m]
                           /\ f.ops[m].host = log[page[m]]
  BY <1>4 DEF RowsOf
<1>8. f.ops \in Seq(Rows)
  <2>1. \A m \in 1 .. n : [seq |-> page[m], host |-> log[page[m]]] \in Rows
    BY <1>5, <1>6 DEF Rows
  <2>2. f.ops = [m \in 1 .. n |-> [seq |-> page[m], host |-> log[page[m]]]]
    BY <1>4 DEF RowsOf
  <2>3. f.ops \in [1 .. n -> Rows]
    BY <2>1, <2>2
  <2> QED
    BY <1>4, <2>3, SeqDef
<1>9. Len(f.ops) = n
  BY <1>4, <1>7, <1>8, LenProperties
<1>10. Descends(f.ops)
  BY <1>4, <1>7 DEF Descends
<1>11. ASSUME NEW m \in DOMAIN f.ops
       PROVE  /\ f.ops[m].seq <= seq
              /\ f.before = 0 \/ f.ops[m].seq < f.before
              /\ f.host = AllHosts \/ f.ops[m].host = f.host
  BY <1>2, <1>5, <1>6, <1>7 DEF Concerns
<1>12. ASSUME f.ops # <<>>, NEW k \in Keys, Concerns(k, f.host),
              Last(f.ops).seq <= k,
              IF f.before = 0 THEN k <= f.ops[1].seq ELSE k < f.before
       PROVE  k \in Seqs(f.ops)
  <2>1. n # 0
    BY <1>8, <1>9, <1>12, EmptySeq
  <2>2. n \in 1 .. n /\ Last(f.ops).seq = page[n]
    BY <1>7, <1>9, <2>1 DEF Last
  <2>3. page[n] \in S /\ page[n] <= k
    BY <1>6, <1>12, <2>2
  <2>4. k \in S
    BY <1>3, <1>12, <2>3
  <2>5. PICK m \in 1 .. n : page[m] = k
    BY <1>4, <2>4
  <2> QED
    BY <1>7, <2>5 DEF Seqs
<1> QED
  BY <1>8, <1>10, <1>11, <1>12 DEF PageHolds, Keys, Concerns

\* An append leaves what is on its way as good as it was.
LEMMA AppendKeepsFetch ==
  ASSUME LogTypeOK, NEW f, f.before \in Nat,
         f.served => f.ops \in Seq(Rows),
         FetchHolds(f, seq, log), NEW h \in Hosts, AppendOperation(h)
  PROVE  FetchHolds(f, seq', log')
<1>1. /\ seq \in Nat /\ seq' = seq + 1
      /\ \A k \in Keys' : k \in Keys \/ k = seq + 1
      /\ \A k \in Keys' \cap Keys : log'[k] = log[k]
  <2>1. seq \in Nat /\ \A k \in Keys : k <= seq /\ k \in Nat
    BY KeysAreNumbers
  <2>2. seq' = seq + 1
    BY DEF AppendOperation
  <2>3. \A k \in Keys' : k \in Keys \/ k = seq + 1
    BY DEF AppendOperation, Keys
  <2>4. \A k \in Keys' : log'[k] = IF k = seq + 1 THEN h ELSE log[k]
    BY DEF AppendOperation, Keys
  <2> QED
    BY <2>1, <2>2, <2>3, <2>4
<1>2. f.before <= seq + 1
  BY <1>1 DEF FetchHolds
<1>3. ASSUME f.served
      PROVE  PageHolds(f, seq', log')
  <2>1. PageHolds(f, seq, log) /\ f.ops \in Seq(Rows)
    BY <1>3 DEF FetchHolds
  <2>2. \A n \in DOMAIN f.ops : f.ops[n].seq \in Nat /\ f.ops[n].seq <= seq
    <3>1. \A n \in DOMAIN f.ops : f.ops[n] \in Rows
      BY <2>1, ElementOfSeq, LenProperties
    <3> QED
      BY <2>1, <3>1, LogAssumption DEF PageHolds, Rows, LogAssumption
  <2>3. ASSUME f.ops # <<>>, NEW k \in Keys', Concerns(k, f.host)',
               Last(f.ops).seq <= k,
               IF f.before = 0 THEN k <= f.ops[1].seq ELSE k < f.before
        PROVE  k \in Seqs(f.ops)
    <3>1. 1 \in DOMAIN f.ops
      BY <2>1, <2>3, EmptySeq, LenProperties
    <3>2. k # seq + 1
      BY <1>1, <2>2, <2>3, <3>1 DEF FetchHolds
    <3>3. k \in Keys /\ log'[k] = log[k]
      BY <1>1, <2>3, <3>2
    <3>4. Concerns(k, f.host)
      BY <2>3, <3>3 DEF Concerns
    <3> QED
      BY <2>1, <2>3, <3>3, <3>4 DEF PageHolds, Keys, Concerns
  <2>4. \A n \in DOMAIN f.ops :
          /\ f.ops[n].seq <= seq + 1
          /\ f.before = 0 \/ f.ops[n].seq < f.before
          /\ f.host = AllHosts \/ f.ops[n].host = f.host
    BY <1>1, <2>1, <2>2 DEF PageHolds
  <2> QED
    BY <1>1, <2>1, <2>3, <2>4 DEF PageHolds, Keys, Concerns
<1> QED
  BY <1>1, <1>2, <1>3 DEF FetchHolds

-----------------------------------------------------------------------------
(***************************************************************************)
(* Types.                                                                  *)
(***************************************************************************)

\* What is done to the log keeps its type.
LEMMA LogTypeStays ==
  ASSUME LogTypeOK, LogNext \/ UNCHANGED logVars
  PROVE  LogTypeOK'
<1> USE LogAssumption DEF LogAssumption, LogTypeOK, Keys
<1>1. CASE UNCHANGED logVars
  BY <1>1 DEF logVars
<1>2. ASSUME NEW h \in Hosts, AppendOperation(h)
      PROVE  LogTypeOK'
  BY <1>2 DEF AppendOperation, Surplus
<1> QED
  BY <1>1, <1>2 DEF LogNext

\* A fetch about to be sent.
LEMMA NewFetch ==
  ASSUME NEW kind \in Kinds, NEW h \in Hosts \cup {AllHosts},
         NEW before \in 0 .. MaxAppends
  PROVE  /\ Fetch(kind, h, before) \in Fetches
         /\ Fetch(kind, h, before).kind = kind
         /\ Fetch(kind, h, before).host = h
         /\ Fetch(kind, h, before).before = before
         /\ Fetch(kind, h, before).served = FALSE
<1>1. <<>> \in Seq(Rows)
  OBVIOUS
<1> QED
  BY <1>1 DEF Fetch, Fetches

\* What a fetch is made of.
LEMMA FetchFields ==
  ASSUME PageTypeOK, NEW i \in DOMAIN fetches
  PROVE  /\ fetches[i] \in Fetches
         /\ fetches[i].kind \in Kinds
         /\ fetches[i].host \in Hosts \cup {AllHosts}
         /\ fetches[i].before \in 0 .. MaxAppends /\ fetches[i].before \in Nat
         /\ fetches[i].served \in BOOLEAN
         /\ fetches[i].ops \in Seq(Rows)
<1>1. fetches[i] \in Fetches
  BY ElementOfSeq, LenProperties DEF PageTypeOK
<1>2. MaxAppends \in Nat
  BY LogAssumption DEF LogAssumption
<1> QED
  BY <1>1, <1>2 DEF Fetches

\* The ends of a list of rows.
LEMMA EndsOfRows ==
  ASSUME NEW ops \in Seq(Rows)
  PROVE  /\ FirstSeq(ops) \in 0 .. MaxAppends
         /\ LastSeq(ops) \in 0 .. MaxAppends
         /\ \A n \in DOMAIN ops : ops[n].seq \in Nat /\ 1 <= ops[n].seq
         /\ ops # <<>> =>
              /\ Len(ops) \in Nat /\ Len(ops) # 0
              /\ 1 \in DOMAIN ops /\ Len(ops) \in DOMAIN ops
              /\ Last(ops) = ops[Len(ops)]
<1>1. MaxAppends \in Nat
  BY LogAssumption DEF LogAssumption
<1>2. \A n \in DOMAIN ops : ops[n].seq \in 1 .. MaxAppends
  <2>1. \A n \in DOMAIN ops : ops[n] \in Rows
    BY ElementOfSeq, LenProperties
  <2> QED
    BY <2>1 DEF Rows
<1>3. ops # <<>> =>
        /\ Len(ops) \in Nat /\ Len(ops) # 0
        /\ 1 \in DOMAIN ops /\ Len(ops) \in DOMAIN ops
        /\ Last(ops) = ops[Len(ops)]
  BY EmptySeq, LenProperties DEF Last
<1> QED
  BY <1>1, <1>2, <1>3 DEF FirstSeq, LastSeq

\* A fetch sent joins those under way.
LEMMA SentFetch ==
  ASSUME PageTypeOK, NEW fetch \in Fetches, CanFetch, Send(fetch)
  PROVE  /\ fetches' \in Seq(Fetches)
         /\ Len(fetches') = Len(fetches) + 1 /\ Len(fetches') <= MaxInFlight
         /\ overlapped' \in BOOLEAN
         /\ overlapped' = (overlapped \/ Len(fetches) # 0)
         /\ \A j \in DOMAIN fetches' :
              fetches'[j] = fetch \/ \E l \in DOMAIN fetches : fetches'[j] = fetches[l]
<1>1. /\ fetches \in Seq(Fetches) /\ overlapped \in BOOLEAN
      /\ Len(fetches) \in Nat /\ DOMAIN fetches = 1 .. Len(fetches)
  BY LenProperties DEF PageTypeOK
<1>2. /\ fetches' \in Seq(Fetches)
      /\ Len(fetches') = Len(fetches) + 1
      /\ \A j \in 1 .. Len(fetches) : fetches'[j] = fetches[j]
      /\ fetches'[Len(fetches) + 1] = fetch
  BY <1>1, AppendProperties DEF Send
<1>3. DOMAIN fetches' = 1 .. Len(fetches) + 1
  BY <1>2, LenProperties
<1>4. MaxInFlight \in Nat
  BY PageAssumption DEF PageAssumption
<1>5. fetches = <<>> <=> Len(fetches) = 0
  BY <1>1, EmptySeq
<1>6. overlapped' = (overlapped \/ Len(fetches) # 0)
  BY <1>5 DEF Send
<1> QED
  BY <1>1, <1>2, <1>3, <1>4, <1>6 DEF CanFetch

\* A fetch is over.
LEMMA RemovedFetch ==
  ASSUME PageTypeOK, NEW i \in DOMAIN fetches, NEW remaining, remaining = RemoveAt(fetches, i)
  PROVE  /\ remaining \in Seq(Fetches)
         /\ Len(remaining) = Len(fetches) - 1 /\ Len(remaining) \in Nat
         /\ Len(remaining) <= MaxInFlight /\ Len(remaining) < MaxInFlight
         /\ \A j \in DOMAIN remaining : \E l \in DOMAIN fetches : remaining[j] = fetches[l]
<1>1. fetches \in Seq(Fetches) /\ Len(fetches) <= MaxInFlight
  BY DEF PageTypeOK
<1>2. /\ remaining \in Seq(Fetches)
      /\ Len(remaining) = Len(fetches) - 1
      /\ \A j \in DOMAIN remaining : \E l \in DOMAIN fetches : remaining[j] = fetches[l]
  BY <1>1, Removed
<1>3. Len(remaining) \in Nat /\ Len(fetches) \in Nat /\ MaxInFlight \in Nat
  BY <1>1, <1>2, LenProperties, PageAssumption DEF PageAssumption
<1> QED
  BY <1>1, <1>2, <1>3

\* A fetch that is answered may be followed by another.
LEMMA ReloadFetch ==
  ASSUME PageTypeOK, NEW i \in DOMAIN fetches, NEW fetch \in Fetches,
         NEW remaining, remaining = Append(RemoveAt(fetches, i), fetch)
  PROVE  /\ remaining \in Seq(Fetches)
         /\ Len(remaining) = Len(fetches) /\ Len(remaining) <= MaxInFlight
         /\ \A j \in DOMAIN remaining :
              remaining[j] = fetch \/ \E l \in DOMAIN fetches : remaining[j] = fetches[l]
         /\ \E j \in DOMAIN remaining : remaining[j] = fetch
<1> DEFINE rest == RemoveAt(fetches, i)
<1>1. /\ rest \in Seq(Fetches)
      /\ Len(rest) = Len(fetches) - 1 /\ Len(rest) \in Nat
      /\ \A j \in DOMAIN rest : \E l \in DOMAIN fetches : rest[j] = fetches[l]
  BY RemovedFetch
<1>2. remaining = Append(rest, fetch)
  OBVIOUS
<1> HIDE DEF rest
<1>3. DOMAIN rest = 1 .. Len(rest)
  BY <1>1, LenProperties
<1>4. /\ remaining \in Seq(Fetches)
      /\ Len(remaining) = Len(rest) + 1
      /\ \A j \in 1 .. Len(rest) : remaining[j] = rest[j]
      /\ remaining[Len(rest) + 1] = fetch
  BY <1>1, <1>2, AppendProperties
<1>5. DOMAIN remaining = 1 .. Len(rest) + 1
  BY <1>4, LenProperties
<1>6. Len(fetches) \in Nat /\ Len(fetches) <= MaxInFlight
  BY LenProperties DEF PageTypeOK
<1>7. Len(remaining) = Len(fetches) /\ Len(remaining) <= MaxInFlight
  BY <1>1, <1>4, <1>6
<1>8. \A j \in DOMAIN remaining :
        remaining[j] = fetch \/ \E l \in DOMAIN fetches : remaining[j] = fetches[l]
  BY <1>1, <1>3, <1>4, <1>5
<1>9. \E j \in DOMAIN remaining : remaining[j] = fetch
  BY <1>1, <1>4, <1>5
<1> QED
  BY <1>4, <1>7, <1>8, <1>9

\* Every step keeps every variable of the page to its type.
LEMMA TypesStay == PageTypeOK /\ FetchInv /\ [PageNext]_logAndPageVars => PageTypeOK'
<1> SUFFICES ASSUME PageTypeOK, FetchInv, [PageNext]_logAndPageVars PROVE PageTypeOK'
  OBVIOUS
<1>1. /\ LogTypeOK
      /\ host \in Hosts \cup {AllHosts} /\ rows \in Seq(Rows)
      /\ newestSeq \in 0 .. MaxAppends /\ oldestSeq \in 0 .. MaxAppends
      /\ more \in BOOLEAN /\ busy \in BOOLEAN
      /\ fetches \in Seq(Fetches) /\ Len(fetches) <= MaxInFlight
      /\ overlapped \in BOOLEAN
      /\ switches \in 0 .. MaxSwitches /\ failures \in 0 .. MaxFailures
  BY DEF PageTypeOK
<1>2. /\ MaxSwitches \in Nat /\ MaxFailures \in Nat /\ 0 \in 0 .. MaxAppends
      /\ {"load", "older", "refresh"} \subseteq Kinds
  BY LogAssumption, PageAssumption DEF LogAssumption, PageAssumption, Kinds
<1>3. CASE LogNext /\ UNCHANGED pageVars
  BY <1>1, <1>3, LogTypeStays DEF PageTypeOK, pageVars, tableVars
<1>4. CASE Refresh
  BY <1>1, <1>2, <1>4, LogTypeStays, NewFetch, SentFetch
     DEF PageTypeOK, Refresh, logVars, tableVars
<1>5. CASE LoadOlder
  BY <1>1, <1>2, <1>5, LogTypeStays, NewFetch, SentFetch
     DEF PageTypeOK, LoadOlder, logVars, tableVars
<1>6. ASSUME NEW h \in Hosts \cup {AllHosts}, ShowHost(h)
      PROVE  PageTypeOK'
  <2>1. switches' \in 0 .. MaxSwitches
    BY <1>1, <1>2, <1>6 DEF ShowHost
  <2> QED
    BY <1>1, <1>2, <1>6, <2>1, LogTypeStays, NewFetch, SentFetch
       DEF PageTypeOK, ShowHost, logVars, tableVars
<1>7. ASSUME NEW i \in DOMAIN fetches, Serve(i)
      PROVE  PageTypeOK'
  <2>1. PICK page \in NewestFirst(
               GetOperations(fetches[i].host, fetches[i].before, PageSize)) :
          fetches' = [fetches EXCEPT ![i].served = TRUE, ![i].ops = RowsOf(page)]
    BY <1>7 DEF Serve, RowsOf
  <2>2. PICK f : f = [fetches[i] EXCEPT !.served = TRUE, !.ops = RowsOf(page)]
    OBVIOUS
  <2>3. fetches' = [fetches EXCEPT ![i] = f]
    BY <2>1, <2>2
  <2>4. /\ f.ops = RowsOf(page) /\ f.host = fetches[i].host
        /\ f.before = fetches[i].before
    BY <2>2, FetchFields DEF Fetches
  <2>5. f.ops \in Seq(Rows)
    BY <1>1, <2>4, FetchFields, AnswerHolds
  <2>6. f \in Fetches
    BY <2>2, <2>4, <2>5, FetchFields DEF Fetches
  <2>7. fetches' \in Seq(Fetches) /\ Len(fetches') = Len(fetches)
    BY <1>1, <2>3, <2>6, ExceptSeq
  <2> QED
    BY <1>1, <1>7, <2>7, LogTypeStays DEF PageTypeOK, Serve, logVars, tableVars
<1>8. ASSUME NEW i \in DOMAIN fetches, LoadArrives(i)
      PROVE  PageTypeOK'
  <2>1. fetches[i].ops \in Seq(Rows)
    BY FetchFields
  <2> QED
    BY <1>1, <1>8, <2>1, LogTypeStays, EndsOfRows, RemovedFetch
       DEF PageTypeOK, LoadArrives, logVars
<1>9. ASSUME NEW i \in DOMAIN fetches, OlderArrives(i)
      PROVE  PageTypeOK'
  <2>1. fetches[i].ops \in Seq(Rows)
    BY FetchFields
  <2>2. rows \o fetches[i].ops \in Seq(Rows)
    BY <1>1, <2>1, ConcatProperties
  <2> QED
    BY <1>1, <1>9, <2>1, <2>2, LogTypeStays, EndsOfRows, RemovedFetch
       DEF PageTypeOK, OlderArrives, logVars
<1>10. ASSUME NEW i \in DOMAIN fetches, RefreshArrives(i)
       PROVE  PageTypeOK'
  <2> DEFINE ops == fetches[i].ops
             fresh == Fresh(ops)
             remaining == RemoveAt(fetches, i)
  <2>1. ops \in Seq(Rows) /\ Descends(ops)
    BY <1>10, FetchFields DEF RefreshArrives, FetchInv, FetchHolds, PageHolds
  <2>2. newestSeq \in Nat
    BY <1>1
  <2>3. fresh \in Seq(Rows)
    BY <2>1, <2>2, FreshIsTop
  <2>4. /\ UNCHANGED <<logVars, host, more, busy, overlapped, switches, failures>>
        /\ \/ fetches' = remaining /\ UNCHANGED <<rows, newestSeq, oldestSeq>>
           \/ /\ fetches' = Append(remaining, Fetch("load", host, 0))
              /\ UNCHANGED <<rows, newestSeq, oldestSeq>>
           \/ /\ rows' = fresh \o (IF newestSeq = 0 THEN <<>> ELSE rows)
              /\ newestSeq' = FirstSeq(fresh)
              /\ oldestSeq' = IF oldestSeq = 0 THEN LastSeq(fresh) ELSE oldestSeq
              /\ fetches' = remaining
    BY <1>10 DEF RefreshArrives
  <2> HIDE DEF fresh, ops
  <2>5. fresh \o rows \in Seq(Rows) /\ fresh \o <<>> \in Seq(Rows)
    BY <1>1, <2>3, ConcatProperties, EmptySeq
  <2>6. remaining \in Seq(Fetches) /\ Len(remaining) <= MaxInFlight
    BY RemovedFetch
  <2>7. /\ Append(remaining, Fetch("load", host, 0)) \in Seq(Fetches)
        /\ Len(Append(remaining, Fetch("load", host, 0))) <= MaxInFlight
    BY <1>1, <1>2, NewFetch, ReloadFetch
  <2>8. LogTypeOK'
    BY <1>1, <2>4, LogTypeStays DEF logVars
  <2> HIDE DEF remaining
  <2>9. fetches' \in Seq(Fetches) /\ Len(fetches') <= MaxInFlight
    BY <2>4, <2>6, <2>7
  <2>10. rows' \in Seq(Rows)
    BY <1>1, <2>4, <2>5
  <2>11. newestSeq' \in 0 .. MaxAppends /\ oldestSeq' \in 0 .. MaxAppends
    BY <1>1, <2>3, <2>4, EndsOfRows
  <2> QED
    BY <1>1, <2>4, <2>8, <2>9, <2>10, <2>11 DEF PageTypeOK
<1>11. ASSUME NEW i \in DOMAIN fetches, FetchFails(i)
       PROVE  PageTypeOK'
  <2>1. failures' \in 0 .. MaxFailures /\ busy' \in BOOLEAN
    BY <1>1, <1>2, <1>11 DEF FetchFails
  <2> QED
    BY <1>1, <1>11, <2>1, LogTypeStays, RemovedFetch
       DEF PageTypeOK, FetchFails, logVars, tableVars
<1>12. CASE UNCHANGED logAndPageVars
  BY <1>1, <1>12, LogTypeStays DEF PageTypeOK, logAndPageVars, pageVars, tableVars, logVars
<1> QED
  BY <1>3, <1>4, <1>5, <1>6, <1>7, <1>8, <1>9, <1>10, <1>11,
     <1>12 DEF PageNext, Arrives

-----------------------------------------------------------------------------
(***************************************************************************)
(* Fetches and cursors.                                                    *)
(***************************************************************************)

\* A fetch about to be sent asks for lines that were given out.
LEMMA NewFetchHolds ==
  ASSUME PageTypeOK, CursorInv, NEW kind \in Kinds, NEW h \in Hosts \cup {AllHosts},
         NEW before, before = 0 \/ (kind = "older" /\ before = oldestSeq),
         NEW f, f = Fetch(kind, h, before)
  PROVE  f \in Fetches /\ FetchHolds(f, seq, log)
<1>1. before \in 0 .. MaxAppends /\ before <= seq
  BY KeysAreNumbers, LogAssumption DEF PageTypeOK, CursorInv, LogAssumption
<1>2. /\ f \in Fetches /\ f.kind = kind /\ f.before = before /\ ~f.served
  BY <1>1, <<>> \in Seq(Rows) DEF Fetch, Fetches
<1> QED
  BY <1>1, <1>2 DEF FetchHolds

\* The lines of a page that has come are numbered up to the newest.
LEMMA ArrivedRows ==
  ASSUME PageTypeOK, FetchInv, NEW i \in DOMAIN fetches, fetches[i].served,
         NEW ops, ops = fetches[i].ops
  PROVE  /\ ops \in Seq(Rows) /\ Descends(ops) /\ PageHolds(fetches[i], seq, log)
         /\ FirstSeq(ops) <= seq /\ LastSeq(ops) <= seq
<1>1. ops \in Seq(Rows) /\ PageHolds(fetches[i], seq, log)
  BY FetchFields DEF FetchInv, FetchHolds
<1>2. \A n \in DOMAIN ops : ops[n].seq <= seq
  BY <1>1 DEF PageHolds
<1>3. 0 <= seq
  BY KeysAreNumbers DEF PageTypeOK
<1>4. FirstSeq(ops) <= seq /\ LastSeq(ops) <= seq
  BY <1>1, <1>2, <1>3, EndsOfRows DEF FirstSeq, LastSeq
<1> QED
  BY <1>1, <1>4 DEF PageHolds

\* Every step keeps what is on its way to the page a page of the log: lines may be
\* appended and trimmed since, but none is added within it.
LEMMA FetchesStay ==
  ASSUME PageTypeOK, FetchInv, CursorInv, [PageNext]_logAndPageVars
  PROVE  FetchInv' /\ CursorInv'
<1>1. ASSUME UNCHANGED logVars,
             \A j \in DOMAIN fetches' :
               \/ \E l \in DOMAIN fetches : fetches'[j] = fetches[l]
               \/ FetchHolds(fetches'[j], seq, log)
      PROVE  FetchInv'
  BY <1>1 DEF FetchInv, logVars
<1>2. ASSUME UNCHANGED <<seq, newestSeq, oldestSeq>>
      PROVE  CursorInv'
  BY <1>2 DEF CursorInv
<1>3. /\ {"load", "older", "refresh"} \subseteq Kinds
      /\ host \in Hosts \cup {AllHosts}
      /\ newestSeq \in Nat /\ oldestSeq \in Nat /\ seq \in Nat
  BY KeysAreNumbers, LogAssumption DEF PageTypeOK, Kinds, LogAssumption
<1>4. ASSUME NEW h \in Hosts, AppendOperation(h), UNCHANGED pageVars
      PROVE  FetchInv' /\ CursorInv'
  <2>1. ASSUME NEW i \in DOMAIN fetches
        PROVE  FetchHolds(fetches[i], seq', log')
    <3>1. PICK f : f = fetches[i]
      OBVIOUS
    <3>2. f.before \in Nat /\ f.ops \in Seq(Rows) /\ FetchHolds(f, seq, log)
      BY <3>1, FetchFields DEF FetchInv
    <3>3. FetchHolds(f, seq', log')
      BY <1>4, <3>2, AppendKeepsFetch DEF PageTypeOK
    <3> QED
      BY <3>1, <3>3
  <2>2. fetches' = fetches /\ newestSeq' = newestSeq /\ oldestSeq' = oldestSeq
        /\ seq' = seq + 1
    BY <1>4 DEF pageVars, tableVars, AppendOperation
  <2>3. FetchInv'
    BY <2>1, <2>2 DEF FetchInv
  <2> QED
    BY <1>3, <2>2, <2>3 DEF CursorInv
<1>5. CASE Refresh
  BY <1>1, <1>2, <1>3, <1>5, NewFetchHolds, SentFetch
     DEF Refresh, logVars, tableVars
<1>6. CASE LoadOlder
  BY <1>1, <1>2, <1>3, <1>6, NewFetchHolds, SentFetch
     DEF LoadOlder, logVars, tableVars
<1>7. ASSUME NEW h \in Hosts \cup {AllHosts}, ShowHost(h)
      PROVE  FetchInv' /\ CursorInv'
  BY <1>1, <1>2, <1>3, <1>7, NewFetchHolds, SentFetch
     DEF ShowHost, logVars, tableVars
<1>8. ASSUME NEW i \in DOMAIN fetches, Serve(i)
      PROVE  FetchInv' /\ CursorInv'
  <2>1. PICK page \in NewestFirst(
               GetOperations(fetches[i].host, fetches[i].before, PageSize)) :
          fetches' = [fetches EXCEPT ![i].served = TRUE, ![i].ops = RowsOf(page)]
    BY <1>8 DEF Serve, RowsOf
  <2>2. PICK f : f = [fetches[i] EXCEPT !.served = TRUE, !.ops = RowsOf(page)]
    OBVIOUS
  <2>3. fetches' = [fetches EXCEPT ![i] = f]
    BY <2>1, <2>2
  <2>4. /\ f.ops = RowsOf(page) /\ f.host = fetches[i].host
        /\ f.before = fetches[i].before /\ f.kind = fetches[i].kind
    BY <2>2, FetchFields DEF Fetches
  <2>5. PageHolds(f, seq, log)
    BY <2>4, FetchFields, AnswerHolds DEF PageTypeOK
  <2>6. FetchHolds(f, seq, log)
    BY <2>4, <2>5 DEF FetchInv, FetchHolds
  <2>7. \A j \in DOMAIN fetches' :
          fetches'[j] = f \/ \E l \in DOMAIN fetches : fetches'[j] = fetches[l]
    BY <2>3
  <2> QED
    BY <1>1, <1>2, <1>8, <2>6, <2>7 DEF Serve, logVars, tableVars
<1>9. ASSUME NEW i \in DOMAIN fetches, LoadArrives(i)
      PROVE  FetchInv' /\ CursorInv'
  <2>1. CursorInv'
    BY <1>9, ArrivedRows DEF LoadArrives, CursorInv, logVars
  <2> QED
    BY <1>1, <1>9, <2>1, RemovedFetch DEF LoadArrives
<1>10. ASSUME NEW i \in DOMAIN fetches, OlderArrives(i)
       PROVE  FetchInv' /\ CursorInv'
  <2>1. CursorInv'
    BY <1>10, ArrivedRows DEF OlderArrives, CursorInv, logVars
  <2> QED
    BY <1>1, <1>10, <2>1, RemovedFetch DEF OlderArrives
<1>11. ASSUME NEW i \in DOMAIN fetches, RefreshArrives(i)
       PROVE  FetchInv' /\ CursorInv'
  <2>1. PICK ops : ops = fetches[i].ops
    OBVIOUS
  <2>2. ops \in Seq(Rows) /\ Descends(ops) /\ PageHolds(fetches[i], seq, log)
    BY <1>11, <2>1, ArrivedRows DEF RefreshArrives
  <2>3. PICK fresh : fresh = Fresh(ops)
    OBVIOUS
  <2>4. PICK top \in 0 .. Len(ops) :
          /\ fresh \in Seq(Rows) /\ Len(fresh) = top
          /\ \A n \in 1 .. top : fresh[n] = ops[n]
    BY <1>3, <2>2, <2>3, FreshIsTop
  <2>5. FirstSeq(fresh) <= seq /\ LastSeq(fresh) <= seq
    <3>1. Len(ops) \in Nat /\ DOMAIN ops = 1 .. Len(ops) /\ DOMAIN fresh = 1 .. top
      BY <2>2, <2>4, LenProperties
    <3>2. \A n \in DOMAIN fresh : fresh[n].seq <= seq
      BY <2>1, <2>2, <2>4, <3>1 DEF PageHolds
    <3> QED
      BY <1>3, <2>4, <3>2, EndsOfRows DEF FirstSeq, LastSeq
  <2>6. /\ UNCHANGED logVars
        /\ \/ fetches' = RemoveAt(fetches, i)
           \/ fetches' = Append(RemoveAt(fetches, i), Fetch("load", host, 0))
        /\ newestSeq' \in {newestSeq, FirstSeq(fresh)}
        /\ oldestSeq' \in {oldestSeq, LastSeq(fresh)}
    BY <1>11, <2>1, <2>3 DEF RefreshArrives
  <2>7. CursorInv'
    BY <2>5, <2>6 DEF CursorInv, logVars
  <2>8. \A j \in DOMAIN fetches' :
          \/ \E l \in DOMAIN fetches : fetches'[j] = fetches[l]
          \/ FetchHolds(fetches'[j], seq, log)
    <3>1. CASE fetches' = RemoveAt(fetches, i)
      BY <3>1, RemovedFetch
    <3>2. CASE fetches' = Append(RemoveAt(fetches, i), Fetch("load", host, 0))
      <4>1. PICK f : f = Fetch("load", host, 0)
        OBVIOUS
      <4>2. f \in Fetches /\ FetchHolds(f, seq, log)
        BY <1>3, <4>1, NewFetchHolds
      <4> QED
        BY <3>2, <4>1, <4>2, ReloadFetch
    <3> QED
      BY <2>6, <3>1, <3>2
  <2> QED
    BY <1>1, <2>6, <2>7, <2>8
<1>12. ASSUME NEW i \in DOMAIN fetches, FetchFails(i)
       PROVE  FetchInv' /\ CursorInv'
  BY <1>1, <1>2, <1>12, RemovedFetch DEF FetchFails, logVars, tableVars
<1>13. CASE UNCHANGED logAndPageVars
  BY <1>1, <1>2, <1>13 DEF logAndPageVars, pageVars, tableVars, logVars
<1> QED
  BY <1>4, <1>5, <1>6, <1>7, <1>8, <1>9, <1>10, <1>11, <1>12, <1>13
     DEF PageNext, LogNext, Arrives

-----------------------------------------------------------------------------
(***************************************************************************)
(* The table.                                                              *)
(***************************************************************************)

\* Rows that follow rows, all of them older.
LEMMA JoinedRows ==
  ASSUME NEW s \in Seq(Rows), NEW t \in Seq(Rows), Descends(s), Descends(t),
         \A m \in DOMAIN s : \A n \in DOMAIN t : s[m].seq > t[n].seq
  PROVE  /\ s \o t \in Seq(Rows) /\ Descends(s \o t)
         /\ Seqs(s \o t) = Seqs(s) \cup Seqs(t)
         /\ \A k \in DOMAIN (s \o t) :
              (\E m \in DOMAIN s : (s \o t)[k] = s[m])
              \/ (\E n \in DOMAIN t : (s \o t)[k] = t[n])
         /\ s # <<>> => s \o t # <<>> /\ (s \o t)[1] = s[1]
         /\ t # <<>> => s \o t # <<>> /\ Last(s \o t) = Last(t)
         /\ t = <<>> => s \o t = s
         /\ s = <<>> => s \o t = t
<1> PICK both : both = s \o t
  OBVIOUS
<1> DEFINE a == Len(s)
           b == Len(t)
<1>1. /\ a \in Nat /\ b \in Nat
      /\ DOMAIN s = 1 .. a /\ DOMAIN t = 1 .. b
      /\ (s = <<>> <=> a = 0) /\ (t = <<>> <=> b = 0)
  BY EmptySeq, LenProperties
<1>2. /\ both \in Seq(Rows) /\ Len(both) = a + b
      /\ \A k \in 1 .. a + b : both[k] = IF k <= a THEN s[k] ELSE t[k - a]
  BY ConcatProperties
<1>3. DOMAIN both = 1 .. a + b
  BY <1>2, LenProperties
<1> HIDE DEF a, b
<1>4. \A k \in 1 .. a : both[k] = s[k] /\ k \in DOMAIN both
  BY <1>1, <1>2, <1>3
<1>5. \A n \in 1 .. b : both[a + n] = t[n] /\ a + n \in DOMAIN both
  <2>1. ASSUME NEW n \in 1 .. b
        PROVE  a + n \in 1 .. a + b /\ ~ (a + n <= a) /\ (a + n) - a = n
    BY <1>1
  <2> QED
    BY <1>2, <1>3, <2>1
<1>6. \A k \in DOMAIN both :
        \/ k \in 1 .. a
        \/ k - a \in 1 .. b /\ both[k] = t[k - a] /\ ~ (k <= a)
  BY <1>1, <1>2, <1>3
<1>7. Descends(both)
  <2>1. SUFFICES ASSUME NEW m \in DOMAIN both, NEW n \in DOMAIN both, m < n
                 PROVE  both[m].seq > both[n].seq
    BY DEF Descends
  <2>2. CASE m \in 1 .. a /\ n \in 1 .. a
    BY <1>1, <1>4, <2>1, <2>2 DEF Descends
  <2>3. CASE m \in 1 .. a /\ n \notin 1 .. a
    BY <1>1, <1>4, <1>6, <2>3
  <2>4. CASE m \notin 1 .. a
    <3>1. m \in Nat /\ n \in Nat /\ ~ (m <= a) /\ ~ (n <= a)
      BY <1>1, <1>3, <2>1, <2>4
    <3>2. /\ m - a \in 1 .. b /\ both[m] = t[m - a]
          /\ n - a \in 1 .. b /\ both[n] = t[n - a]
      BY <1>6, <3>1
    <3>3. m - a < n - a
      BY <1>1, <2>1, <3>1
    <3> QED
      BY <1>1, <3>2, <3>3 DEF Descends
  <2> QED
    BY <2>2, <2>3, <2>4
<1>8. Seqs(both) = Seqs(s) \cup Seqs(t)
  <2>1. ASSUME NEW k \in Seqs(both)
        PROVE  k \in Seqs(s) \cup Seqs(t)
    <3>1. PICK n \in DOMAIN both : k = both[n].seq
      BY <2>1 DEF Seqs
    <3>2. CASE n \in 1 .. a
      BY <1>1, <1>4, <3>1, <3>2 DEF Seqs
    <3>3. CASE n - a \in 1 .. b /\ both[n] = t[n - a]
      BY <1>1, <3>1, <3>3 DEF Seqs
    <3> QED
      BY <1>6, <3>2, <3>3
  <2>2. ASSUME NEW n \in DOMAIN s
        PROVE  s[n].seq \in Seqs(both)
    BY <1>1, <1>4, <2>2 DEF Seqs
  <2>3. ASSUME NEW n \in DOMAIN t
        PROVE  t[n].seq \in Seqs(both)
    BY <1>1, <1>5, <2>3 DEF Seqs
  <2> QED
    BY <2>1, <2>2, <2>3 DEF Seqs
<1>9. s # <<>> => both # <<>> /\ both[1] = s[1]
  <2>1. a # 0 => 1 \in 1 .. a
    BY <1>1
  <2> QED
    BY <1>1, <1>4, <1>2, <2>1, EmptySeq
<1>10. t # <<>> => both # <<>> /\ Last(both) = Last(t)
  <2>1. b # 0 => b \in 1 .. b
    BY <1>1
  <2>2. Last(both) = both[a + b] /\ Last(t) = t[b]
    BY <1>2 DEF Last, b
  <2> QED
    BY <1>1, <1>5, <1>2, <2>1, <2>2, EmptySeq
<1>11. (t = <<>> => both = s) /\ (s = <<>> => both = t)
  BY ConcatEmptySeq
<1> QED
  BY <1>1, <1>2, <1>4, <1>6, <1>7, <1>8, <1>9, <1>10, <1>11

\* What TableInv says of the rows, for a choice of host.
RowsHold(table, newest, oldest, h, settled) ==
  /\ Descends(table)
  /\ newest = FirstSeq(table) /\ oldest = LastSeq(table)
  /\ settled =>
       /\ \A n \in DOMAIN table : h = AllHosts \/ table[n].host = h
       /\ table # <<>> =>
            \A k \in Keys :
              Concerns(k, h) /\ Last(table).seq <= k /\ k <= table[1].seq
              => k \in Seqs(table)

\* A page becomes the table: load.
LEMMA LoadedRows ==
  ASSUME NEW f, f.ops \in Seq(Rows), PageHolds(f, seq, log), f.before = 0
  PROVE  RowsHold(f.ops, FirstSeq(f.ops), LastSeq(f.ops), f.host, TRUE)
BY DEF RowsHold, PageHolds, Keys, Concerns

\* A page goes below the table: "Show older".
LEMMA OlderRows ==
  ASSUME LogTypeOK, NEW f, f.ops \in Seq(Rows), PageHolds(f, seq, log),
         NEW table \in Seq(Rows), table # <<>>, NEW newest, NEW oldest,
         RowsHold(table, newest, oldest, f.host, TRUE), f.before = oldest
  PROVE  RowsHold(table \o f.ops, newest,
                  IF f.ops = <<>> THEN oldest ELSE LastSeq(f.ops), f.host, TRUE)
<1> DEFINE ops == f.ops
           both == table \o ops
<1>1. /\ \A n \in DOMAIN table : table[n].seq \in Nat /\ 1 <= table[n].seq
      /\ Len(table) \in Nat /\ 1 \in DOMAIN table /\ Len(table) \in DOMAIN table
      /\ Last(table) = table[Len(table)] /\ DOMAIN table = 1 .. Len(table)
  BY EndsOfRows, LenProperties
<1>2. \A n \in DOMAIN ops : ops[n].seq \in Nat
  BY EndsOfRows
<1>3. f.before = Last(table).seq /\ f.before # 0
  BY <1>1 DEF RowsHold, LastSeq
<1>4. \A n \in DOMAIN table : table[n].seq >= f.before
  <2>1. ASSUME NEW n \in DOMAIN table
        PROVE  table[n].seq >= f.before
    <3>1. n = Len(table) \/ n < Len(table)
      BY <1>1
    <3> QED
      BY <1>1, <1>3, <3>1 DEF RowsHold, Descends
  <2> QED
    BY <2>1
<1>5. \A n \in DOMAIN ops : ops[n].seq < f.before
  BY <1>3 DEF PageHolds
<1>6. \A m \in DOMAIN table : \A n \in DOMAIN ops : table[m].seq > ops[n].seq
  <2>1. f.before \in Nat
    BY <1>1, <1>3
  <2> QED
    BY <1>1, <1>2, <1>4, <1>5, <2>1
<1>7. /\ both \in Seq(Rows) /\ Descends(both)
      /\ Seqs(both) = Seqs(table) \cup Seqs(ops)
      /\ \A k \in DOMAIN both :
           (\E m \in DOMAIN table : both[k] = table[m])
           \/ (\E n \in DOMAIN ops : both[k] = ops[n])
      /\ both # <<>> /\ both[1] = table[1]
      /\ ops # <<>> => Last(both) = Last(ops)
      /\ ops = <<>> => both = table
  <2>1. Descends(table) /\ Descends(ops) /\ ops \in Seq(Rows)
    BY DEF RowsHold, PageHolds
  <2> HIDE DEF ops
  <2> QED
    BY <1>6, <2>1, JoinedRows
<1> HIDE DEF both
<1>8. CASE ops = <<>>
  BY <1>7, <1>8 DEF both
<1>9. CASE ops # <<>>
  <2>1. newest = FirstSeq(both) /\ LastSeq(ops) = LastSeq(both)
    BY <1>7, <1>9 DEF RowsHold, FirstSeq, LastSeq
  <2>2. \A n \in DOMAIN both : f.host = AllHosts \/ both[n].host = f.host
    BY <1>7 DEF RowsHold, PageHolds
  <2>3. ASSUME NEW k \in Keys, Concerns(k, f.host),
               Last(both).seq <= k, k <= both[1].seq
        PROVE  k \in Seqs(both)
    <3>1. CASE Last(table).seq <= k
      BY <1>7, <2>3, <3>1 DEF RowsHold
    <3>2. CASE k < f.before
      BY <1>3, <1>7, <1>9, <2>3, <3>2 DEF PageHolds, Keys, Concerns
    <3>3. f.before \in Nat /\ k \in Nat
      <4>1. f.before \in Nat
        BY <1>1, <1>3
      <4> QED
        BY <4>1, <2>3, KeysAreNumbers
    <3> QED
      BY <1>3, <3>1, <3>2, <3>3
  <2> QED
    BY <1>7, <1>9, <2>1, <2>2, <2>3 DEF RowsHold, both
<1> QED
  BY <1>8, <1>9 DEF both

\* What is new of a page goes on top of the table: refresh.
LEMMA FresherRows ==
  ASSUME LogTypeOK, NEW f, f.ops \in Seq(Rows), PageHolds(f, seq, log),
         f.before = 0, rows \in Seq(Rows), newestSeq \in Nat,
         RowsHold(rows, newestSeq, oldestSeq, f.host, TRUE),
         NEW fresh, fresh = Fresh(f.ops), fresh # <<>>, ~Burst(f.ops)
  PROVE  /\ newestSeq = 0 =>
              /\ oldestSeq = 0 /\ fresh \in Seq(Rows)
              /\ RowsHold(fresh, FirstSeq(fresh), LastSeq(fresh), f.host, TRUE)
         /\ newestSeq # 0 =>
              /\ oldestSeq # 0 /\ fresh \o rows # <<>>
              /\ RowsHold(fresh \o rows, FirstSeq(fresh), oldestSeq, f.host, TRUE)
<1>1. PICK ops : ops = f.ops
  OBVIOUS
<1>2. ops \in Seq(Rows) /\ Descends(ops)
  BY <1>1 DEF PageHolds
<1>3. PICK top \in 0 .. Len(ops) :
        /\ fresh \in Seq(Rows) /\ Len(fresh) = top
        /\ \A n \in 1 .. top : fresh[n] = ops[n]
        /\ \A n \in DOMAIN ops : ops[n].seq > newestSeq <=> n <= top
  BY <1>1, <1>2, FreshIsTop
<1>4. /\ Len(ops) \in Nat /\ DOMAIN ops = 1 .. Len(ops)
      /\ DOMAIN fresh = 1 .. top /\ top # 0 /\ 1 \in 1 .. top
      /\ \A n \in 1 .. top : n \in DOMAIN ops
  BY <1>2, <1>3, EmptySeq, LenProperties
<1>11. top \in Nat /\ Len(ops) \in Nat /\ top <= Len(ops)
  <2>1. Len(ops) \in Nat /\ top \in 0 .. Len(ops)
    BY <1>2, LenProperties
  <2> QED
    BY <2>1
<1>5. Descends(fresh)
  BY <1>2, <1>3, <1>4 DEF Descends
<1>6. \A n \in DOMAIN ops : ops[n].seq \in Nat /\ 1 <= ops[n].seq
  BY <1>2, EndsOfRows
<1>7. /\ fresh[1] = ops[1]
      /\ \A n \in DOMAIN fresh : f.host = AllHosts \/ fresh[n].host = f.host
  BY <1>1, <1>3, <1>4 DEF PageHolds
<1>8. \A k \in Seqs(ops) : k > newestSeq => k \in Seqs(fresh)
  BY <1>3, <1>4 DEF Seqs
<1>9. CASE newestSeq = 0
  <2>1. rows = <<>> /\ oldestSeq = 0
    <3>1. rows = <<>>
      BY <1>9, EndsOfRows DEF RowsHold, FirstSeq
    <3> QED
      BY <3>1 DEF RowsHold, LastSeq
  <2>3. top = Len(ops)
    <3>1. CASE ops = <<>>
      BY <1>3, <1>4, <3>1
    <3>2. CASE ops # <<>>
      <4>1. Len(ops) \in DOMAIN ops
        BY <1>2, <3>2, EndsOfRows
      <4>2. ops[Len(ops)].seq > 0
        BY <1>6, <4>1
      <4> QED
        <5>1. Len(ops) <= top
          BY <1>3, <1>9, <4>1, <4>2
        <5> QED
          BY <1>11, <5>1
    <3> QED
      BY <3>1, <3>2
  <2>4. fresh = ops
    BY <1>2, <1>3, <2>3, SeqEqual
  <2>5. RowsHold(f.ops, FirstSeq(f.ops), LastSeq(f.ops), f.host, TRUE)
    BY LoadedRows
  <2> QED
    BY <1>1, <1>3, <1>9, <2>1, <2>4, <2>5
<1>10. CASE newestSeq # 0
  <2> DEFINE table == fresh \o rows
  <2>1. rows # <<>> /\ newestSeq = rows[1].seq
    BY <1>10 DEF RowsHold, FirstSeq
  <2>2. /\ \A n \in DOMAIN rows : rows[n].seq \in Nat /\ 1 <= rows[n].seq
        /\ 1 \in DOMAIN rows /\ Len(rows) \in DOMAIN rows
        /\ Last(rows) = rows[Len(rows)]
        /\ DOMAIN rows = 1 .. Len(rows) /\ Len(rows) \in Nat
    BY <2>1, EndsOfRows, LenProperties
  <2>3. oldestSeq = Last(rows).seq /\ oldestSeq # 0
    BY <2>1, <2>2 DEF RowsHold, LastSeq
  <2>4. \A n \in DOMAIN rows : rows[n].seq <= newestSeq
    <3>1. ASSUME NEW n \in DOMAIN rows
          PROVE  rows[n].seq <= newestSeq
      <4>1. n = 1 \/ 1 < n
        BY <2>2
      <4> QED
        BY <2>1, <2>2, <4>1 DEF RowsHold, Descends
    <3> QED
      BY <3>1
  <2>5. \A m \in DOMAIN fresh : \A n \in DOMAIN rows : fresh[m].seq > rows[n].seq
    BY <1>3, <1>4, <1>6, <2>2, <2>4
  <2>6. Descends(rows)
    BY DEF RowsHold
  <2>7. /\ Descends(table)
        /\ Seqs(table) = Seqs(fresh) \cup Seqs(rows)
        /\ \A k \in DOMAIN table :
             (\E m \in DOMAIN fresh : table[k] = fresh[m])
             \/ (\E n \in DOMAIN rows : table[k] = rows[n])
        /\ table # <<>> /\ table[1] = fresh[1] /\ Last(table) = Last(rows)
    <3>1. /\ fresh \in Seq(Rows) /\ rows \in Seq(Rows)
          /\ Descends(fresh) /\ Descends(rows) /\ rows # <<>> /\ fresh # <<>>
      BY <1>3, <1>5, <2>1, <2>6
    <3> QED
      <4>1. Descends(fresh \o rows)
        BY <2>5, <3>1, JoinedRows
      <4>2. Seqs(fresh \o rows) = Seqs(fresh) \cup Seqs(rows)
        BY <2>5, <3>1, JoinedRows
      <4>3. \A k \in DOMAIN (fresh \o rows) :
             (\E m \in DOMAIN fresh : (fresh \o rows)[k] = fresh[m])
             \/ (\E n \in DOMAIN rows : (fresh \o rows)[k] = rows[n])
        BY <2>5, <3>1, JoinedRows
      <4>4. fresh \o rows # <<>> /\ (fresh \o rows)[1] = fresh[1]
        BY <2>5, <3>1, JoinedRows
      <4>5. Last(fresh \o rows) = Last(rows)
        BY <2>5, <3>1, JoinedRows
      <4> QED
        BY <4>1, <4>2, <4>3, <4>4, <4>5
  <2> HIDE DEF table
  <2>8. ops # <<>> /\ Last(ops).seq \in Nat /\ Last(ops).seq <= newestSeq
    <3>1. Fresh(f.ops) # f.ops
      BY <1>10 DEF Burst
    <3>2. top # Len(ops)
      <4>1. top = Len(ops) => fresh = ops
        BY <1>2, <1>3, SeqEqual
      <4> QED
        BY <1>1, <3>1, <4>1
    <3>3. Len(ops) \in DOMAIN ops /\ ~ (Len(ops) <= top)
      <4>1. Len(ops) # 0
        BY <1>11, <3>2
      <4>2. Len(ops) \in DOMAIN ops
        BY <1>4, <4>1
      <4>3. ~ (Len(ops) <= top)
        BY <1>11, <3>2
      <4> QED
        BY <4>2, <4>3
    <3>4. Last(ops) = ops[Len(ops)]
      BY DEF Last
    <3> QED
      BY <1>2, <1>3, <1>6, <3>3, <3>4, EmptySeq
  <2>9. ASSUME NEW k \in Keys, Concerns(k, f.host),
               Last(table).seq <= k, k <= table[1].seq
        PROVE  k \in Seqs(table)
    <3>1. k \in Nat
      BY <2>9, KeysAreNumbers
    <3>2. CASE k <= newestSeq
      <4>1. k \in Seqs(rows)
        BY <2>1, <2>7, <2>9, <3>2 DEF RowsHold
      <4> QED
        BY <2>7, <4>1
    <3>3. CASE k > newestSeq
      <4>1. Last(ops).seq <= k /\ k <= ops[1].seq
        <5>1. newestSeq \in Nat /\ Last(ops).seq <= k
          BY <2>8, <3>1, <3>3
        <5>2. k <= ops[1].seq
          BY <1>7, <2>7, <2>9
        <5> QED
          BY <5>1, <5>2
      <4>2. k \in Seqs(ops)
        BY <1>1, <2>8, <2>9, <4>1 DEF PageHolds, Keys, Concerns
      <4> QED
        BY <1>8, <2>7, <3>3, <4>2
    <3> QED
      BY <3>1, <3>2, <3>3
  <2>10. ASSUME NEW k \in DOMAIN table
         PROVE  f.host = AllHosts \/ table[k].host = f.host
    <3>1. \A n \in DOMAIN rows : f.host = AllHosts \/ rows[n].host = f.host
      BY DEF RowsHold
    <3>2. CASE \E m \in DOMAIN fresh : table[k] = fresh[m]
      BY <1>7, <3>2
    <3>3. CASE \E n \in DOMAIN rows : table[k] = rows[n]
      BY <3>1, <3>3
    <3> QED
      BY <2>7, <3>2, <3>3
  <2>11. FirstSeq(fresh) = FirstSeq(table) /\ oldestSeq = LastSeq(table)
    BY <2>3, <2>7 DEF FirstSeq, LastSeq
  <2> QED
    BY <1>10, <2>3, <2>7, <2>9, <2>10, <2>11 DEF RowsHold, table
<1> QED
  BY <1>9, <1>10

\* What a fetch that is under way is like while none overlaps another.
FetchFits(f, h, oldest, table) ==
  /\ f.host = h
  /\ f.kind = "older" => f.before = oldest /\ table # <<>>

\* The invariant of the table, said of its rows.
LEMMA TableRows ==
  TableInv <=>
    /\ Len(fetches) <= 1
    /\ RowsHold(rows, newestSeq, oldestSeq, host, Settled)
    /\ more => rows # <<>>
    /\ \A i \in DOMAIN fetches : FetchFits(fetches[i], host, oldestSeq, rows)
BY DEF TableInv, RowsHold, RowsDescend, CursorsMatchRows, NoGaps,
       RowsAreOfTheHost, Shown, Seqs, Descends, FetchFits

\* As long as the log is as it was, so is what the rows are measured by.
LEMMA RowsMakeTable ==
  ASSUME UNCHANGED logVars,
         Len(fetches') <= 1,
         RowsHold(rows', newestSeq', oldestSeq', host', Settled'),
         more' => rows' # <<>>,
         \A i \in DOMAIN fetches' : FetchFits(fetches'[i], host', oldestSeq', rows')
  PROVE  TableInv'
<1>1. Keys' = Keys /\ log' = log
  BY DEF logVars, Keys
<1> QED
  BY <1>1 DEF RowsHold, TableInv, RowsDescend, CursorsMatchRows, NoGaps, Concerns,
              RowsAreOfTheHost, Shown, Seqs, Descends, FetchFits

\* While fetches neither overlap nor fail, every step keeps the table right.
LEMMA TableStays ==
  ASSUME PageTypeOK, FetchInv, CursorInv, TableInv, Orderly, Orderly',
         [PageNext]_logAndPageVars
  PROVE  TableInv'
<1>1. /\ Len(fetches) <= 1 /\ Len(fetches) \in Nat
      /\ DOMAIN fetches = 1 .. Len(fetches)
      /\ RowsHold(rows, newestSeq, oldestSeq, host, Settled)
      /\ more => rows # <<>>
      /\ \A i \in DOMAIN fetches : FetchFits(fetches[i], host, oldestSeq, rows)
  BY TableRows, LenProperties DEF PageTypeOK
<1>2. /\ Settled \in BOOLEAN /\ ~overlapped' /\ failures = 0 /\ failures' = 0
      /\ {"load", "older", "refresh"} \subseteq Kinds
      /\ host \in Hosts \cup {AllHosts}
      /\ newestSeq \in Nat /\ oldestSeq \in Nat /\ rows \in Seq(Rows)
      /\ 0 \in 0 .. MaxAppends /\ oldestSeq \in 0 .. MaxAppends /\ LogTypeOK
  BY LogAssumption DEF Settled, Orderly, Kinds, PageTypeOK, LogAssumption
<1>3. ASSUME NEW i \in DOMAIN fetches
      PROVE  Len(fetches) = 1 /\ i = 1 /\ DOMAIN fetches = {1}
  BY <1>1
<1>4. ASSUME NEW i \in DOMAIN fetches, fetches' = RemoveAt(fetches, i)
      PROVE  Len(fetches') = 0 /\ DOMAIN fetches' = {}
  <2>1. PICK remaining : remaining = RemoveAt(fetches, i)
    OBVIOUS
  <2>2. remaining \in Seq(Fetches) /\ Len(remaining) = Len(fetches) - 1
    BY <2>1, RemovedFetch
  <2>3. Len(remaining) = 0
    BY <1>3, <2>2
  <2>4. DOMAIN remaining = {}
    BY <2>2, <2>3, LenProperties
  <2> QED
    BY <1>4, <2>1, <2>3, <2>4
\* A fetch sent: none was under way.
<1>5. ASSUME NEW kind \in Kinds, NEW h \in Hosts \cup {AllHosts},
             NEW before \in 0 .. MaxAppends, CanFetch, Send(Fetch(kind, h, before))
      PROVE  /\ Len(fetches') = 1 /\ DOMAIN fetches' = {1} /\ Settled
             /\ fetches'[1].kind = kind /\ fetches'[1].host = h
             /\ fetches'[1].before = before
  <2>1. PICK f : f = Fetch(kind, h, before)
    OBVIOUS
  <2>2. f \in Fetches /\ f.kind = kind /\ f.host = h /\ f.before = before
    BY <2>1, <<>> \in Seq(Rows) DEF Fetch, Fetches
  <2>3. /\ fetches' \in Seq(Fetches) /\ Len(fetches') = Len(fetches) + 1
        /\ overlapped' = (overlapped \/ Len(fetches) # 0)
        /\ \A j \in DOMAIN fetches' :
             fetches'[j] = f \/ \E l \in DOMAIN fetches : fetches'[j] = fetches[l]
    BY <1>5, <2>1, <2>2, SentFetch
  <2>4. Len(fetches) = 0 /\ DOMAIN fetches = {}
    <3>1. ~(Len(fetches) # 0)
      BY <1>2, <2>3
    <3> QED
      BY <1>1, <3>1
  <2>5. Len(fetches') = 1 /\ DOMAIN fetches' = {1} /\ fetches'[1] = f
    BY <2>3, <2>4, LenProperties
  <2> QED
    BY <2>2, <2>4, <2>5 DEF Settled
<1>6. ASSUME NEW h \in Hosts, AppendOperation(h), UNCHANGED pageVars
      PROVE  TableInv'
  <2>1. /\ UNCHANGED <<host, rows, newestSeq, oldestSeq, more, fetches>>
        /\ Settled' = Settled
    BY <1>6 DEF pageVars, tableVars, Settled
  <2>2. /\ seq \in Nat
        /\ \A k \in Keys' : k \in Keys \/ k = seq + 1
        /\ \A k \in Keys' \cap Keys : log'[k] = log[k]
    <3>1. seq \in Nat /\ \A k \in Keys : k <= seq /\ k \in Nat
      BY <1>2, KeysAreNumbers
    <3>2. \A k \in Keys' : k \in Keys \/ k = seq + 1
      BY <1>6 DEF AppendOperation, Keys
    <3>3. \A k \in Keys' : log'[k] = IF k = seq + 1 THEN h ELSE log[k]
      BY <1>6 DEF AppendOperation, Keys
    <3> QED
      BY <3>1, <3>2, <3>3
  <2>3. NoGaps'
    <3>1. SUFFICES ASSUME Settled, rows # <<>>, NEW k \in Keys', Concerns(k, host)',
                          Last(rows).seq <= k, k <= rows[1].seq
                   PROVE  k \in Shown
      BY <2>1 DEF NoGaps, Shown
    <3>2. rows[1].seq = newestSeq
      BY <1>1, <3>1 DEF RowsHold, FirstSeq
    <3>3. k # seq + 1
      BY <1>2, <2>2, <3>1, <3>2 DEF CursorInv
    <3>4. k \in Keys /\ Concerns(k, host)
      BY <2>1, <2>2, <3>1, <3>3 DEF Concerns
    <3> QED
      BY <3>1, <3>4 DEF TableInv, NoGaps
  <2> QED
    BY <2>1, <2>3 DEF TableInv, RowsDescend, CursorsMatchRows, RowsAreOfTheHost
<1>7. CASE Refresh
  <2>1. /\ UNCHANGED <<logVars, host, rows, newestSeq, oldestSeq, more>>
        /\ Len(fetches') = 1 /\ DOMAIN fetches' = {1} /\ Settled
        /\ fetches'[1].kind = "refresh" /\ fetches'[1].host = host
    BY <1>2, <1>5, <1>7 DEF Refresh, tableVars
  <2>2. Settled'
    BY <2>1 DEF Settled
  <2> QED
    BY <1>1, <2>1, <2>2, RowsMakeTable DEF FetchFits
<1>8. CASE LoadOlder
  <2>1. /\ UNCHANGED <<logVars, host, rows, newestSeq, oldestSeq, more>> /\ more
        /\ Len(fetches') = 1 /\ DOMAIN fetches' = {1} /\ Settled
        /\ fetches'[1].kind = "older" /\ fetches'[1].host = host
        /\ fetches'[1].before = oldestSeq
    BY <1>2, <1>5, <1>8 DEF LoadOlder, tableVars
  <2>2. Settled'
    BY <2>1 DEF Settled
  <2> QED
    BY <1>1, <2>1, <2>2, RowsMakeTable DEF FetchFits
<1>9. ASSUME NEW h \in Hosts \cup {AllHosts}, ShowHost(h)
      PROVE  TableInv'
  <2>1. /\ UNCHANGED <<logVars, rows, newestSeq, oldestSeq, more>> /\ host' = h
        /\ Len(fetches') = 1 /\ DOMAIN fetches' = {1}
        /\ fetches'[1].kind = "load" /\ fetches'[1].host = h
    BY <1>2, <1>5, <1>9 DEF ShowHost, tableVars
  <2>2. ~Settled'
    BY <2>1 DEF Settled
  <2>3. RowsHold(rows, newestSeq, oldestSeq, h, FALSE)
    BY <1>1 DEF RowsHold
  <2>4. RowsHold(rows', newestSeq', oldestSeq', host', Settled')
    <3>1. Settled' = FALSE
      BY <2>2
    <3> QED
      BY <2>1, <2>3, <3>1
  <2>5. \A i \in DOMAIN fetches' : FetchFits(fetches'[i], host', oldestSeq', rows')
    BY <2>1 DEF FetchFits
  <2>6. Len(fetches') <= 1 /\ (more' => rows' # <<>>)
    BY <1>1, <2>1
  <2> QED
    BY <2>1, <2>4, <2>5, <2>6, RowsMakeTable
<1>10. ASSUME NEW i \in DOMAIN fetches, Serve(i)
       PROVE  TableInv'
  <2>1. PICK page : fetches' = [fetches EXCEPT ![i].served = TRUE,
                                               ![i].ops = RowsOf(page)]
    BY <1>10 DEF Serve, RowsOf
  <2>2. UNCHANGED <<logVars, host, rows, newestSeq, oldestSeq, more>>
    BY <1>10 DEF Serve, tableVars
  <2>3. PICK f : f = [fetches[i] EXCEPT !.served = TRUE, !.ops = RowsOf(page)]
    OBVIOUS
  <2>4. fetches' = [fetches EXCEPT ![i] = f]
    BY <2>1, <2>3
  <2>5. /\ f.host = fetches[i].host /\ f.kind = fetches[i].kind
        /\ f.before = fetches[i].before
    BY <2>3, FetchFields DEF Fetches
  <2>6. DOMAIN fetches = {1} /\ DOMAIN fetches' = {1} /\ fetches'[1] = f /\ i = 1
    BY <1>3, <2>4
  <2>7. f \in Fetches /\ fetches' \in Seq(Fetches)
    <3>1. fetches' \in Seq(Fetches)
      BY TypesStay DEF PageTypeOK
    <3>2. 1 \in 1 .. Len(fetches')
      BY <2>6, <3>1, LenProperties
    <3> QED
      BY <2>6, <3>1, <3>2, ElementOfSeq
  <2>8. Len(fetches') <= 1
    BY <2>6, <2>7, LenProperties
  <2>9. Settled' = Settled
    BY <2>5, <2>6 DEF Settled
  <2>10. FetchFits(f, host, oldestSeq, rows)
    BY <1>1, <2>5, <2>6 DEF FetchFits
  <2> QED
    BY <1>1, <2>2, <2>6, <2>8, <2>9, <2>10, RowsMakeTable
<1>11. ASSUME NEW i \in DOMAIN fetches, LoadArrives(i)
       PROVE  TableInv'
  <2>1. PICK f : f = fetches[i]
    OBVIOUS
  <2>2. /\ UNCHANGED <<logVars, host>> /\ fetches' = RemoveAt(fetches, i)
        /\ rows' = f.ops /\ newestSeq' = FirstSeq(f.ops)
        /\ oldestSeq' = LastSeq(f.ops) /\ more' = (Len(f.ops) = PageSize)
        /\ f.kind = "load" /\ f.served
    BY <1>11, <2>1 DEF LoadArrives
  <2>3. f.ops \in Seq(Rows) /\ PageHolds(f, seq, log) /\ f.before = 0
    BY <2>1, <2>2, ArrivedRows DEF FetchInv, FetchHolds
  <2>4. RowsHold(f.ops, FirstSeq(f.ops), LastSeq(f.ops), host, TRUE)
    BY <1>1, <2>1, <2>3, LoadedRows DEF FetchFits
  <2>5. more' => rows' # <<>>
    BY <2>2, <2>3, EmptySeq, PageAssumption DEF PageAssumption
  <2>6. Len(fetches') = 0 /\ DOMAIN fetches' = {} /\ Settled'
    BY <1>4, <2>2 DEF Settled
  <2> QED
    BY <2>2, <2>4, <2>5, <2>6, RowsMakeTable
<1>12. ASSUME NEW i \in DOMAIN fetches, OlderArrives(i)
       PROVE  TableInv'
  <2>1. PICK f : f = fetches[i]
    OBVIOUS
  <2>2. /\ UNCHANGED <<logVars, host, newestSeq>> /\ fetches' = RemoveAt(fetches, i)
        /\ rows' = rows \o f.ops
        /\ oldestSeq' = IF f.ops = <<>> THEN oldestSeq ELSE LastSeq(f.ops)
        /\ f.kind = "older" /\ f.served
    BY <1>12, <2>1 DEF OlderArrives
  <2>3. f.ops \in Seq(Rows) /\ PageHolds(f, seq, log)
    BY <2>1, <2>2, ArrivedRows
  <2>4. f.host = host /\ f.before = oldestSeq /\ rows # <<>>
    BY <1>1, <2>1, <2>2 DEF FetchFits
  <2>5. Settled
    BY <1>3, <2>1, <2>2 DEF Settled
  <2>6. RowsHold(rows \o f.ops, newestSeq,
                 IF f.ops = <<>> THEN oldestSeq ELSE LastSeq(f.ops), host, TRUE)
    BY <1>1, <1>2, <2>3, <2>4, <2>5, OlderRows
  <2>7. rows' # <<>>
    <3>1. /\ Len(rows) \in Nat /\ Len(rows) # 0 /\ Len(f.ops) \in Nat
          /\ rows' \in Seq(Rows) /\ Len(rows') = Len(rows) + Len(f.ops)
      BY <1>2, <2>2, <2>3, <2>4, EmptySeq, LenProperties, ConcatProperties
    <3> QED
      BY <3>1, EmptySeq
  <2>8. Len(fetches') = 0 /\ DOMAIN fetches' = {} /\ Settled'
    BY <1>4, <2>2 DEF Settled
  <2> QED
    BY <2>2, <2>6, <2>7, <2>8, RowsMakeTable
<1>13. ASSUME NEW i \in DOMAIN fetches, RefreshArrives(i)
       PROVE  TableInv'
  <2>1. PICK f : f = fetches[i]
    OBVIOUS
  <2>2. PICK fresh : fresh = Fresh(f.ops)
    OBVIOUS
  <2>3. /\ UNCHANGED <<logVars, host, more>> /\ f.kind = "refresh" /\ f.served
    BY <1>13, <2>1 DEF RefreshArrives
  <2>4. /\ f.ops \in Seq(Rows) /\ PageHolds(f, seq, log) /\ f.before = 0
        /\ f.host = host
    BY <1>1, <2>1, <2>3, ArrivedRows DEF FetchInv, FetchHolds, FetchFits
  <2>5. Settled
    BY <1>3, <2>1, <2>3 DEF Settled
  <2>6. CASE /\ fetches' = RemoveAt(fetches, i)
             /\ UNCHANGED <<rows, newestSeq, oldestSeq>>
    <3>1. Len(fetches') = 0 /\ DOMAIN fetches' = {} /\ Settled'
      BY <1>4, <2>6 DEF Settled
    <3> QED
      BY <1>1, <2>3, <2>5, <2>6, <3>1, RowsMakeTable
  <2>7. CASE /\ fetches' = Append(RemoveAt(fetches, i), Fetch("load", host, 0))
             /\ UNCHANGED <<rows, newestSeq, oldestSeq>>
    <3>1. PICK g : g = Fetch("load", host, 0)
      OBVIOUS
    <3>2. g \in Fetches /\ g.kind = "load" /\ g.host = host
      BY <1>2, <3>1, <<>> \in Seq(Rows) DEF Fetch, Fetches
    <3>3. /\ fetches' \in Seq(Fetches) /\ Len(fetches') = 1
          /\ \E j \in DOMAIN fetches' : fetches'[j] = g
      <4>1. PICK remaining : remaining = Append(RemoveAt(fetches, i), g)
        OBVIOUS
      <4>2. g \in Fetches
        BY <3>2
      <4>3. remaining \in Seq(Fetches)
        BY <4>1, <4>2, ReloadFetch
      <4>4. Len(remaining) = Len(fetches)
        BY <4>1, <4>2, ReloadFetch
      <4>5. \E j \in DOMAIN remaining : remaining[j] = g
        BY <4>1, <4>2, ReloadFetch
      <4> QED
        BY <1>3, <2>7, <3>1, <4>1, <4>3, <4>4, <4>5
    <3>4. DOMAIN fetches' = {1} /\ fetches'[1] = g
      BY <3>3, LenProperties
    <3>5. ~Settled'
      BY <3>2, <3>4 DEF Settled
    <3>6. RowsHold(rows, newestSeq, oldestSeq, host, FALSE)
      BY <1>1 DEF RowsHold
    <3>7. RowsHold(rows', newestSeq', oldestSeq', host', Settled')
      <4>1. Settled' = FALSE
        BY <3>5
      <4> QED
        BY <2>3, <2>7, <3>6, <4>1
    <3>8. \A j \in DOMAIN fetches' : FetchFits(fetches'[j], host', oldestSeq', rows')
      BY <2>3, <3>2, <3>4 DEF FetchFits
    <3>9. Len(fetches') <= 1 /\ (more' => rows' # <<>>)
      BY <1>1, <2>3, <2>7, <3>3
    <3> QED
      BY <2>3, <3>7, <3>8, <3>9, RowsMakeTable
  <2>8. CASE /\ fresh # <<>> /\ ~Burst(f.ops)
             /\ rows' = fresh \o (IF newestSeq = 0 THEN <<>> ELSE rows)
             /\ newestSeq' = FirstSeq(fresh)
             /\ oldestSeq' = IF oldestSeq = 0 THEN LastSeq(fresh) ELSE oldestSeq
             /\ fetches' = RemoveAt(fetches, i)
    <3>1. Len(fetches') = 0 /\ DOMAIN fetches' = {} /\ Settled'
      BY <1>4, <2>8 DEF Settled
    <3>2. /\ newestSeq = 0 =>
               /\ oldestSeq = 0 /\ fresh \in Seq(Rows)
               /\ RowsHold(fresh, FirstSeq(fresh), LastSeq(fresh), host, TRUE)
          /\ newestSeq # 0 =>
               /\ oldestSeq # 0 /\ fresh \o rows # <<>>
               /\ RowsHold(fresh \o rows, FirstSeq(fresh), oldestSeq, host, TRUE)
      BY <1>1, <1>2, <2>2, <2>4, <2>5, <2>8, FresherRows
    <3>3. CASE newestSeq = 0
      <4>1. rows' = fresh
        BY <2>8, <3>2, <3>3, ConcatEmptySeq
      <4> QED
        BY <2>3, <2>8, <3>1, <3>2, <3>3, <4>1, RowsMakeTable
    <3>4. CASE newestSeq # 0
      BY <2>3, <2>8, <3>1, <3>2, <3>4, RowsMakeTable
    <3> QED
      BY <3>3, <3>4
  <2> QED
    BY <1>13, <2>1, <2>2, <2>6, <2>7, <2>8 DEF RefreshArrives
<1>14. ASSUME NEW i \in DOMAIN fetches, FetchFails(i)
       PROVE  TableInv'
  BY <1>2, <1>14 DEF FetchFails
<1>15. CASE UNCHANGED logAndPageVars
  BY <1>15 DEF logAndPageVars, pageVars, tableVars, logVars, TableInv, RowsDescend, NoGaps,
               CursorsMatchRows, RowsAreOfTheHost, Settled, Shown, Keys, Concerns
<1> QED
  BY <1>6, <1>7, <1>8, <1>9, <1>10, <1>11, <1>12, <1>13, <1>14, <1>15
     DEF PageNext, LogNext, Arrives

-----------------------------------------------------------------------------

\* A page that opens is right.
LEMMA PageStarts == PageInit => PageInv
<1> SUFFICES ASSUME PageInit PROVE PageInv
  OBVIOUS
<1>1. /\ MaxAppends \in Nat /\ 0 \in 0 .. MaxAppends /\ MaxInFlight \in Nat \ {0}
      /\ MaxSwitches \in Nat /\ MaxFailures \in Nat /\ "load" \in Kinds
  BY LogAssumption, PageAssumption DEF LogAssumption, PageAssumption, Kinds
<1>2. PICK f : f = Fetch("load", AllHosts, 0)
  OBVIOUS
<1>3. f \in Fetches /\ f.kind = "load" /\ f.host = AllHosts /\ f.before = 0 /\ ~f.served
  BY <1>1, <1>2, <<>> \in Seq(Rows) DEF Fetch, Fetches
<1>4. fetches = <<f>>
  BY <1>2 DEF PageInit
<1>5. /\ fetches \in Seq(Fetches) /\ Len(fetches) = 1
      /\ DOMAIN fetches = {1} /\ fetches[1] = f
  BY <1>3, <1>4
<1>6. LogTypeOK /\ seq = 0
  BY <1>1 DEF PageInit, LogInit, LogTypeOK, Keys
<1>7. PageTypeOK
  <2>1. Len(fetches) <= MaxInFlight
    BY <1>1, <1>5
  <2>2. rows \in Seq(Rows)
    BY DEF PageInit
  <2>3. /\ newestSeq \in 0 .. MaxAppends /\ oldestSeq \in 0 .. MaxAppends
        /\ switches \in 0 .. MaxSwitches /\ failures \in 0 .. MaxFailures
    BY <1>1 DEF PageInit
  <2>4. /\ host \in Hosts \cup {AllHosts} /\ more \in BOOLEAN
        /\ busy \in BOOLEAN /\ overlapped \in BOOLEAN
    BY DEF PageInit
  <2> QED
    BY <1>5, <1>6, <2>1, <2>2, <2>3, <2>4 DEF PageTypeOK
<1>8. FetchInv /\ CursorInv
  BY <1>3, <1>5, <1>6 DEF FetchInv, FetchHolds, CursorInv, PageInit
<1>9. ~Settled
  BY <1>3, <1>5 DEF Settled
<1>10. TableInv
  <2>1. RowsHold(rows, newestSeq, oldestSeq, host, FALSE)
    BY DEF RowsHold, PageInit, Descends, FirstSeq, LastSeq
  <2>2. RowsHold(rows, newestSeq, oldestSeq, host, Settled)
    <3>1. Settled = FALSE
      BY <1>9
    <3> QED
      BY <2>1, <3>1
  <2>3. \A i \in DOMAIN fetches : FetchFits(fetches[i], host, oldestSeq, rows)
    BY <1>3, <1>5 DEF FetchFits, PageInit
  <2>4. Len(fetches) <= 1 /\ (more => rows # <<>>)
    BY <1>5 DEF PageInit
  <2> QED
    BY <2>2, <2>3, <2>4, TableRows
<1> QED
  BY <1>7, <1>8, <1>10 DEF PageInv

\* Fetches once overlapped have overlapped, and failures are not taken back.
LEMMA OrderIsLost ==
  ASSUME PageTypeOK, [PageNext]_logAndPageVars, Orderly'
  PROVE  Orderly
<1>1. failures \in Nat /\ overlapped \in BOOLEAN
  BY PageAssumption DEF PageTypeOK, PageAssumption
<1>2. /\ overlapped' = overlapped \/ \E b \in BOOLEAN : overlapped' = (overlapped \/ b)
      /\ failures' = failures \/ failures' = failures + 1
  <2>1. ASSUME NEW fetch, Send(fetch)
        PROVE  \E b \in BOOLEAN : overlapped' = (overlapped \/ b)
    BY <2>1 DEF Send
  <2> QED
    BY <2>1 DEF PageNext, Refresh, LoadOlder, ShowHost, Serve, Arrives, LoadArrives,
                OlderArrives, RefreshArrives, FetchFails, logAndPageVars, pageVars
<1> QED
  BY <1>1, <1>2 DEF Orderly

\* The page only reads the log: it is written as if nobody looked at it, so that
\* what is proved of the log holds while it is shown.
THEOREM PagesOnlyRead == PageSpec => LogSpec
<1>1. PageInit => LogInit
  BY DEF PageInit
<1>2. ASSUME [PageNext]_logAndPageVars PROVE [LogNext]_logVars
  <2>1. CASE UNCHANGED logAndPageVars
    BY <2>1 DEF logAndPageVars, logVars
  <2>2. Refresh \/ LoadOlder => UNCHANGED logVars
    BY DEF Refresh, LoadOlder
  <2>3. ASSUME NEW h \in Hosts \cup {AllHosts}, ShowHost(h)
        PROVE  UNCHANGED logVars
    BY <2>3 DEF ShowHost
  <2>4. ASSUME NEW i \in DOMAIN fetches
        PROVE  Serve(i) \/ Arrives(i) \/ FetchFails(i) => UNCHANGED logVars
    <3>1. Serve(i) => UNCHANGED logVars
      BY DEF Serve
    <3>2. Arrives(i) => UNCHANGED logVars
      BY DEF Arrives, LoadArrives, OlderArrives, RefreshArrives
    <3>3. FetchFails(i) => UNCHANGED logVars
      BY DEF FetchFails
    <3> QED
      BY <3>1, <3>2, <3>3, Zenon
  <2> QED
    BY <1>2, <2>1, <2>2, <2>3, <2>4 DEF PageNext
<1> QED
  BY <1>1, <1>2, PTL DEF PageSpec, LogSpec

\* PageInv is inductive.
THEOREM PageInvariant == PageSpec => []PageInv
<1>1. PageInv /\ [PageNext]_logAndPageVars => PageInv'
  BY TypesStay, FetchesStay, OrderIsLost, TableStays DEF PageInv
<1> QED
  BY PageStarts, <1>1, PTL DEF PageSpec

\* "redrawn from scratch rather than leaving a gap": whatever is appended,
\* trimmed or chosen in between, the rows are lines of the chosen host, newest
\* first, none twice and none left out between them, and paging continues where
\* they stop, for pages and logs of any size, as long as fetches neither overlap
\* nor fail.
THEOREM TableIsOrderly == PageSpec => []OrderlyTable
<1>1. PageInv => OrderlyTable
  BY DEF PageInv, OrderlyTable, TableInv
<1> QED
  BY PageInvariant, <1>1, PTL

-----------------------------------------------------------------------------
(***************************************************************************)
(* "Show older", whose presses are neither forgotten nor doubled, however  *)
(* fetches overtake each other and whichever of them fail.                 *)
(***************************************************************************)
Older(f) == f.kind = "older"
OneOlder(fs) == \A i, j \in DOMAIN fs : Older(fs[i]) /\ Older(fs[j]) => i = j
HasOlder(fs) == \E i \in DOMAIN fs : Older(fs[i])
BusyInv == busy \in BOOLEAN /\ (busy <=> HasOlder(fetches)) /\ OneOlder(fetches)

\* A fetch is sent beside those under way.
LEMMA SentBeside ==
  ASSUME PageTypeOK, NEW s \in Seq(Fetches), OneOlder(s), NEW f \in Fetches,
         Older(f) => ~HasOlder(s)
  PROVE  OneOlder(Append(s, f)) /\ (HasOlder(Append(s, f)) <=> HasOlder(s) \/ Older(f))
<1> DEFINE t == Append(s, f)
<1>1. /\ Len(s) \in Nat /\ DOMAIN s = 1 .. Len(s) /\ DOMAIN t = 1 .. Len(s) + 1
      /\ \A i \in 1 .. Len(s) : t[i] = s[i]
      /\ t[Len(s) + 1] = f
  BY LenProperties, AppendProperties
<1> HIDE DEF t
<1>2. OneOlder(t)
  BY <1>1 DEF OneOlder, HasOlder
<1>3. HasOlder(t) => HasOlder(s) \/ Older(f)
  BY <1>1 DEF HasOlder
<1>4. HasOlder(s) => HasOlder(t)
  BY <1>1 DEF HasOlder
<1>5. Older(f) => HasOlder(t)
  BY <1>1 DEF HasOlder
<1>6. QED
  BY <1>2, <1>3, <1>4, <1>5 DEF t

\* A fetch that is over takes a press along only if it is that press's.
LEMMA RemovedPress ==
  ASSUME PageTypeOK, OneOlder(fetches), NEW i \in DOMAIN fetches
  PROVE  /\ RemoveAt(fetches, i) \in Seq(Fetches)
         /\ OneOlder(RemoveAt(fetches, i))
         /\ HasOlder(RemoveAt(fetches, i)) <=> HasOlder(fetches) /\ ~Older(fetches[i])
<1> DEFINE r == RemoveAt(fetches, i)
<1>1. /\ fetches \in Seq(Fetches) /\ Len(fetches) \in Nat
      /\ DOMAIN fetches = 1 .. Len(fetches) /\ i \in Int
  BY LenProperties DEF PageTypeOK
<1>2. /\ r \in Seq(Fetches) /\ DOMAIN r = 1 .. Len(fetches) - 1
      /\ \A j \in 1 .. Len(fetches) - 1 : j < i => r[j] = fetches[j]
      /\ \A j \in 1 .. Len(fetches) - 1 : j >= i => r[j] = fetches[j + 1]
  BY <1>1, MovedDown
<1> HIDE DEF r
<1>3. ASSUME NEW j \in DOMAIN r
      PROVE  \E l \in DOMAIN fetches \ {i} :
               r[j] = fetches[l] /\ (j < i => l = j) /\ (j >= i => l = j + 1)
  <2>1. CASE j < i
    BY <1>1, <1>2, <2>1
  <2>2. CASE j >= i
    <3>1. j + 1 \in DOMAIN fetches \ {i} /\ r[j] = fetches[j + 1] /\ ~(j < i)
      BY <1>1, <1>2, <2>2
    <3>2. QED
      BY <3>1
  <2>3. QED
    BY <1>1, <1>2, <2>1, <2>2
<1>4. ASSUME NEW l \in DOMAIN fetches, l # i
      PROVE  \E j \in DOMAIN r : r[j] = fetches[l]
  <2>1. CASE l < i
    <3>1. l \in DOMAIN r /\ r[l] = fetches[l]
      BY <1>1, <1>2, <2>1
    <3>2. QED
      BY <3>1
  <2>2. CASE l > i
    <3>1. l - 1 \in DOMAIN r /\ l - 1 >= i /\ (l - 1) + 1 = l
      BY <1>1, <1>2, <2>2
    <3>2. r[l - 1] = fetches[l]
      BY <1>2, <3>1
    <3>3. QED
      BY <3>1, <3>2
  <2>3. QED
    BY <1>1, <1>4, <2>1, <2>2
<1>5. ASSUME NEW j \in DOMAIN r, NEW k \in DOMAIN r, Older(r[j]), Older(r[k])
      PROVE  j = k
  <2>1. PICK l \in DOMAIN fetches :
          r[j] = fetches[l] /\ (j < i => l = j) /\ (j >= i => l = j + 1)
    BY <1>3
  <2>2. PICK m \in DOMAIN fetches :
          r[k] = fetches[m] /\ (k < i => m = k) /\ (k >= i => m = k + 1)
    BY <1>3
  <2>3. l = m
    BY <1>5, <2>1, <2>2 DEF OneOlder
  <2>4. QED
    BY <1>1, <1>2, <2>1, <2>2, <2>3
<1>6. HasOlder(r) => HasOlder(fetches) /\ ~Older(fetches[i])
  <2>1. ASSUME NEW j \in DOMAIN r, Older(r[j])
        PROVE  HasOlder(fetches) /\ ~Older(fetches[i])
    <3>1. PICK l \in DOMAIN fetches \ {i} : r[j] = fetches[l]
      BY <1>3
    <3>2. QED
      BY <2>1, <3>1 DEF OneOlder, HasOlder
  <2>2. QED
    BY <2>1 DEF HasOlder
<1>7. HasOlder(fetches) /\ ~Older(fetches[i]) => HasOlder(r)
  <2>1. ASSUME NEW l \in DOMAIN fetches, Older(fetches[l]), ~Older(fetches[i])
        PROVE  HasOlder(r)
    <3>1. l # i
      BY <2>1
    <3>2. PICK j \in DOMAIN r : r[j] = fetches[l]
      BY <1>4, <3>1
    <3>3. QED
      BY <2>1, <3>2 DEF HasOlder
  <2>2. QED
    BY <2>1 DEF HasOlder
<1>8. QED
  BY <1>2, <1>5, <1>6, <1>7 DEF OneOlder, r

\* A fetch that no press of "Show older" sent.
LEMMA OtherFetch ==
  ASSUME NEW kind \in Kinds, kind # "older", NEW h \in Hosts \cup {AllHosts}
  PROVE  Fetch(kind, h, 0) \in Fetches /\ ~Older(Fetch(kind, h, 0))
<1>1. 0 \in 0 .. MaxAppends
  BY LogAssumption DEF LogAssumption
<1>2. Fetch(kind, h, 0) \in Fetches /\ Fetch(kind, h, 0).kind = kind
  BY <1>1, NewFetch
<1>3. QED
  BY <1>2 DEF Older

\* Every step keeps the button of "Show older" true to its press.
LEMMA BusyStep == ASSUME PageTypeOK, BusyInv, [PageNext]_logAndPageVars PROVE BusyInv'
<1>0. /\ fetches \in Seq(Fetches) /\ busy \in BOOLEAN
      /\ OneOlder(fetches) /\ (busy <=> HasOlder(fetches))
      /\ {"load", "older", "refresh"} = Kinds /\ 0 \in 0 .. MaxAppends
      /\ oldestSeq \in 0 .. MaxAppends /\ host \in Hosts \cup {AllHosts}
  BY LogAssumption DEF LogAssumption, PageTypeOK, BusyInv, Kinds
<1>1. ASSUME UNCHANGED <<busy, fetches>> PROVE BusyInv'
  BY <1>1 DEF BusyInv, OneOlder, HasOlder
<1>2. ASSUME NEW kind \in Kinds, kind # "older", NEW h \in Hosts \cup {AllHosts},
             NEW s \in Seq(Fetches), OneOlder(s), HasOlder(s) <=> busy,
             fetches' = Append(s, Fetch(kind, h, 0)), UNCHANGED busy
      PROVE  BusyInv'
  <2> DEFINE f == Fetch(kind, h, 0)
  <2>1. f \in Fetches /\ ~Older(f)
    BY <1>2, OtherFetch
  <2> HIDE DEF f
  <2>3. OneOlder(Append(s, f)) /\ (HasOlder(Append(s, f)) <=> HasOlder(s))
    BY <1>2, <2>1, SentBeside
  <2>4. fetches' = Append(s, f)
    BY <1>2 DEF f
  <2>5. OneOlder(fetches)' /\ (HasOlder(fetches)' <=> HasOlder(s))
    BY <2>3, <2>4 DEF OneOlder, HasOlder
  <2>6. QED
    BY <1>0, <1>2, <2>5 DEF BusyInv
<1>3. CASE Refresh
  <2>1. "refresh" \in Kinds /\ "refresh" # "older"
    BY <1>0
  <2>2. QED
    BY <1>0, <1>2, <1>3, <2>1 DEF Refresh, Send
<1>4. CASE LoadOlder
  <2> DEFINE f == Fetch("older", host, oldestSeq)
  <2>1. f \in Fetches /\ Older(f) /\ ~busy /\ busy' = TRUE /\ fetches' = Append(fetches, f)
    <3>1. f \in Fetches /\ f.kind = "older"
      <4>1. "older" \in Kinds
        BY <1>0
      <4>2. host \in Hosts \cup {AllHosts} /\ oldestSeq \in 0 .. MaxAppends
        BY <1>0
      <4>3. QED
        BY <4>1, <4>2, NewFetch
    <3>2. ~busy /\ busy' = TRUE /\ fetches' = Append(fetches, f)
      BY <1>4 DEF LoadOlder, Send
    <3>3. QED
      BY <3>1, <3>2 DEF Older
  <2> HIDE DEF f
  <2>2. OneOlder(Append(fetches, f)) /\ HasOlder(Append(fetches, f))
    BY <1>0, <2>1, SentBeside
  <2>3. OneOlder(fetches)' /\ HasOlder(fetches)'
    BY <2>1, <2>2 DEF OneOlder, HasOlder
  <2>4. QED
    BY <2>1, <2>3 DEF BusyInv
<1>5. ASSUME NEW h \in Hosts \cup {AllHosts}, ShowHost(h) PROVE BusyInv'
  <2>1. "load" \in Kinds /\ "load" # "older"
    BY <1>0
  <2>2. QED
    BY <1>0, <1>2, <1>5, <2>1 DEF ShowHost, Send
<1>6. ASSUME NEW i \in DOMAIN fetches, Serve(i) PROVE BusyInv'
  <2>1. PICK ops : fetches' = [fetches EXCEPT ![i].served = TRUE, ![i].ops = ops]
    BY <1>6 DEF Serve
  <2>2. DOMAIN fetches' = DOMAIN fetches
    BY <2>1
  <2>3. ASSUME NEW j \in DOMAIN fetches PROVE fetches'[j].kind = fetches[j].kind
    <3>1. fetches[j] \in Fetches /\ fetches[i] \in Fetches
      BY FetchFields
    <3>2. fetches'[j] = IF j = i THEN [fetches[i] EXCEPT !.served = TRUE, !.ops = ops]
                                 ELSE fetches[j]
      BY <2>1
    <3>3. QED
      BY <3>1, <3>2 DEF Fetches
  <2>4. OneOlder(fetches)' /\ (HasOlder(fetches)' <=> HasOlder(fetches))
    BY <1>0, <2>2, <2>3 DEF OneOlder, HasOlder, Older
  <2>5. QED
    BY <1>0, <1>6, <2>4 DEF BusyInv, Serve
<1>7. ASSUME NEW i \in DOMAIN fetches, fetches' = RemoveAt(fetches, i),
             busy' = (busy /\ fetches[i].kind # "older")
      PROVE  BusyInv'
  <2> DEFINE r == RemoveAt(fetches, i)
  <2>1. OneOlder(r) /\ (HasOlder(r) <=> HasOlder(fetches) /\ ~Older(fetches[i]))
    BY <1>0, RemovedPress
  <2>2. fetches' = r
    BY <1>7
  <2> HIDE DEF r
  <2>3. OneOlder(fetches)' /\ (HasOlder(fetches)' <=> HasOlder(r))
    BY <2>1, <2>2 DEF OneOlder, HasOlder
  <2>4. QED
    BY <1>0, <1>7, <2>1, <2>3 DEF BusyInv, Older
<1>8. ASSUME NEW i \in DOMAIN fetches, Arrives(i) PROVE BusyInv'
  <2>1. CASE LoadArrives(i)
    <3>1. fetches' = RemoveAt(fetches, i) /\ busy' = (busy /\ fetches[i].kind # "older")
      BY <2>1, <1>0 DEF LoadArrives
    <3>2. QED
      BY <1>7, <3>1
  <2>2. CASE OlderArrives(i)
    <3>1. fetches' = RemoveAt(fetches, i) /\ busy' = (busy /\ fetches[i].kind # "older")
      BY <2>2, <1>0 DEF OlderArrives
    <3>2. QED
      BY <1>7, <3>1
  <2>3. CASE RefreshArrives(i)
    <3>1. /\ UNCHANGED busy /\ fetches[i].kind = "refresh"
          /\ \/ fetches' = RemoveAt(fetches, i)
             \/ fetches' = Append(RemoveAt(fetches, i), Fetch("load", host, 0))
      BY <2>3 DEF RefreshArrives
    <3>2. CASE fetches' = RemoveAt(fetches, i)
      <4>1. busy' = (busy /\ fetches[i].kind # "older")
        BY <1>0, <3>1
      <4>2. QED
        BY <1>7, <3>2, <4>1
    <3>3. CASE fetches' = Append(RemoveAt(fetches, i), Fetch("load", host, 0))
      <4>1. /\ RemoveAt(fetches, i) \in Seq(Fetches) /\ OneOlder(RemoveAt(fetches, i))
            /\ HasOlder(RemoveAt(fetches, i)) <=> busy
        BY <1>0, <3>1, RemovedPress DEF Older
      <4>2. QED
        <5>1. "load" \in Kinds /\ "load" # "older" /\ host \in Hosts \cup {AllHosts}
          BY <1>0
        <5>2. QED
          BY <1>2, <3>1, <3>3, <4>1, <5>1
    <3>4. QED
      BY <3>1, <3>2, <3>3
  <2>4. QED
    BY <1>8, <2>1, <2>2, <2>3 DEF Arrives
<1>9. ASSUME NEW i \in DOMAIN fetches, FetchFails(i) PROVE BusyInv'
  <2>1. fetches' = RemoveAt(fetches, i) /\ busy' = (busy /\ fetches[i].kind # "older")
    BY <1>9 DEF FetchFails
  <2>2. QED
    BY <1>7, <2>1
<1>10. CASE LogNext /\ UNCHANGED pageVars
  BY <1>1, <1>10 DEF pageVars
<1>11. CASE UNCHANGED logAndPageVars
  BY <1>1, <1>11 DEF logAndPageVars, pageVars
<1>12. QED
  BY <1>3, <1>4, <1>5, <1>6, <1>8, <1>9, <1>10, <1>11 DEF PageNext

\* "Show older" is disabled exactly while a press of it is under way, and at most
\* one is: an answer that is late, or lost, leaves it neither dead nor able to
\* add a page of lines twice, whatever other fetches overlap with it.
THEOREM PressesAreKept == PageSpec => [](BusyMeansFetching /\ OneOlder(fetches))
<1>1. PageInit => BusyInv
  <2> SUFFICES ASSUME PageInit PROVE BusyInv
    OBVIOUS
  <2> DEFINE f == Fetch("load", AllHosts, 0)
  <2>1. fetches = <<f>> /\ busy = FALSE /\ f.kind = "load"
    BY DEF PageInit, Fetch
  <2> HIDE DEF f
  <2>2. DOMAIN fetches = {1} /\ fetches[1] = f
    BY <2>1
  <2>3. QED
    BY <2>1, <2>2 DEF BusyInv, HasOlder, OneOlder, Older
<1>2. PageInv => PageTypeOK
  BY DEF PageInv
<1>3. PageTypeOK /\ BusyInv /\ [PageNext]_logAndPageVars => BusyInv'
  BY BusyStep
<1>4. BusyInv => BusyMeansFetching /\ OneOlder(fetches)
  BY DEF BusyInv, BusyMeansFetching, HasOlder, Older
<1>5. QED
  BY <1>1, <1>2, <1>3, <1>4, PageInvariant, PTL DEF PageSpec

-----------------------------------------------------------------------------
(***************************************************************************)
(* The registrar, for any services, intervals and faults.                  *)
(***************************************************************************)

\* The loop never waits longer than the longest wait.
WaitsAreCapped == wait <= Longest /\ retry <= MaxRetry

\* Nothing is deregistered before the loop is gone, and what was deregistered
\* stays so.
GoneFirst ==
  /\ stop = "deregistering" => pc = "exited"
  /\ stop # "deregistering" => toLeave = Services
  /\ StoppedStaysOut

\* An agent that has answered every call of the sweep has what the sweep is
\* done with.
SweptIsThere ==
  pc = "sweep" /\ overdue > 0 =>
    /\ ~failed
    /\ known \cap Missing = {}
    /\ Missing \subseteq left

\* An agent that listed what it has gains nothing but what the sweep registers.
ListHolds ==
  pc = "sweep" /\ listed => left \ known \subseteq Missing

\* The sleeping loop wakes in time.
WakesInTime ==
  /\ overdue <= Longest
  /\ ~up => overdue = 0
  /\ pc = "sleep" /\ Missing # {} => overdue + wait <= Longest

RegistrarInv ==
  /\ StateOK
  /\ WaitsAreCapped
  /\ GoneFirst
  /\ SweptIsThere
  /\ ListHolds
  /\ WakesInTime

\* The longest wait is one of the two intervals.
LEMMA LongestWait ==
  /\ Longest \in Nat \ {0}
  /\ MaxRetry <= Longest
  /\ Reassert <= Longest
BY RegistrarAssumption DEF RegistrarAssumption, Longest

\* The initial state satisfies the inductive invariant.
LEMMA RegistrarStarts == RegistrarInit => RegistrarInv
<1> SUFFICES ASSUME RegistrarInit PROVE RegistrarInv
  OBVIOUS
<1> USE RegistrarAssumption, LongestWait DEF RegistrarAssumption, RegistrarInit
<1>1. StateOK
  BY DEF StateOK
<1>2. WaitsAreCapped
  BY DEF WaitsAreCapped
<1>3. GoneFirst
  BY DEF GoneFirst, StoppedStaysOut
<1>4. SweptIsThere /\ ListHolds /\ WakesInTime
  BY DEF SweptIsThere, ListHolds, WakesInTime
<1>5. QED
  BY <1>1, <1>2, <1>3, <1>4 DEF RegistrarInv

\* Every step keeps the flags Boolean.
LEMMA RegistrarFlagsStep == FlagsOK /\ [RegistrarNext]_registrarVars => FlagsOK'
<1> SUFFICES ASSUME FlagsOK, [RegistrarNext]_registrarVars PROVE FlagsOK'
  OBVIOUS
<1> USE DEF FlagsOK, loopVars
<1>1. CASE List \/ SweepEnds \/ Wake \/ Exit
  BY <1>1 DEF List, SweepEnds, Wake, Exit
<1>2. CASE Cancel \/ LoopIsGone
  BY <1>2 DEF Cancel, LoopIsGone
<1>3. CASE AgentGoesDown \/ AgentComesUp \/ TimePasses
  BY <1>3 DEF AgentGoesDown, AgentComesUp, TimePasses
<1>4. ASSUME NEW s \in Services, Present(s) \/ Register(s) \/ Deregister(s)
      PROVE  FlagsOK'
  BY <1>4 DEF Present, Register, Deregister
<1>5. ASSUME NEW s \in Services, CheckPasses(s) \/ CheckFails(s) \/ DropsCritical(s)
      PROVE  FlagsOK'
  BY <1>5 DEF CheckPasses, CheckFails, DropsCritical
<1>6. CASE UNCHANGED registrarVars
  BY <1>6 DEF registrarVars
<1>7. QED
  BY <1>1, <1>2, <1>3, <1>4, <1>5, <1>6 DEF RegistrarNext

\* The loop's own steps keep it.
LEMMA LoopStep ==
  ASSUME RegistrarInv,
         \/ List \/ SweepEnds \/ Wake \/ Exit
         \/ \E s \in Services : Present(s) \/ Register(s)
  PROVE  RegistrarInv'
<1> USE RegistrarAssumption, LongestWait
    DEF RegistrarAssumption, RegistrarInv, StateOK, WaitsAreCapped, GoneFirst,
        StoppedStaysOut, SweptIsThere, ListHolds, WakesInTime, Missing, stopVars
<1>1. CASE List
  BY <1>1 DEF List, CallOK, CallFails
<1>2. CASE SweepEnds
  BY <1>2 DEF SweepEnds, Slowed
<1>3. CASE Wake
  BY <1>3 DEF Wake
<1>4. CASE Exit
  BY <1>4 DEF Exit
<1>5. ASSUME NEW s \in Services, Present(s) PROVE RegistrarInv'
  BY <1>5 DEF Present
<1>6. ASSUME NEW s \in Services, Register(s) PROVE RegistrarInv'
  BY <1>6 DEF Register, CallOK, CallFails
<1>7. QED
  BY <1>1, <1>2, <1>3, <1>4, <1>5, <1>6

\* The steps of Stop keep it.
LEMMA StopStep ==
  ASSUME RegistrarInv, Cancel \/ LoopIsGone \/ \E s \in Services : Deregister(s)
  PROVE  RegistrarInv'
<1> USE RegistrarAssumption, LongestWait
    DEF RegistrarAssumption, RegistrarInv, StateOK, WaitsAreCapped, GoneFirst,
        StoppedStaysOut, SweptIsThere, ListHolds, WakesInTime, Missing, loopVars
<1>1. CASE Cancel
  BY <1>1 DEF Cancel
<1>2. CASE LoopIsGone
  BY <1>2 DEF LoopIsGone
<1>3. ASSUME NEW s \in Services, Deregister(s) PROVE RegistrarInv'
  BY <1>3 DEF Deregister, CallOK, CallFails
<1>4. QED
  BY <1>1, <1>2, <1>3

\* The steps of the agent, and of time, keep it.
LEMMA WorldStep ==
  ASSUME RegistrarInv,
         \/ AgentGoesDown \/ AgentComesUp \/ TimePasses
         \/ \E s \in Services : CheckPasses(s) \/ CheckFails(s) \/ DropsCritical(s)
  PROVE  RegistrarInv'
<1> USE RegistrarAssumption, LongestWait
    DEF RegistrarAssumption, RegistrarInv, StateOK, WaitsAreCapped, GoneFirst,
        StoppedStaysOut, SweptIsThere, ListHolds, WakesInTime, Missing,
        loopVars, stopVars, Fault
<1>1. CASE AgentGoesDown
  BY <1>1 DEF AgentGoesDown
<1>2. CASE AgentComesUp
  BY <1>2 DEF AgentComesUp
<1>3. CASE TimePasses
  BY <1>3 DEF TimePasses
<1>4. ASSUME NEW s \in Services, CheckPasses(s) PROVE RegistrarInv'
  BY <1>4 DEF CheckPasses
<1>5. ASSUME NEW s \in Services, CheckFails(s) PROVE RegistrarInv'
  BY <1>5 DEF CheckFails
<1>6. ASSUME NEW s \in Services, DropsCritical(s) PROVE RegistrarInv'
  BY <1>6 DEF DropsCritical
<1>7. QED
  BY <1>1, <1>2, <1>3, <1>4, <1>5, <1>6

\* A stuttering step keeps it.
LEMMA RegistrarStutters == RegistrarInv /\ UNCHANGED registrarVars => RegistrarInv'
BY DEF registrarVars, loopVars, stopVars, RegistrarInv, StateOK, WaitsAreCapped, GoneFirst,
   StoppedStaysOut, SweptIsThere, ListHolds, WakesInTime, Missing

\* The inductive invariant holds in every reachable state.
THEOREM RegistrarSafety == RegistrarSpec => []RegistrarInv
<1>1. RegistrarInv /\ [RegistrarNext]_registrarVars => RegistrarInv'
  BY LoopStep, StopStep, WorldStep, RegistrarStutters DEF RegistrarNext
<1>2. QED
  BY RegistrarStarts, <1>1, PTL DEF RegistrarSpec

\* The variables keep their types.
THEOREM RegistrarTypeCorrect == RegistrarSpec => []RegistrarTypeOK
<1>1. RegistrarInit => FlagsOK
  BY Zenon DEF RegistrarInit, FlagsOK
<1>2. FlagsOK /\ [RegistrarNext]_registrarVars => FlagsOK'
  BY RegistrarFlagsStep
<1>3. RegistrarInv => StateOK
  BY DEF RegistrarInv
<1>4. QED
  BY RegistrarSafety, <1>1, <1>2, <1>3, PTL DEF RegistrarSpec, RegistrarTypeOK

\* What Stop deregistered stays deregistered: the loop cannot bring it back.
THEOREM StopIsFinal == RegistrarSpec => []StoppedStaysOut
BY RegistrarSafety, PTL DEF RegistrarInv, GoneFirst

\* Whatever the intervals are, an agent that answers lacks no service for longer
\* than the longer of them.
THEOREM BoundedDelay == RegistrarSpec => []DelayIsBounded
<1>1. RegistrarInv => DelayIsBounded
  BY DEF RegistrarInv, WakesInTime, DelayIsBounded
<1>2. QED
  BY RegistrarSafety, <1>1, PTL

\* A service in good health is registered over only if the agent would not list
\* what it has.
THEOREM NoNeedlessReset == RegistrarSpec => HealthyIsLeftAlone
<1> DEFINE Needed ==
      \A s \in Services :
        has[s] = "passing" /\ has'[s] = "critical" /\ left' # left => ~listed
<1>1. RegistrarInv /\ RegistrarNext => Needed
  <2> SUFFICES ASSUME RegistrarInv, RegistrarNext PROVE Needed
    OBVIOUS
  <2>1. CASE List
    BY <2>1 DEF List, RegistrarInv, StateOK
  <2>2. ASSUME NEW s \in Services, Register(s) PROVE Needed
    <3>1. pc = "sweep" /\ s \in left \ known
      BY <2>2 DEF Register
    <3>2. listed => has[s] = "no"
      BY <3>1 DEF RegistrarInv, ListHolds, Missing
    <3>3. \A r \in Services : r # s => has'[r] = has[r]
      BY <2>2 DEF Register, RegistrarInv, StateOK
    <3>4. QED
      BY <3>2, <3>3
  <2>3. ASSUME NEW s \in Services, Present(s) PROVE Needed
    BY <2>3 DEF Present
  <2>4. CASE SweepEnds \/ Wake \/ Exit
    BY <2>4 DEF SweepEnds, Wake, Exit
  <2>5. CASE \/ Cancel \/ LoopIsGone
             \/ AgentGoesDown \/ AgentComesUp \/ TimePasses
    BY <2>5 DEF Cancel, LoopIsGone, AgentGoesDown, AgentComesUp, TimePasses,
       loopVars
  <2>6. ASSUME NEW s \in Services,
               Deregister(s) \/ CheckPasses(s) \/ CheckFails(s) \/ DropsCritical(s)
        PROVE  Needed
    BY <2>6 DEF Deregister, CheckPasses, CheckFails, DropsCritical, loopVars
  <2>7. QED
    BY <2>1, <2>2, <2>3, <2>4, <2>5, <2>6 DEF RegistrarNext
<1>2. RegistrarInv /\ [RegistrarNext]_registrarVars => [Needed]_registrarVars
  BY <1>1
<1>3. QED
  BY RegistrarSafety, <1>2, PTL DEF RegistrarSpec, HealthyIsLeftAlone

-----------------------------------------------------------------------------
(***************************************************************************)
(* What the groups bucket always looks like, for any hosts, names and      *)
(* clients, and however the handlers' transactions interleave.             *)
(***************************************************************************)

\* A groups bucket the store may hold: every group is under the key of its
\* name, and none is named like a derived group.
WellFormed(gs) ==
  /\ gs \in [DOMAIN gs -> Group]
  /\ DOMAIN gs \subseteq Names
  /\ \A k \in DOMAIN gs : GroupKey(gs[k].name) = k /\ gs[k].name \notin Derived

\* What a handler is about to write is not named like a derived group.
NothingDerivedInHand ==
  \A c \in Clients :
    /\ req[c] # Idle => req[c].group.name \notin Derived
    /\ req[c].op = "rename" => req[c].to \in Names \ Derived

ReqOK == req \in [Clients -> {Idle} \cup Running]

Counters ==
  /\ systems \subseteq Systems
  /\ requests \in 0 .. MaxRequests
  /\ raced \subseteq Clients
  /\ evicted \subseteq Systems

GroupsInv == WellFormed(groups) /\ ReqOK /\ NothingDerivedInHand /\ Counters

USE GroupsAssumption DEF GroupsAssumption

\* Writing a group leaves the bucket well formed.
LEMMA WriteWellFormed ==
  ASSUME NEW gs, WellFormed(gs), NEW g \in Group, g.name \notin Derived
  PROVE  WellFormed(Write(gs, g))
<1>1. g.name \in Names /\ GroupKey(g.name) \in Names
  BY DEF Group, GroupKey
<1>2. QED
  BY <1>1 DEF WellFormed, Write

\* Leaving groups out of the bucket leaves it well formed.
LEMMA RestrictWellFormed ==
  ASSUME NEW gs, WellFormed(gs), NEW S \in SUBSET DOMAIN gs
  PROVE  WellFormed(Restrict(gs, S))
  BY DEF WellFormed, Restrict

\* Dropping a host from every group, or putting it in some and out of the
\* others, leaves the bucket well formed.
LEMMA MembersWellFormed ==
  ASSUME WellFormed(groups), NEW h \in Systems, NEW wanted
  PROVE  WellFormed(WithoutHost(h)) /\ WellFormed(InExactly(h, wanted))
  BY DEF WellFormed, Group, WithoutHost, InExactly

\* A group the store holds, and a name it may be given.
LEMMA StoredIsGroup ==
  ASSUME WellFormed(groups), NEW n \in Names, Exists(n)
  PROVE  Stored(n) \in Group /\ Stored(n).name \notin Derived
  BY DEF WellFormed, Exists, Stored

\* Renaming a group leaves the bucket well formed.
LEMMA RenamedWellFormed ==
  ASSUME WellFormed(groups), NEW from \in Names, NEW to \in Names,
         Exists(from), to \notin Derived
  PROVE  WellFormed(Renamed(from, to))
<1> DEFINE g == [Stored(from) EXCEPT !.name = to]
           gs == Write(groups, g)
<1>1. g \in Group /\ g.name = to
  BY StoredIsGroup DEF Group
<1>2. WellFormed(gs)
  BY <1>1, WriteWellFormed
<1>3. WellFormed(Restrict(gs, DOMAIN gs \ {GroupKey(from)}))
  <2> HIDE DEF gs
  <2> QED
    BY <1>2, RestrictWellFormed
<1>4. QED
  BY <1>2, <1>3 DEF Renamed

\* A server that has just been installed.
LEMMA GroupsStart == GroupsInit => GroupsInv
<1> SUFFICES ASSUME GroupsInit PROVE GroupsInv
  OBVIOUS
<1>1. WellFormed(groups)
  BY DEF GroupsInit, WellFormed
<1>2. ReqOK /\ NothingDerivedInHand
  BY DEF GroupsInit, ReqOK, NothingDerivedInHand, Idle
<1>3. Counters
  BY DEF GroupsInit, Counters
<1>4. QED
  BY <1>1, <1>2, <1>3 DEF GroupsInv

\* A handler that begins keeps the invariant.
LEMMA BeginKeepsInv ==
  ASSUME GroupsInv, NEW c \in Clients, NEW r \in Running,
         r.group.name \notin Derived,
         r.op = "rename" => r.to \in Names \ Derived,
         Begin(c, r)
  PROVE  GroupsInv'
<1>1. WellFormed(groups)'
  BY DEF Begin, GroupsInv, WellFormed
<1>2. ReqOK' /\ NothingDerivedInHand'
  BY DEF Begin, GroupsInv, ReqOK, NothingDerivedInHand
<1>3. Counters'
  BY DEF Begin, GroupsInv, Counters
<1>4. QED
  BY <1>1, <1>2, <1>3 DEF GroupsInv

\* A handler that makes a single transaction keeps it, if what it writes is
\* well formed.
LEMMA AtOnceKeepsInv ==
  ASSUME GroupsInv, NEW gs, WellFormed(gs), NEW hosts, AtOnce(gs, hosts)
  PROVE  GroupsInv'
<1>1. WellFormed(groups)'
  BY DEF AtOnce, Commit, WellFormed
<1>2. ReqOK' /\ NothingDerivedInHand'
  BY DEF AtOnce, GroupsInv, ReqOK, NothingDerivedInHand
<1>3. Counters'
  BY DEF AtOnce, Commit, GroupsInv, Counters
<1>4. QED
  BY <1>1, <1>2, <1>3 DEF GroupsInv

\* A handler at work holds a group of the right type.
LEMMA InHand ==
  ASSUME GroupsInv, NEW c \in Clients, req[c].op # "idle"
  PROVE  /\ req[c] \in Running
         /\ req[c].group \in Group
         /\ req[c].group.name \in Names
         /\ req[c].group.name \notin Derived
<1>1. req[c] # Idle /\ req[c] \in Running
  BY DEF GroupsInv, ReqOK, Idle
<1>2. QED
  BY <1>1 DEF GroupsInv, NothingDerivedInHand, Running, Group

\* Every step of a handler keeps the invariant.
LEMMA HandleKeepsInv ==
  ASSUME GroupsInv, NEW c \in Clients, Handle(c)
  PROVE  GroupsInv'
<1>i. req[c].op # "idle"
  BY DEF Handle, FinishCreate, SaveMembers, RenameGroup, FinishRemove
<1>g. /\ req[c] \in Running /\ req[c].group \in Group
      /\ req[c].group.name \in Names /\ req[c].group.name \notin Derived
  BY <1>i, InHand
<1>w. WellFormed(Write(groups, req[c].group))
  BY <1>g, WriteWellFormed DEF GroupsInv
<1>1. WellFormed(groups)'
  <2>1. CASE FinishCreate(c) \/ SaveMembers(c) \/ FinishRemove(c)
    <3>1. groups' = Write(groups, req[c].group)
      BY <2>1 DEF FinishCreate, SaveMembers, FinishRemove, Commit
    <3>2. QED
      BY <3>1, <1>w DEF WellFormed
  <2>2. CASE RenameGroup(c) /\ groups' = groups
    BY <2>2 DEF GroupsInv, WellFormed
  <2>3. CASE RenameGroup(c) /\ groups' # groups
    <3> DEFINE from == req[c].group.name
               to == req[c].to
    <3>1. groups' = Renamed(from, to) /\ Exists(from)
      BY <2>3 DEF RenameGroup, Commit, MayRename
    <3>2. to \in Names /\ to \notin Derived
      BY <2>3 DEF RenameGroup, GroupsInv, NothingDerivedInHand
    <3>3. WellFormed(Renamed(from, to))
      BY <3>1, <3>2, <1>g, RenamedWellFormed DEF GroupsInv
    <3>4. QED
      BY <3>1, <3>3 DEF WellFormed
  <2>4. QED
    BY <2>1, <2>2, <2>3 DEF Handle
<1>2. ReqOK' /\ NothingDerivedInHand'
  <2>1. CASE req' = [req EXCEPT ![c] = Idle]
    BY <2>1 DEF GroupsInv, ReqOK, NothingDerivedInHand, Idle
  <2>2. CASE /\ req' = [req EXCEPT ![c] = [req[c] EXCEPT !.op = "rename"]]
             /\ req[c].op = "save"
             /\ ToRename(req[c].group, req[c].to)
    <3>1. /\ req'[c] \in Running
          /\ req'[c].group = req[c].group
          /\ req'[c].to \in Names \ Derived
      BY <2>2, <1>g DEF ToRename, ValidName, Running, GroupsInv, ReqOK
    <3>2. QED
      BY <2>2, <3>1, <1>g DEF GroupsInv, ReqOK, NothingDerivedInHand
  <2>3. QED
    BY <2>1, <2>2
    DEF Handle, FinishCreate, SaveMembers, RenameGroup, FinishRemove
<1>3. Counters'
  BY DEF Handle, FinishCreate, SaveMembers, RenameGroup, FinishRemove, Commit,
     GroupsInv, Counters
<1>4. QED
  BY <1>1, <1>2, <1>3 DEF GroupsInv

\* A handler that begins to create, update or remove keeps the invariant.
LEMMA StartKeepsInv ==
  ASSUME GroupsInv, NEW c \in Clients, NEW n \in Names,
         \/ \E members \in SUBSET Systems : CreateGroup(c, n, members)
         \/ \E to \in Names \cup {NoName},
               members \in (SUBSET Systems) \cup {NoMembers} :
              UpdateGroup(c, n, to, members)
         \/ \E h \in Systems : RemoveMember(c, n, h)
  PROVE  GroupsInv'
<1>1. CASE \E members \in SUBSET Systems : CreateGroup(c, n, members)
  <2>1. PICK members \in SUBSET Systems : CreateGroup(c, n, members)
    BY <1>1
  <2> DEFINE r == [op |-> "create", group |-> [name |-> n, members |-> members]]
  <2>2. r \in Running /\ r.group.name \notin Derived /\ r.op # "rename"
    BY <2>1 DEF CreateGroup, ValidName, Running, Group
  <2>3. Begin(c, r)
    BY <2>1 DEF CreateGroup
  <2>4. QED
    BY <2>2, <2>3, BeginKeepsInv
<1>2. ASSUME NEW to \in Names \cup {NoName},
             NEW members \in (SUBSET Systems) \cup {NoMembers},
             UpdateGroup(c, n, to, members)
      PROVE  GroupsInv'
  <2>1. Stored(n) \in Group /\ Stored(n).name \notin Derived
    BY <1>2, StoredIsGroup DEF UpdateGroup, GroupsInv
  <2>2. CASE members # NoMembers
    <3> DEFINE g == [Stored(n) EXCEPT !.members = members]
               r == [op |-> "save", to |-> to, group |-> g]
    <3>1. g \in Group /\ g.name \notin Derived
      BY <2>1, <2>2 DEF Group
    <3>2. Begin(c, r)
      BY <1>2, <2>2 DEF UpdateGroup
    <3> HIDE DEF g
    <3>3. r \in Running /\ r.group.name \notin Derived /\ r.op # "rename"
      BY <3>1 DEF Running
    <3>4. QED
      BY <3>2, <3>3, BeginKeepsInv
  <2>3. CASE members = NoMembers
    <3> DEFINE r == [op |-> "rename", to |-> to, group |-> Stored(n)]
    <3>1. ToRename(Stored(n), to) /\ Begin(c, r)
      BY <1>2, <2>3 DEF UpdateGroup
    <3>2. r \in Running /\ r.group.name \notin Derived /\ r.to \in Names \ Derived
      BY <2>1, <3>1 DEF Running, ToRename, ValidName
    <3>3. QED
      BY <3>1, <3>2, BeginKeepsInv
  <2>4. QED
    BY <2>2, <2>3
<1>3. ASSUME NEW h \in Systems, RemoveMember(c, n, h)
      PROVE  GroupsInv'
  <2> DEFINE r == [op |-> "remove",
                   group |-> [Stored(n) EXCEPT !.members = @ \ {h}]]
  <2>1. Stored(n) \in Group /\ Stored(n).name \notin Derived
    BY <1>3, StoredIsGroup DEF RemoveMember, GroupsInv
  <2>2. r \in Running /\ r.group.name \notin Derived /\ r.op # "rename"
    BY <2>1 DEF Running, Group
  <2>3. Begin(c, r)
    BY <1>3 DEF RemoveMember
  <2>4. QED
    BY <2>2, <2>3, BeginKeepsInv
<1>4. QED
  BY <1>1, <1>2, <1>3

\* Every step keeps the invariant.
LEMMA GroupsStep == GroupsInv /\ [GroupsNext]_groupsVars => GroupsInv'
<1> SUFFICES ASSUME GroupsInv, [GroupsNext]_groupsVars PROVE GroupsInv'
  OBVIOUS
<1>1. ASSUME NEW c \in Clients, Handle(c) PROVE GroupsInv'
  BY <1>1, HandleKeepsInv
<1>2. ASSUME NEW n \in Names, DeleteGroup(n) PROVE GroupsInv'
  <2> DEFINE gs == Restrict(groups, DOMAIN groups \ {GroupKey(n)})
  <2>1. WellFormed(gs)
    BY RestrictWellFormed DEF GroupsInv
  <2>2. AtOnce(gs, {})
    BY <1>2 DEF DeleteGroup
  <2> HIDE DEF gs
  <2>3. QED
    BY <2>1, <2>2, AtOnceKeepsInv
<1>3. ASSUME NEW h \in Systems, NEW names \in SUBSET Names,
             SetSystemGroups(h, names)
      PROVE  GroupsInv'
  <2> DEFINE gs == InExactly(h, {GroupKey(n) : n \in names})
             hosts == IF names = {} THEN {} ELSE {h}
  <2>1. WellFormed(gs)
    BY MembersWellFormed DEF GroupsInv
  <2>2. AtOnce(gs, hosts)
    BY <1>3 DEF SetSystemGroups
  <2> HIDE DEF gs, hosts
  <2>3. QED
    BY <2>1, <2>2, AtOnceKeepsInv
<1>4. ASSUME NEW h \in Systems, CheckIn(h) PROVE GroupsInv'
  BY <1>4 DEF CheckIn, GroupsInv, WellFormed, ReqOK, NothingDerivedInHand, Counters
<1>5. ASSUME NEW h \in Systems, DeleteSystem(h) PROVE GroupsInv'
  <2>1. WellFormed(groups)'
    BY <1>5, MembersWellFormed DEF DeleteSystem, GroupsInv, WellFormed
  <2>2. ReqOK' /\ NothingDerivedInHand'
    BY <1>5 DEF DeleteSystem, GroupsInv, ReqOK, NothingDerivedInHand
  <2>3. Counters'
    BY <1>5 DEF DeleteSystem, GroupsInv, Counters
  <2>4. QED
    BY <2>1, <2>2, <2>3 DEF GroupsInv
<1>6. CASE ServerRestarts
  BY <1>6 DEF ServerRestarts, GroupsInv, WellFormed, ReqOK, NothingDerivedInHand,
     Counters, Idle
<1>7. CASE UNCHANGED groupsVars
  BY <1>7 DEF groupsVars, GroupsInv, WellFormed, ReqOK, NothingDerivedInHand, Counters
<1>8. QED
  BY <1>1, <1>2, <1>3, <1>4, <1>5, <1>6, <1>7, StartKeepsInv DEF GroupsNext

\* The inductive invariant holds in every reachable state.
LEMMA GroupsInvariant == GroupsSpec => []GroupsInv
  BY GroupsStart, GroupsStep, PTL DEF GroupsSpec

\* Every variable of the groups keeps its type.
THEOREM GroupsTypeCorrect == GroupsSpec => []GroupsTypeOK
<1>1. GroupsInv => GroupsTypeOK
  BY DEF GroupsInv, WellFormed, ReqOK, Counters, GroupsTypeOK
<1>2. QED
  BY <1>1, GroupsInvariant, PTL

\* A group is stored under the key of the name it carries, renames and races
\* between handlers included.
THEOREM FoundByTheirName == GroupsSpec => []NamedByTheirKey
<1>1. GroupsInv => NamedByTheirKey
  BY DEF GroupsInv, WellFormed, NamedByTheirKey
<1>2. QED
  BY <1>1, GroupsInvariant, PTL

\* No stored group is named, or keyed, like a derived one.
THEOREM DerivedNamesStayFree == GroupsSpec => []NothingShadowsDerived
<1>1. GroupsInv => NothingShadowsDerived
  BY DEF GroupsInv, WellFormed, NothingShadowsDerived, GroupKey, Group
<1>2. QED
  BY <1>1, GroupsInvariant, PTL

\* Where the two ways the code folds case agree (on ASCII names they do), no
\* two stored groups have names that differ in case alone.
THEOREM OneGroupPerName ==
  ASSUME \A a, b \in Names : Folded[a] = Folded[b] => Lower[a] = Lower[b]
  PROVE  GroupsSpec => []NoLookalikes
<1>1. GroupsInv => NoLookalikes
  BY DEF GroupsInv, WellFormed, NoLookalikes, SameGroup, GroupKey, Group
<1>2. QED
  BY <1>1, GroupsInvariant, PTL

(***************************************************************************)
(* What a step does to the groups: none goes away but by DeleteGroup, and  *)
(* a host that was deleted comes back only by a write that names it or one *)
(* that had read its group before.                                         *)
(***************************************************************************)

\* The steps that leave the groups alone.
LEMMA OthersLeaveGroups ==
  ASSUME [GroupsNext]_groupsVars
  PROVE  \/ groups' = groups
         \/ \E c \in Clients : Handle(c)
         \/ \E n \in Names : DeleteGroup(n)
         \/ \E h \in Systems, names \in SUBSET Names : SetSystemGroups(h, names)
         \/ \E h \in Systems : DeleteSystem(h)
  BY DEF GroupsNext, groupsVars, CreateGroup, UpdateGroup, RemoveMember, Begin, CheckIn,
     ServerRestarts

\* A rename that finds another name moves the group; one that changes its case
\* writes it where it is.
LEMMA RenamedMoves ==
  ASSUME GroupsInv, NEW from \in Names, NEW to \in Names, MayRename(from, to),
         NEW k \in DOMAIN groups \ DOMAIN Renamed(from, to)
  PROVE  \E j \in DOMAIN Renamed(from, to) \ DOMAIN groups :
           Renamed(from, to)[j].members = groups[k].members
<1> DEFINE g == [Stored(from) EXCEPT !.name = to]
           gs == Write(groups, g)
<1>1. Stored(from) \in Group /\ g.name = to /\ g.members = Stored(from).members
  BY StoredIsGroup DEF GroupsInv, MayRename, Group
<1>2. /\ DOMAIN gs = DOMAIN groups \cup {GroupKey(to)}
      /\ gs[GroupKey(to)] = g
  BY <1>1 DEF Write
<1> HIDE DEF g, gs
<1>3. ~SameGroup(from, to)
  BY <1>2 DEF Renamed, g, gs
<1>4. Renamed(from, to) = Restrict(gs, DOMAIN gs \ {GroupKey(from)})
  BY <1>3 DEF Renamed, g, gs
<1>5. GroupKey(to) \notin DOMAIN groups /\ GroupKey(from) \in DOMAIN groups
  BY <1>3 DEF MayRename, Exists
<1>6. k = GroupKey(from)
  BY <1>2, <1>4 DEF Restrict
<1>7. /\ GroupKey(to) \in DOMAIN Renamed(from, to) \ DOMAIN groups
      /\ Renamed(from, to)[GroupKey(to)] = g
  BY <1>2, <1>4, <1>5 DEF Restrict
<1>8. QED
  BY <1>1, <1>6, <1>7 DEF Stored

\* A group goes away when somebody deletes it, and only then: no handler that
\* writes or renames loses one, whatever is written between its transactions.
THEOREM GroupsAreKept == GroupsSpec => OnlyDeletesLoseGroups
<1>1. ASSUME GroupsInv, [GroupsNext]_groupsVars, NEW k \in DOMAIN groups \ DOMAIN groups'
      PROVE  \/ DeleteGroup(k)
             \/ \E j \in DOMAIN groups' \ DOMAIN groups :
                  groups'[j].members = groups[k].members
  <2>1. CASE groups' = groups
    BY <2>1
  <2>2. ASSUME NEW c \in Clients, Handle(c)
        PROVE  \E j \in DOMAIN groups' \ DOMAIN groups :
                 groups'[j].members = groups[k].members
    <3>1. CASE FinishCreate(c) \/ SaveMembers(c) \/ FinishRemove(c)
      BY <3>1 DEF FinishCreate, SaveMembers, FinishRemove, Commit, Write
    <3>2. CASE RenameGroup(c)
      <4>1. MayRename(req[c].group.name, req[c].to)
        BY <3>2 DEF RenameGroup
      <4>2. groups' = Renamed(req[c].group.name, req[c].to)
        BY <3>2, <4>1 DEF RenameGroup, Commit
      <4>3. req[c].group.name \in Names /\ req[c].to \in Names
        BY <1>1, <3>2, InHand DEF RenameGroup, GroupsInv, NothingDerivedInHand
      <4>4. QED
        BY <1>1, <4>1, <4>2, <4>3, RenamedMoves
    <3>3. QED
      BY <2>2, <3>1, <3>2 DEF Handle
  <2>3. ASSUME NEW n \in Names, DeleteGroup(n) PROVE DeleteGroup(k)
    <3>1. groups' = Restrict(groups, DOMAIN groups \ {GroupKey(n)})
      BY <2>3 DEF DeleteGroup, AtOnce, Commit
    <3>2. k = GroupKey(n)
      BY <3>1 DEF Restrict
    <3>3. GroupKey(k) = GroupKey(n) /\ k \notin Derived
      BY <2>3, <3>2 DEF GroupKey, DeleteGroup
    <3>4. QED
      BY <2>3, <3>3 DEF DeleteGroup, Exists
  <2>4. ASSUME NEW h \in Systems, NEW names \in SUBSET Names,
               SetSystemGroups(h, names)
        PROVE  FALSE
    BY <2>4 DEF SetSystemGroups, AtOnce, Commit, InExactly
  <2>5. ASSUME NEW h \in Systems, DeleteSystem(h) PROVE FALSE
    BY <2>5 DEF DeleteSystem, WithoutHost
  <2>6. QED
    BY <1>1, <2>1, <2>2, <2>3, <2>4, <2>5, OthersLeaveGroups
<1>2. GroupsInv /\ [GroupsNext]_groupsVars =>
        [\A k \in DOMAIN groups \ DOMAIN groups' :
           \/ DeleteGroup(k)
           \/ \E j \in DOMAIN groups' \ DOMAIN groups :
                groups'[j].members = groups[k].members]_groupsVars
  BY <1>1
<1>3. QED
  BY <1>2, GroupsInvariant, PTL DEF GroupsSpec, OnlyDeletesLoseGroups

\* What RemoveMember has in hand names nobody the stored group does not, until
\* somebody else writes.
Unraced(c) ==
  req[c].op = "remove" /\ c \notin raced =>
    /\ Exists(req[c].group.name)
    /\ req[c].group.members \subseteq Stored(req[c].group.name).members
NothingNewInHand == \A c \in Clients : Unraced(c)

\* It stays so for a handler that is where it was, if whoever writes marks it.
LEMMA UnracedStays ==
  ASSUME NEW c \in Clients, Unraced(c), req'[c] = req[c],
         req[c] # Idle /\ c \notin raced' => groups' = groups /\ c \notin raced
  PROVE  Unraced(c)'
  BY DEF Unraced, Exists, Stored, Idle

\* A transaction of one handler leaves it to the others.
LEMMA HandleKeepsUnraced ==
  ASSUME GroupsInv, NothingNewInHand, NEW c \in Clients, Handle(c)
  PROVE  NothingNewInHand'
<1> SUFFICES ASSUME NEW d \in Clients PROVE Unraced(d)'
  BY DEF NothingNewInHand
<1>1. \/ req' = [req EXCEPT ![c] = Idle]
      \/ req' = [req EXCEPT ![c] = [req[c] EXCEPT !.op = "rename"]]
  BY DEF Handle, FinishCreate, SaveMembers, RenameGroup, FinishRemove
<1>2. req[c] \in Running /\ req \in [Clients -> {Idle} \cup Running]
  BY InHand DEF Handle, FinishCreate, SaveMembers, RenameGroup, FinishRemove,
     GroupsInv, ReqOK
<1>3. CASE d = c
  <2>1. req'[d].op # "remove"
    BY <1>1, <1>2, <1>3 DEF Idle, Running
  <2>2. QED
    BY <2>1 DEF Unraced
<1>4. CASE d # c
  <2>1. req'[d] = req[d]
    BY <1>1, <1>2, <1>4
  <2>2. req[d] # Idle /\ d \notin raced' => groups' = groups /\ d \notin raced
    BY <1>4 DEF Handle, FinishCreate, SaveMembers, RenameGroup, FinishRemove,
       Commit
  <2>3. QED
    BY <2>1, <2>2, UnracedStays DEF NothingNewInHand
<1>5. QED
  BY <1>3, <1>4

\* A handler that begins holds the group as it is stored.
LEMMA StartKeepsUnraced ==
  ASSUME GroupsInv, NothingNewInHand, NEW c \in Clients, NEW r, Begin(c, r),
         r.op = "remove" =>
           /\ Exists(r.group.name)
           /\ r.group.members \subseteq Stored(r.group.name).members
  PROVE  NothingNewInHand'
<1> SUFFICES ASSUME NEW d \in Clients PROVE Unraced(d)'
  BY DEF NothingNewInHand
<1>1. /\ groups' = groups /\ raced' = raced \ {c}
      /\ req' = [req EXCEPT ![c] = r] /\ req \in [Clients -> {Idle} \cup Running]
  BY DEF Begin, GroupsInv, ReqOK
<1>2. CASE d = c
  BY <1>1, <1>2 DEF Unraced, Exists, Stored
<1>3. CASE d # c
  BY <1>1, <1>3, UnracedStays DEF NothingNewInHand
<1>4. QED
  BY <1>2, <1>3

\* What is removed from a group is removed from the one that is stored.
LEMMA RemoveIsCurrent ==
  ASSUME GroupsInv, NEW n \in Names, NEW h \in Systems, Exists(n)
  PROVE  LET g == [Stored(n) EXCEPT !.members = @ \ {h}]
         IN  Exists(g.name) /\ g.members \subseteq Stored(g.name).members
<1> DEFINE g == [Stored(n) EXCEPT !.members = @ \ {h}]
<1>1. Stored(n) \in Group /\ GroupKey(Stored(n).name) = GroupKey(n)
  BY StoredIsGroup DEF GroupsInv, WellFormed, Exists, Stored
<1>2. g.name = Stored(n).name /\ g.members = Stored(n).members \ {h}
  BY <1>1 DEF Group
<1>3. QED
  BY <1>1, <1>2 DEF Exists, Stored

\* Every step keeps what handlers have in hand current until they are raced.
LEMMA StepKeepsUnraced ==
  ASSUME GroupsInv, NothingNewInHand, [GroupsNext]_groupsVars
  PROVE  NothingNewInHand'
<1>1. ASSUME NEW c \in Clients, Handle(c) PROVE NothingNewInHand'
  BY <1>1, HandleKeepsUnraced
<1>2. ASSUME NEW c \in Clients, NEW n \in Names, NEW members,
             CreateGroup(c, n, members)
      PROVE  NothingNewInHand'
  BY <1>2, StartKeepsUnraced DEF CreateGroup
<1>3. ASSUME NEW c \in Clients, NEW n \in Names, NEW to, NEW members,
             UpdateGroup(c, n, to, members)
      PROVE  NothingNewInHand'
  <2> DEFINE save == [op |-> "save", to |-> to,
                      group |-> [Stored(n) EXCEPT !.members = members]]
             move == [op |-> "rename", to |-> to, group |-> Stored(n)]
  <2>1. Begin(c, save) \/ Begin(c, move)
    BY <1>3 DEF UpdateGroup
  <2>2. save.op # "remove" /\ move.op # "remove"
    OBVIOUS
  <2> HIDE DEF save, move
  <2>3. QED
    BY <2>1, <2>2, StartKeepsUnraced
<1>4. ASSUME NEW c \in Clients, NEW n \in Names, NEW h \in Systems,
             RemoveMember(c, n, h)
      PROVE  NothingNewInHand'
  <2> DEFINE g == [Stored(n) EXCEPT !.members = @ \ {h}]
             r == [op |-> "remove", group |-> g]
  <2>1. Begin(c, r) /\ Exists(n)
    BY <1>4 DEF RemoveMember
  <2>2. Exists(g.name) /\ g.members \subseteq Stored(g.name).members
    BY <2>1, RemoveIsCurrent
  <2> HIDE DEF g
  <2>3. QED
    BY <2>1, <2>2, StartKeepsUnraced
<1>5. ASSUME NEW n \in Names, DeleteGroup(n) PROVE NothingNewInHand'
  BY <1>5, UnracedStays DEF DeleteGroup, AtOnce, Commit, NothingNewInHand
<1>6. ASSUME NEW h \in Systems, NEW names \in SUBSET Names,
             SetSystemGroups(h, names)
      PROVE  NothingNewInHand'
  BY <1>6, UnracedStays DEF SetSystemGroups, AtOnce, Commit, NothingNewInHand
<1>7. ASSUME NEW h \in Systems, DeleteSystem(h) PROVE NothingNewInHand'
  BY <1>7, UnracedStays DEF DeleteSystem, NothingNewInHand
<1>8. ASSUME NEW h \in Systems, CheckIn(h) PROVE NothingNewInHand'
  BY <1>8, UnracedStays DEF CheckIn, NothingNewInHand
<1>9. CASE ServerRestarts
  BY <1>9 DEF ServerRestarts, NothingNewInHand, Unraced, Idle
<1>10. CASE UNCHANGED groupsVars
  BY <1>10, UnracedStays DEF groupsVars, NothingNewInHand
<1>11. QED
  BY <1>1, <1>2, <1>3, <1>4, <1>5, <1>6, <1>7, <1>8, <1>9, <1>10 DEF GroupsNext

\* Only a deletion of a host adds to those that are evicted.
LEMMA OnlyDeletesEvict ==
  ASSUME [GroupsNext]_groupsVars
  PROVE  evicted' \subseteq evicted \/ \E d \in Systems : DeleteSystem(d)
<1>1. ASSUME NEW c \in Clients, NEW r, Begin(c, r) PROVE evicted' \subseteq evicted
  BY <1>1 DEF Begin
<1>2. ASSUME NEW c \in Clients, Handle(c) PROVE evicted' \subseteq evicted
  <2>1. CASE FinishCreate(c)
    BY <2>1 DEF FinishCreate, Commit
  <2>2. CASE SaveMembers(c)
    BY <2>2 DEF SaveMembers, Commit
  <2>3. CASE RenameGroup(c)
    BY <2>3 DEF RenameGroup, Commit
  <2>4. CASE FinishRemove(c)
    BY <2>4 DEF FinishRemove, Commit
  <2>5. QED
    BY <1>2, <2>1, <2>2, <2>3, <2>4 DEF Handle
<1>3. ASSUME NEW c \in Clients, NEW n \in Names,
             \/ \E members \in SUBSET Systems : CreateGroup(c, n, members)
             \/ \E to \in Names \cup {NoName},
                   members \in (SUBSET Systems) \cup {NoMembers} :
                  UpdateGroup(c, n, to, members)
             \/ \E h \in Systems : RemoveMember(c, n, h)
      PROVE  evicted' \subseteq evicted
  <2>1. \E r : Begin(c, r)
    BY <1>3 DEF CreateGroup, UpdateGroup, RemoveMember
  <2>2. QED
    BY <1>1, <2>1
<1>4. ASSUME NEW gs, NEW hosts, AtOnce(gs, hosts) PROVE evicted' \subseteq evicted
  BY <1>4 DEF AtOnce, Commit
<1>5. ASSUME NEW n \in Names, DeleteGroup(n) PROVE evicted' \subseteq evicted
  BY <1>4, <1>5 DEF DeleteGroup
<1>6. ASSUME NEW h \in Systems, NEW names \in SUBSET Names, SetSystemGroups(h, names)
      PROVE  evicted' \subseteq evicted
  BY <1>4, <1>6 DEF SetSystemGroups
<1>7. ASSUME NEW h \in Systems, CheckIn(h) PROVE evicted' \subseteq evicted
  BY <1>7 DEF CheckIn
<1>8. CASE ServerRestarts
  BY <1>8 DEF ServerRestarts
<1>9. CASE UNCHANGED groupsVars
  BY <1>9 DEF groupsVars
<1>10. QED
  BY <1>2, <1>3, <1>5, <1>6, <1>7, <1>8, <1>9 DEF GroupsNext

Nowhere(h, gs) == \A k \in DOMAIN gs : h \notin gs[k].members

\* Only a handler that had read the group before somebody else's write can put a
\* host back that nobody has named since it was deleted.
LEMMA EvictedStay ==
  ASSUME GroupsInv, NothingNewInHand, [GroupsNext]_groupsVars, NEW h \in evicted',
         h \in evicted => Nowhere(h, groups)
  PROVE  \/ Nowhere(h, groups')
         \/ \E c \in raced : req[c].op = "remove" /\ req'[c] = Idle
<1>1. CASE groups' = groups /\ h \in evicted
  BY <1>1 DEF Nowhere
<1>2. ASSUME NEW c \in Clients, Handle(c), groups' # groups
      PROVE  \/ Nowhere(h, groups')
             \/ \E d \in raced : req[d].op = "remove" /\ req'[d] = Idle
  <2> DEFINE g == req[c].group
  <2>1. g \in Group /\ g.name \in Names /\ h \in evicted /\ Nowhere(h, groups)
    BY <1>2, InHand DEF Handle, FinishCreate, SaveMembers, RenameGroup,
       FinishRemove, Commit
  <2>2. CASE FinishCreate(c) \/ SaveMembers(c)
    <3>1. groups' = Write(groups, g) /\ h \notin g.members
      BY <2>2 DEF FinishCreate, SaveMembers, Commit
    <3>2. QED
      BY <2>1, <3>1 DEF Write, Nowhere
  <2>3. CASE RenameGroup(c)
    <3> DEFINE to == req[c].to
               renamed == [Stored(g.name) EXCEPT !.name = to]
    <3>1. groups' = Renamed(g.name, to) /\ Exists(g.name)
      BY <1>2, <2>3 DEF RenameGroup, Commit, MayRename
    <3>2. h \notin renamed.members
      BY <2>1, <3>1, StoredIsGroup DEF GroupsInv, Group, Nowhere, Exists, Stored
    <3> HIDE DEF renamed
    <3>3. Nowhere(h, Write(groups, renamed))
      BY <2>1, <3>2 DEF Nowhere, Write
    <3>4. QED
      BY <3>1, <3>3 DEF Renamed, renamed, Restrict, Nowhere
  <2>4. CASE FinishRemove(c)
    <3>1. groups' = Write(groups, g) /\ req'[c] = Idle /\ req[c].op = "remove"
      BY <2>4 DEF FinishRemove, Commit, GroupsInv, ReqOK
    <3>2. CASE c \in raced
      BY <3>1, <3>2
    <3>3. CASE c \notin raced
      <4>1. Exists(g.name) /\ g.members \subseteq Stored(g.name).members
        BY <3>1, <3>3 DEF NothingNewInHand, Unraced
      <4>2. h \notin g.members
        BY <2>1, <4>1 DEF Nowhere, Exists, Stored
      <4>3. QED
        BY <2>1, <3>1, <4>2 DEF Nowhere, Write
    <3>4. QED
      BY <3>2, <3>3
  <2>5. QED
    BY <1>2, <2>2, <2>3, <2>4 DEF Handle
<1>3. ASSUME NEW n \in Names, DeleteGroup(n) PROVE Nowhere(h, groups')
  BY <1>3 DEF DeleteGroup, AtOnce, Commit, Restrict, Nowhere
<1>4. ASSUME NEW d \in Systems, NEW names \in SUBSET Names,
             SetSystemGroups(d, names)
      PROVE  Nowhere(h, groups')
  <2>1. /\ groups' = InExactly(d, {GroupKey(n) : n \in names})
        /\ h \in evicted /\ (names # {} => h # d)
    BY <1>4 DEF SetSystemGroups, AtOnce, Commit
  <2>2. QED
    BY <2>1 DEF InExactly, Nowhere, GroupsInv, WellFormed, Group
<1>5. ASSUME NEW d \in Systems, DeleteSystem(d) PROVE Nowhere(h, groups')
  <2>1. groups' = WithoutHost(d) /\ (h \in evicted \/ h = d)
    BY <1>5 DEF DeleteSystem
  <2>2. QED
    BY <2>1 DEF WithoutHost, Nowhere, GroupsInv, WellFormed, Group
<1>6. groups' = groups => h \in evicted \/ \E d \in Systems : DeleteSystem(d)
  BY OnlyDeletesEvict
<1>7. QED
  BY <1>1, <1>2, <1>3, <1>4, <1>5, <1>6, OthersLeaveGroups

\* A host deleted from the dashboard is in no group again until a write names
\* it, or a handler that removes another member, and had read the group before
\* somebody else wrote, writes it back.
THEOREM EvictedStayOut == GroupsSpec => EvictedUnlessRaced
<1>1. GroupsInit => NothingNewInHand
  BY DEF GroupsInit, NothingNewInHand, Unraced, Idle
<1>2. GroupsSpec => []NothingNewInHand
  BY <1>1, StepKeepsUnraced, GroupsInvariant, PTL DEF GroupsSpec
<1>3. GroupsInv /\ NothingNewInHand /\ [GroupsNext]_groupsVars =>
        [\A h \in evicted' :
           (h \in evicted => \A k \in DOMAIN groups : h \notin groups[k].members)
             => \/ \A k \in DOMAIN groups' : h \notin groups'[k].members
                \/ \E c \in raced : req[c].op = "remove" /\ req'[c] = Idle]_groupsVars
  BY EvictedStay DEF Nowhere
<1>4. QED
  BY <1>2, <1>3, GroupsInvariant, PTL DEF GroupsSpec, EvictedUnlessRaced
==============================================================================
