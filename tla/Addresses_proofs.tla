-------------------------- MODULE Addresses_proofs --------------------------
(***************************************************************************)
(* Proofs about addresses of any width: the search of Netalloc for a free  *)
(* one, in every subnet and for every set of addresses in use, and what    *)
(* becomes of the lists the URL serves (Routes), for any networks, blocked *)
(* ranges and limits.                                                      *)
(***************************************************************************)
EXTENDS Netalloc, Routes, FiniteSetTheorems, FunctionTheorems, TLAPS

USE WidthAssumption

-----------------------------------------------------------------------------
(* Arithmetic: powers of two and division.  A power of two is the number of  *)
(* subsets of an interval, which is how the library knows it.                *)

\* The quotient is the number of whole divisors in a number.
LEMMA DivBounds ==
    ASSUME NEW x \in Nat, NEW m \in Nat \ {0}
    PROVE  /\ x \div m \in Nat
           /\ m * (x \div m) <= x
           /\ x < m * ((x \div m) + 1)
OBVIOUS

\* A number without remainder is its divisor times the quotient.
LEMMA DivExact ==
    ASSUME NEW x \in Nat, NEW m \in Nat \ {0}, x % m = 0
    PROVE  x = m * (x \div m)
OBVIOUS

\* A product grows with its factors.
LEMMA MulMono ==
    ASSUME NEW m \in Nat, NEW p \in Nat, NEW q \in Nat, p <= q
    PROVE  m * p <= m * q
OBVIOUS

\* No other number has the bounds of the quotient.
LEMMA DivUnique ==
    ASSUME NEW x \in Nat, NEW m \in Nat \ {0}, NEW q \in Nat, m * q <= x, x < m * (q + 1)
    PROVE  x \div m = q
<1> DEFINE e == x \div m
<1>1. e \in Nat /\ m * e <= x /\ x < m * (e + 1)
  BY DivBounds
<1>2. ~ (q >= e + 1)
  <2>1. q >= e + 1 => m * (e + 1) <= m * q
    BY <1>1, MulMono
  <2> HIDE DEF e
  <2> QED
    BY <1>1, <2>1
<1>3. ~ (e >= q + 1)
  <2>1. e >= q + 1 => m * (q + 1) <= m * e
    BY <1>1, MulMono
  <2> HIDE DEF e
  <2> QED
    BY <1>1, <2>1
<1> QED
  BY <1>1, <1>2, <1>3

\* To divide twice is to divide by the product.
LEMMA DivDiv ==
    ASSUME NEW x \in Nat, NEW m \in Nat \ {0}, NEW d \in Nat \ {0}
    PROVE  x \div (m * d) = (x \div m) \div d
<1> DEFINE e == x \div m
           q == e \div d
<1>1. e \in Nat /\ m * e <= x /\ x < m * (e + 1)
  BY DivBounds
<1>2. q \in Nat /\ d * q <= e /\ e < d * (q + 1)
  BY <1>1, DivBounds
<1> HIDE DEF e, q
<1>3. m * (d * q) <= m * e /\ m * (e + 1) <= m * (d * (q + 1))
  BY <1>1, <1>2, MulMono
<1>4. (m * d) * q = m * (d * q) /\ (m * d) * (q + 1) = m * (d * (q + 1))
  BY <1>2
<1>5. m * d \in Nat \ {0}
  OBVIOUS
<1>6. (m * d) * q <= x /\ x < (m * d) * (q + 1)
  BY <1>1, <1>2, <1>3, <1>4, <1>5
<1>7. x \div (m * d) = q
  BY <1>2, <1>5, <1>6, DivUnique
<1> QED
  BY <1>7 DEF e, q

\* A power of two is a positive number.
LEMMA PowerPositive ==
    ASSUME NEW k \in Nat
    PROVE  2^k \in Nat \ {0}
<1> DEFINE S == 1..k
<1>1. IsFiniteSet(S) /\ Cardinality(S) = k
  BY FS_Interval
<1>2. IsFiniteSet(SUBSET S) /\ Cardinality(SUBSET S) = 2^k
  BY <1>1, FS_SUBSET
<1>3. SUBSET S # {}
  OBVIOUS
<1> HIDE DEF S
<1> QED
  BY <1>2, <1>3, FS_CardinalityType, FS_EmptySet

\* Powers of two are multiplied by adding their exponents.
LEMMA PowerSum ==
    ASSUME NEW k \in Nat, NEW m \in Nat
    PROVE  2^(k + m) = 2^k * 2^m
<1> DEFINE A == 1..k
           B == (k+1)..(k+m)
           f == [X \in SUBSET (A \cup B) |-> <<X \cap A, X \cap B>>]
<1>1. /\ IsFiniteSet(A) /\ Cardinality(A) = k
      /\ IsFiniteSet(B) /\ Cardinality(B) = m
  BY FS_Interval
<1>2. A \cup B = 1..(k + m) /\ A \cap B = {}
  OBVIOUS
<1>3. IsFiniteSet(A \cup B) /\ Cardinality(A \cup B) = k + m
  <2>1. \A n \in Nat : IsFiniteSet(1..n) /\ Cardinality(1..n) = n
    BY FS_Interval
  <2>2. k + m \in Nat
    OBVIOUS
  <2> HIDE DEF A, B
  <2> QED
    BY <1>2, <2>1, <2>2
<1> HIDE DEF A, B
<1>4. f \in Bijection(SUBSET (A \cup B), (SUBSET A) \X (SUBSET B))
  <2>1. f \in [SUBSET (A \cup B) -> (SUBSET A) \X (SUBSET B)]
    OBVIOUS
  <2>2. ASSUME NEW X \in SUBSET (A \cup B), NEW Y \in SUBSET (A \cup B), f[X] = f[Y]
        PROVE  X = Y
    <3>1. X \cap A = Y \cap A /\ X \cap B = Y \cap B
      BY <2>2
    <3> QED
      BY <3>1
  <2>3. ASSUME NEW t \in (SUBSET A) \X (SUBSET B)
        PROVE  \E X \in SUBSET (A \cup B) : f[X] = t
    <3>1. PICK V \in SUBSET A, W \in SUBSET B : t = <<V, W>>
      OBVIOUS
    <3>2. V \cup W \in SUBSET (A \cup B)
      OBVIOUS
    <3>3. (V \cup W) \cap A = V /\ (V \cup W) \cap B = W
      BY <1>2
    <3> QED
      BY <3>1, <3>2, <3>3
  <2> QED
    BY <2>1, <2>2, <2>3, Fun_IsBij
<1>5. /\ IsFiniteSet(SUBSET A) /\ Cardinality(SUBSET A) = 2^k
      /\ IsFiniteSet(SUBSET B) /\ Cardinality(SUBSET B) = 2^m
      /\ IsFiniteSet(SUBSET (A \cup B)) /\ Cardinality(SUBSET (A \cup B)) = 2^(k + m)
  BY <1>1, <1>3, FS_SUBSET
<1>6. /\ IsFiniteSet((SUBSET A) \X (SUBSET B))
      /\ Cardinality((SUBSET A) \X (SUBSET B)) = 2^k * 2^m
  <2> DEFINE S == SUBSET A
             T == SUBSET B
  <2>1. IsFiniteSet(S) /\ IsFiniteSet(T) /\ Cardinality(S) = 2^k /\ Cardinality(T) = 2^m
    BY <1>5
  <2> HIDE DEF S, T
  <2>2. IsFiniteSet(S \X T) /\ Cardinality(S \X T) = Cardinality(S) * Cardinality(T)
    BY <2>1, FS_Product
  <2>3. IsFiniteSet(S \X T) /\ Cardinality(S \X T) = 2^k * 2^m
    BY <2>1, <2>2
  <2> QED
    BY <2>3 DEF S, T
<1>7. ExistsBijection(SUBSET (A \cup B), (SUBSET A) \X (SUBSET B))
  <2> DEFINE Bijections == Bijection(SUBSET (A \cup B), (SUBSET A) \X (SUBSET B))
  <2>1. f \in Bijections
    BY <1>4
  <2> HIDE DEF f, Bijections
  <2>2. Bijections # {}
    BY <2>1
  <2>3. Bijection(SUBSET (A \cup B), (SUBSET A) \X (SUBSET B)) # {}
    BY <2>2 DEF Bijections
  <2> QED
    BY <2>3, Fun_ExistsBij, Zenon
<1>8. Cardinality(SUBSET (A \cup B)) = Cardinality((SUBSET A) \X (SUBSET B))
  BY <1>5, <1>7, FS_Bijection
<1> QED
  BY <1>5, <1>6, <1>8

-----------------------------------------------------------------------------
(* The search for a free address.                                            *)

\* There is at least one address.
LEMMA WordsPositive == Words \in Nat \ {0}
BY PowerPositive DEF Words

\* A number that fits a word is its own remainder.
LEMMA WordMod ==
    ASSUME NEW m \in Nat, m < Words
    PROVE  m % Words = m
BY WordsPositive

\* A remainder is a word.
LEMMA ModWord ==
    ASSUME NEW m \in Nat
    PROVE  m % Words \in Address
BY WordsPositive DEF Address

\* The subnet lies in the address space and the loop starts at a word.
LEMMA InitType == AllocInit => AllocTypeOK
<1> SUFFICES ASSUME AllocInit PROVE AllocTypeOK
  OBVIOUS
<1>1. size \in 1..Words /\ network \in 0..(Words - size)
  BY DEF AllocInit, Sizes
<1>2. ip \in Address
  BY <1>1, ModWord DEF AllocInit
<1> QED
  BY <1>1, <1>2, WordsPositive DEF AllocInit, AllocTypeOK, Address

\* A step of the loop keeps the types.
LEMMA NextType == AllocTypeOK /\ [AllocNext]_allocVars => AllocTypeOK'
<1> SUFFICES ASSUME AllocTypeOK, [AllocNext]_allocVars PROVE AllocTypeOK'
  OBVIOUS
<1>1. CASE TryNext
  <2>1. ip' \in Address
    BY <1>1, ModWord DEF TryNext, AllocTypeOK, Address
  <2> QED
    BY <1>1, <2>1 DEF TryNext, AllocTypeOK
<1> QED
  BY <1>1 DEF AllocNext, Found, Full, allocVars, AllocTypeOK

\* The variables keep their types, and the subnet stays in the address space.
THEOREM TypeCorrect == AllocSpec => []AllocTypeOK
BY InitType, NextType, PTL DEF AllocSpec

\* The loop invariant: every usable address before ip is in use, and ip
\* tells how the loop ended.
LoopInv ==
    Fits => /\ ip >= network + 2
            /\ \A j \in Usable : j < ip => j \in used
            /\ outcome = "found" => ip < Broadcast /\ ip \notin used
            /\ outcome = "full" => ip >= Broadcast

\* The loop starts at the first usable address.
LEMMA InitLoop == AllocInit => LoopInv
<1> SUFFICES ASSUME AllocInit, Fits PROVE LoopInv
  BY DEF LoopInv
<1>1. network \in Nat /\ size \in Nat
  BY InitType DEF AllocTypeOK, Address
<1>2. ip = network + 2
  BY <1>1, WordMod DEF AllocInit, Fits
<1> QED
  BY <1>1, <1>2 DEF AllocInit, LoopInv, Usable, Broadcast

\* Each turn of the loop leaves one more address in use behind it; it cannot
\* wrap, since it stops before the broadcast address.
LEMMA NextLoop == AllocTypeOK /\ LoopInv /\ [AllocNext]_allocVars => LoopInv'
<1> SUFFICES ASSUME AllocTypeOK, LoopInv, [AllocNext]_allocVars, Fits' PROVE LoopInv'
  BY DEF LoopInv
<1>1. CASE TryNext
  <2>1. /\ UNCHANGED <<network, size, used, outcome>>
        /\ ip < Broadcast /\ ip \in used /\ outcome = "search"
    BY <1>1 DEF TryNext
  <2>2. ip + 1 \in Nat /\ ip + 1 < Words
    BY <2>1, WordsPositive DEF AllocTypeOK, Address, Broadcast
  <2>3. ip' = ip + 1
    BY <1>1, <2>2, WordMod DEF TryNext
  <2>4. Fits /\ network \in Nat /\ size \in Nat /\ ip \in Nat
    BY <2>1 DEF Fits, AllocTypeOK, Address
  <2> QED
    BY <2>1, <2>3, <2>4 DEF LoopInv, Usable, Broadcast
<1>2. CASE Found \/ Full \/ UNCHANGED allocVars
  BY <1>2 DEF Found, Full, allocVars, LoopInv, Fits, Usable, Broadcast
<1> QED
  BY <1>1, <1>2 DEF AllocNext

\* In a subnet whose first usable address is a word, Allocate returns the first
\* usable address that is not in use.
THEOREM AllocateFirstFree == AllocSpec => []FirstFree
<1>1. AllocTypeOK /\ LoopInv => FirstFree
  BY DEF AllocTypeOK, LoopInv, FirstFree, Usable, Broadcast, Address
<1> QED
  BY <1>1, InitType, NextType, InitLoop, NextLoop, PTL DEF AllocSpec

\* In such a subnet Allocate gives up only when every usable address is in use.
THEOREM AllocateFull == AllocSpec => []FullMeansFull
<1>1. AllocTypeOK /\ LoopInv => FullMeansFull
  BY DEF AllocTypeOK, LoopInv, FullMeansFull, Usable, Broadcast, Address
<1> QED
  BY <1>1, InitType, NextType, InitLoop, NextLoop, PTL DEF AllocSpec

\* What is left of the search: the addresses not tried yet, and the answer.
Left == IF outcome # "search" THEN 0
        ELSE IF ip < Broadcast THEN Broadcast - ip + 1 ELSE 1

\* The loop of Allocate cannot run for ever: every step of it, in every subnet and with
\* any addresses in use, leaves less of the search, which is a natural number.
THEOREM SearchShrinks == AllocSpec => [](Left \in Nat) /\ [][Left' < Left]_allocVars
<1>1. AllocTypeOK => Left \in Nat
  BY WordsPositive DEF AllocTypeOK, Left, Address, Broadcast
<1>2. AllocTypeOK /\ [AllocNext]_allocVars => [Left' < Left]_allocVars
  <2> SUFFICES ASSUME AllocTypeOK, AllocNext PROVE Left' < Left
    OBVIOUS
  <2>1. CASE TryNext
    <3>1. /\ UNCHANGED <<network, size, used, outcome>>
          /\ ip < Broadcast /\ outcome = "search"
      BY <2>1 DEF TryNext
    <3>2. ip + 1 \in Nat /\ ip + 1 < Words /\ ip \in Nat /\ network \in Nat /\ size \in Nat
      BY <3>1, WordsPositive DEF AllocTypeOK, Address, Broadcast
    <3>3. ip' = ip + 1
      BY <2>1, <3>2, WordMod DEF TryNext
    <3> QED
      BY <3>1, <3>2, <3>3 DEF Left, Broadcast
  <2>2. CASE Found \/ Full
    <3>1. outcome = "search" /\ Left' = 0
      BY <2>2 DEF Found, Full, Left
    <3> QED
      BY <3>1, WordsPositive DEF AllocTypeOK, Left, Address, Broadcast
  <2> QED
    BY <2>1, <2>2 DEF AllocNext
<1> QED
  BY <1>1, <1>2, InitType, NextType, PTL DEF AllocSpec

-----------------------------------------------------------------------------
(* The list in use is whole.                                                 *)

\* A list was over the limit of a body, and may have been cut.
Cut == \E l \in offered : Cardinality(l) > MaxBody

\* What is served has been offered, and what has been read is one of the lists that
\* were, unless one was cut.
ReadInv ==
    /\ served = Down \/ served \in offered
    /\ offered \subseteq SUBSET Offer
    /\ at = "fetched" => body \in offered \/ Cut
    /\ WholeOrNothing

\* The list has been served, as a whole, or one was cut.
LEMMA ReadAlways == Spec => []ReadInv
<1>1. Init => ReadInv
  BY DEF Init, ReadInv, WholeOrNothing, Lists
<1>2. ReadInv /\ [Next]_vars => ReadInv'
  <2> SUFFICES ASSUME ReadInv, [Next]_vars PROVE ReadInv'
    OBVIOUS
  <2>1. CASE Fetch
    <3>1. served \in offered /\ UNCHANGED <<served, offered, list>>
      BY <2>1 DEF Fetch, ReadInv
    <3>2. CASE Cardinality(served) <= MaxBody
      BY <2>1, <3>1, <3>2 DEF Fetch, Read, ReadInv, WholeOrNothing
    <3>3. CASE ~ Cardinality(served) <= MaxBody
      <4>1. Cut
        <5>1. Cardinality(served) \in Nat /\ MaxBody \in Nat
          BY <3>1, RoutesAssumption, FS_Subset, FS_CardinalityType DEF ReadInv
        <5> QED
          BY <3>1, <3>3, <5>1 DEF Cut
      <4> QED
        BY <3>1, <4>1 DEF ReadInv, WholeOrNothing, Cut
    <3> QED
      BY <3>2, <3>3
  <2>2. CASE FetchFails \/ UNCHANGED vars
    BY <2>2 DEF FetchFails, vars, ReadInv, WholeOrNothing, Cut
  <2>3. CASE Update
    BY <2>3 DEF Update, ReadInv, WholeOrNothing, Cut
  <2>4. CASE Publish
    <3>1. offered \subseteq offered' /\ UNCHANGED <<at, body, list>>
      BY <2>4 DEF Publish
    <3>2. /\ served' = Down \/ served' \in offered'
          /\ offered' \subseteq SUBSET Offer
      BY <2>4 DEF Publish, ReadInv, Lists
    <3> QED
      BY <3>1, <3>2 DEF ReadInv, WholeOrNothing, Cut
  <2> QED
    BY <2>1, <2>2, <2>3, <2>4 DEF Next
<1> QED
  BY <1>1, <1>2, PTL DEF Spec

\* The list in use is the embedded one, or one that was served, as a whole:
\* WholeOrNothing.
THEOREM ListIsWhole == Spec => []WholeOrNothing
<1>1. ReadInv => WholeOrNothing
  BY DEF ReadInv
<1> QED
  BY <1>1, ReadAlways, PTL

-----------------------------------------------------------------------------
(* The list in use catches up.                                               *)

\* What has been read is of what the URL serves now.
FetchedNow == at = "fetched" /\ body \in Read(served)

\* The list is the one that is served, if that is one to use, and no other is on its way.
Settled == served = Down \/ (Current /\ (at = "fetched" => FetchedNow))

\* The steps of Run until the list is settled: a body that was read before the URL
\* changed is still used, and then the next tick reads the new one.
Distance ==
    CASE Settled                                            -> 0
      [] ~ Settled /\ FetchedNow                            -> 1
      [] ~ Settled /\ ~ FetchedNow /\ at = "tick"           -> 2
      [] ~ Settled /\ ~ FetchedNow /\ at # "tick"           -> 3

\* A step of Run, and any other one, brings the list nearer to the one that is served.
Nearer ==
    served' = served => /\ Distance' <= Distance
                        /\ Fetch \/ Update => Distance' < Distance \/ Distance' = 0

\* A body that is read whole is the list.
LEMMA ReadWhole ==
    ASSUME ReadInv, served # Down, NEW b \in Read(served)
    PROVE  b = served \/ Cardinality(served) > MaxBody
<1>1. Cardinality(served) \in Nat /\ MaxBody \in Nat
  BY RoutesAssumption, FS_Subset, FS_CardinalityType DEF ReadInv
<1> QED
  BY <1>1 DEF Read

\* The safety half of CatchesUp, for any lists and limits: as long as the URL serves the
\* same, the list in use comes nearer to it with every request and every update, in three
\* of them at most, and never goes away from it again.
THEOREM ListSettles == Spec => [][Nearer]_vars
<1>1. ReadInv /\ [Next]_vars => [Nearer]_vars
  <2> SUFFICES ASSUME ReadInv, Next, served' = served
               PROVE  /\ Distance' <= Distance
                      /\ Fetch \/ Update => Distance' < Distance \/ Distance' = 0
    BY DEF Nearer
  <2>1. Distance \in 0..3 /\ (Settled <=> Distance = 0) /\ (Settled' <=> Distance' = 0)
    BY DEF Distance
  <2>2. CASE Fetch
    <3>1. FetchedNow' /\ UNCHANGED list /\ at = "tick"
      BY <2>2 DEF Fetch, FetchedNow
    <3>2. Settled => Settled'
      BY <3>1 DEF Settled, Current
    <3>3. ~ Settled => Distance = 2
      BY <3>1 DEF Distance, FetchedNow
    <3>4. Distance' \in {0, 1}
      BY <3>1 DEF Distance
    <3> QED
      BY <2>1, <3>2, <3>3, <3>4
  <2>3. CASE Update
    <3>1. at = "fetched" /\ at' = "tick" /\ (list' = IF ValidateAndClean(body) THEN body ELSE list)
      BY <2>3 DEF Update
    <3>2. FetchedNow => Settled'
      BY <3>1, ReadWhole DEF FetchedNow, Settled, Current
    <3>3. ~ FetchedNow => Distance = 3 \/ served = Down
      BY <3>1 DEF Distance, Settled
    <3>4. Distance' \in {0, 2}
      BY <3>1 DEF Distance, FetchedNow
    <3>5. served = Down => Settled'
      BY DEF Settled
    <3> QED
      BY <2>1, <3>2, <3>3, <3>4, <3>5
  <2>4. CASE FetchFails \/ Publish
    <3>1. UNCHANGED <<served, at, body, list>> /\ ~ Fetch /\ ~ Update
      BY <2>4 DEF FetchFails, Publish, Fetch, Update, vars
    <3>2. Distance' = Distance
      BY <3>1 DEF Distance, Settled, FetchedNow, Current
    <3> QED
      BY <2>1, <3>1, <3>2
  <2> QED
    BY <2>2, <2>3, <2>4 DEF Next
<1> QED
  BY <1>1, ReadAlways, PTL DEF Spec

-----------------------------------------------------------------------------
(* Networks.                                                                 *)

\* The addresses of a network are as many as those of a longer one, times a number.
LEMMA LongerDivides ==
    ASSUME NEW n \in Network, NEW b \in Network, b.len <= n.len
    PROVE  \E d \in Nat \ {0} : Bits(n) \in Nat \ {0} /\ Bits(b) = Bits(n) * d
<1>1. n.len \in 0..Width /\ b.len \in 0..Width /\ Width \in Nat
  BY RoutesAssumption DEF Network
<1>2. /\ Width - n.len \in Nat /\ n.len - b.len \in Nat
      /\ Width - b.len = (Width - n.len) + (n.len - b.len)
  BY <1>1
<1>3. 2^(Width - b.len) = 2^(Width - n.len) * 2^(n.len - b.len)
  BY <1>2, PowerSum
<1>4. 2^(Width - n.len) \in Nat \ {0} /\ 2^(n.len - b.len) \in Nat \ {0}
  BY <1>2, PowerPositive
<1> QED
  BY <1>3, <1>4 DEF Bits

\* An address is a number.
LEMMA AddressNat == Address \subseteq Nat
<1>1. 2^Width \in Nat \ {0}
  BY RoutesAssumption, PowerPositive
<1> QED
  BY <1>1 DEF Address

\* A network that shares an address with a shorter one lies within it.
LEMMA Nested ==
    ASSUME NEW n \in Network, NEW b \in Network, b.len <= n.len,
           NEW a \in Address, Covers(n, a), Covers(b, a)
    PROVE  Covers(b, n.base)
<1>1. PICK d \in Nat \ {0} : Bits(n) \in Nat \ {0} /\ Bits(b) = Bits(n) * d
  BY LongerDivides
<1>2. a \in Nat /\ n.base \in Nat
  BY AddressNat DEF Network
<1>3. /\ a \div Bits(b) = (a \div Bits(n)) \div d
      /\ n.base \div Bits(b) = (n.base \div Bits(n)) \div d
  BY <1>1, <1>2, DivDiv
<1>4. a \div Bits(n) = n.base \div Bits(n) /\ a \div Bits(b) = b.base \div Bits(b)
  BY DEF Covers
<1> QED
  BY <1>3, <1>4 DEF Covers

\* The base of a network without host bits is its first address.
LEMMA BaseIsFirst ==
    ASSUME NEW n \in Network, HostBits(n) = 0, NEW a \in Address, Covers(n, a)
    PROVE  n.base <= a
<1> DEFINE m == Bits(n)
           q == n.base \div m
<1>1. m \in Nat \ {0}
  BY LongerDivides DEF Network
<1>2. a \in Nat /\ n.base \in Nat
  BY AddressNat DEF Network
<1>3. n.base % m = 0 /\ a \div m = q
  BY DEF HostBits, Covers
<1>4. n.base = m * q
  BY <1>1, <1>2, <1>3, DivExact
<1>5. m * (a \div m) <= a
  BY <1>1, <1>2, DivBounds
<1> QED
  BY <1>3, <1>4, <1>5

\* What is accepted holds no blocked address, unless it is wider than the blocked
\* network and begins before it.
LEMMA AcceptedIsWider ==
    ASSUME NEW n \in Network, Accepts(n), NEW b \in Blocked, NEW a \in Address,
           Covers(n, a), Covers(b, a)
    PROVE  n.len < b.len /\ n.base < b.base
<1>1. b \in Network /\ b.base \in Address /\ ~ Covers(b, n.base) /\ HostBits(n) = 0
  BY RoutesAssumption DEF Network, Accepts, isBlocked
<1>2. n.len \in Nat /\ b.len \in Nat /\ n.base \in Nat /\ b.base \in Nat
  <2>1. Width \in Nat /\ n.len \in 0..Width /\ b.len \in 0..Width
    BY <1>1, RoutesAssumption DEF Network
  <2>2. n.base \in Nat /\ b.base \in Nat
    BY <1>1, AddressNat DEF Network
  <2> QED
    BY <2>1, <2>2
<1>3. n.len < b.len
  <2>1. ASSUME b.len <= n.len PROVE FALSE
    BY <1>1, <2>1, Nested
  <2> QED
    BY <1>2, <2>1
<1>4. Covers(n, b.base)
  BY <1>1, <1>2, <1>3, Nested
<1>5. n.base <= b.base
  BY <1>1, <1>4, BaseIsFirst
<1>6. n.base # b.base
  BY <1>1 DEF Covers
<1> QED
  BY <1>2, <1>3, <1>5, <1>6

-----------------------------------------------------------------------------
(* The list in use is one that was validated.                                *)

\* What is fetched consists of networks and entries that do not parse, and the list
\* in use of networks that were accepted.
CleanInv ==
    /\ served = Down \/ served \subseteq Network \cup {Junk}
    /\ body \subseteq Network \cup {Junk}
    /\ \A n \in list : n \in Network /\ Accepts(n)

\* A list that is cut short still consists of such entries.
LEMMA CutEntries ==
    ASSUME NEW l, l \subseteq Network \cup {Junk}, NEW r \in Read(l)
    PROVE  r \subseteq Network \cup {Junk}
<1>1. ASSUME NEW n \in l, NEW rest \in Stump(n) PROVE rest \subseteq Network \cup {Junk}
  <2>1. CASE rest \in {{}, {Junk}}
    BY <2>1
  <2>2. ASSUME n # Junk, NEW k \in 1 .. n.len - 1, rest = {[n EXCEPT !.len = k]}
        PROVE  rest \subseteq Network \cup {Junk}
    <3>1. n \in Network
      BY <2>2
    <3>2. n.len \in 0..Width /\ Width \in Nat
      BY <3>1, RoutesAssumption DEF Network
    <3>3. k \in 0..Width
      BY <2>2, <3>2
    <3> QED
      BY <2>2, <3>1, <3>3 DEF Network
  <2> QED
    BY <1>1, <2>1, <2>2 DEF Stump
<1>2. CASE r = l
  BY <1>2
<1>3. ASSUME NEW kept \in SUBSET l, NEW rest \in UNION {Stump(n) : n \in l \ kept},
             r = kept \cup rest
      PROVE  r \subseteq Network \cup {Junk}
  <2>1. rest \subseteq Network \cup {Junk}
    BY <1>1, <1>3
  <2> QED
    BY <1>3, <2>1
<1> QED
  BY <1>2, <1>3 DEF Read

\* No address of a blocked network is in the list, but by a network wider than it
\* that begins before it, for any blocked networks and whatever the URL serves:
\* OnlyWiderBlocked.
THEOREM BlockedStayOut == Spec => []OnlyWiderBlocked
<1>1. Init => CleanInv
  <2> SUFFICES ASSUME Init PROVE CleanInv
    OBVIOUS
  <2>1. \A n \in Default : n \in Network /\ Accepts(n)
    BY RoutesAssumption, DefaultAssumption DEF ValidateAndClean, Accepts
  <2> QED
    BY <2>1, RoutesAssumption DEF Init, CleanInv, Lists
<1>2. CleanInv /\ [Next]_vars => CleanInv'
  <2> SUFFICES ASSUME CleanInv, [Next]_vars PROVE CleanInv'
    OBVIOUS
  <2>1. CASE Fetch
    <3>1. served \subseteq Network \cup {Junk} /\ body' \in Read(served)
      BY <2>1 DEF Fetch, CleanInv
    <3>2. body' \subseteq Network \cup {Junk}
      BY <3>1, CutEntries
    <3> QED
      BY <2>1, <3>2 DEF Fetch, CleanInv
  <2>2. CASE FetchFails \/ UNCHANGED vars
    BY <2>2 DEF FetchFails, vars, CleanInv
  <2>3. CASE Update
    <3>1. list' = list \/ (list' = body /\ ValidateAndClean(body))
      BY <2>3 DEF Update
    <3>2. \A n \in list' : n \in Network /\ Accepts(n)
      BY <3>1 DEF CleanInv, ValidateAndClean, Accepts
    <3> QED
      BY <2>3, <3>2 DEF Update, CleanInv
  <2>4. CASE Publish
    BY <2>4, RoutesAssumption DEF Publish, CleanInv, Lists
  <2> QED
    BY <2>1, <2>2, <2>3, <2>4 DEF Next
<1>3. CleanInv => OnlyWiderBlocked
  BY AcceptedIsWider DEF CleanInv, OnlyWiderBlocked
<1> QED
  BY <1>1, <1>2, <1>3, PTL DEF Spec
=============================================================================
