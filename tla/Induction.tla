------------------------------ MODULE Induction ------------------------------
(***************************************************************************)
(* Induction over the natural numbers, as a fact about sets: what holds of *)
(* zero, and of n + 1 whenever it holds of n, holds of every number.  The  *)
(* sets of numbers below one are well founded under inclusion, and a       *)
(* smallest of those below a counterexample is the least counterexample.   *)
(***************************************************************************)
EXTENDS Integers, Sequences, FiniteSetTheorems, WellFoundedInduction, TLAPS

\* Induction, for whatever the proofs compute by recursion: the walk of a
\* program's fields, the value of digits, powers of ten and lengths in bits.
LEMMA NatSetInduction ==
    ASSUME NEW S, 0 \in S, \A n \in Nat : n \in S => n + 1 \in S
    PROVE  \A n \in Nat : n \in S
<1> DEFINE T == {n \in Nat : n \notin S}
           U == {0..n : n \in T}
<1>1. SUFFICES ASSUME T # {}
               PROVE  FALSE
    OBVIOUS
<1>2. U # {}
    BY <1>1
<1>3. U \subseteq FiniteSubsetsOf(Nat)
    <2>1. SUFFICES ASSUME NEW n \in Nat
                   PROVE  0..n \in SUBSET Nat /\ IsFiniteSet(0..n)
        BY DEF FiniteSubsetsOf
    <2>2. 0 \in Int /\ n \in Int
        OBVIOUS
    <2>3. IsFiniteSet(0..n)
        BY <2>2, FS_Interval
    <2> QED
        BY <2>3
<1>4. PICK I \in U : \A J \in U : ~(<<J, I>> \in StrictSubsetOrdering(Nat))
    <2> HIDE DEF U
    <2> QED
        BY <1>2, <1>3, WFMin, FS_StrictSubsetOrderingWellFounded
<1>5. PICK x \in T : I = 0..x
    BY <1>4
<1>6. x \in Nat /\ x # 0 /\ x - 1 \in Nat /\ x - 1 \in T
    BY <1>5
<1>7. 0..(x - 1) \in U
    BY <1>6
<1>8. <<0..(x - 1), I>> \in StrictSubsetOrdering(Nat)
    <2>1. 0..(x - 1) \in SUBSET Nat /\ I \in SUBSET Nat
        BY <1>5, <1>6
    <2>2. 0..(x - 1) \subseteq I /\ 0..(x - 1) # I
        BY <1>5, <1>6
    <2> QED
        BY <2>1, <2>2 DEF StrictSubsetOrdering
<1> QED
    BY <1>4, <1>7, <1>8

\* Numbers below one another: what holds of a number whenever it holds of all
\* those below it holds of every number.
LEMMA NatSetStrongInduction ==
    ASSUME NEW S, \A n \in Nat : (\A m \in Nat : m < n => m \in S) => n \in S
    PROVE  \A n \in Nat : n \in S
<1> DEFINE T == {n \in Nat : \A m \in Nat : m < n => m \in S}
<1>1. 0 \in T
    OBVIOUS
<1>2. \A n \in Nat : n \in T => n + 1 \in T
    <2>1. SUFFICES ASSUME NEW n \in Nat, n \in T, NEW m \in Nat, m < n + 1
                   PROVE  m \in S
        OBVIOUS
    <2>2. \A k \in Nat : k < m => k < n
        BY <2>1
    <2> QED
        BY <2>1, <2>2
<1>3. \A n \in Nat : n \in T
    <2> HIDE DEF T
    <2> QED
        BY <1>1, <1>2, NatSetInduction
<1> QED
    BY <1>3

-----------------------------------------------------------------------------
\* Recursion: a value for zero, and for every other number what step makes of it
\* and of the value at a smaller number.  Both are functions and not operators.

Recurs(f, base, step, less, n) ==
    IF n = 0 THEN f[n] = base ELSE f[n] = step[n][f[less[n]]]

UpTo(f, T, base, step, less, n) ==
    f \in [0..n -> T] /\ \A m \in 0..n : Recurs(f, base, step, less, m)

\* Two such functions agree as far as both go.
LEMMA RecursionAgrees ==
    ASSUME NEW T, NEW base, NEW step, NEW less,
           \A n \in Nat \ {0} : less[n] \in Nat /\ less[n] < n
    PROVE  \A k, n \in Nat : \A f, g :
               UpTo(f, T, base, step, less, k) /\ UpTo(g, T, base, step, less, n)
                   => \A m \in Nat : m <= k /\ m <= n => f[m] = g[m]
<1> SUFFICES ASSUME NEW k \in Nat, NEW n \in Nat, NEW f, NEW g,
                    UpTo(f, T, base, step, less, k), UpTo(g, T, base, step, less, n)
             PROVE  \A m \in Nat : m <= k /\ m <= n => f[m] = g[m]
    OBVIOUS
<1> DEFINE S == {m \in Nat : m <= k /\ m <= n => f[m] = g[m]}
<1>1. \A m \in Nat : (\A l \in Nat : l < m => l \in S) => m \in S
    <2>1. SUFFICES ASSUME NEW m \in Nat, \A l \in Nat : l < m => l \in S, m <= k, m <= n
                   PROVE  f[m] = g[m]
        OBVIOUS
    <2>2. Recurs(f, base, step, less, m) /\ Recurs(g, base, step, less, m)
        BY <2>1 DEF UpTo
    <2>3. m # 0 => f[less[m]] = g[less[m]]
        BY <2>1
    <2> QED
        BY <2>2, <2>3 DEF Recurs
<1>2. \A m \in Nat : m \in S
    <2> HIDE DEF S
    <2> QED
        BY <1>1, NatSetStrongInduction
<1> QED
    BY <1>2

\* So there is one for all numbers.
LEMMA NatRecursion ==
    ASSUME NEW T, NEW base \in T, NEW step \in [Nat -> [T -> T]], NEW less,
           \A n \in Nat \ {0} : less[n] \in Nat /\ less[n] < n
    PROVE  \E f \in [Nat -> T] : \A n \in Nat : Recurs(f, base, step, less, n)
<1> DEFINE Good(f, n) == UpTo(f, T, base, step, less, n)
           S == {n \in Nat : \E f : Good(f, n)}
<1>1. 0 \in S
    <2> DEFINE f == [m \in 0..0 |-> base]
    <2>1. f \in [0..0 -> T] /\ \A m \in 0..0 : m = 0 /\ f[m] = base
        OBVIOUS
    <2> HIDE DEF f
    <2>2. Good(f, 0)
        BY <2>1 DEF UpTo, Recurs
    <2> QED
        BY <2>2
<1>2. \A n \in Nat : n \in S => n + 1 \in S
    <2>1. SUFFICES ASSUME NEW n \in Nat, NEW f, Good(f, n)
                   PROVE  \E g : Good(g, n + 1)
        OBVIOUS
    <2>2. f \in [0..n -> T] /\ \A m \in 0..n : Recurs(f, base, step, less, m)
        BY <2>1 DEF UpTo
    <2>3. less[n + 1] \in 0..n
        <3>1. n + 1 \in Nat \ {0}
            OBVIOUS
        <3>2. less[n + 1] \in Nat /\ less[n + 1] < n + 1
            BY <3>1
        <3> QED
            BY <3>2
    <2> DEFINE x == step[n + 1][f[less[n + 1]]]
               g == [m \in 0..(n + 1) |-> IF m = n + 1 THEN x ELSE f[m]]
    <2>4. x \in T
        <3>1. n + 1 \in Nat /\ f[less[n + 1]] \in T
            BY <2>2, <2>3
        <3> QED
            BY <3>1
    <2>5. g \in [0..(n + 1) -> T]
        <3>1. \A m \in 0..(n + 1) : m # n + 1 => m \in 0..n
            OBVIOUS
        <3> HIDE DEF x
        <3> QED
            BY <2>2, <2>4, <3>1
    <2>6. g[n + 1] = x /\ \A m \in 0..n : g[m] = f[m]
        <3>1. n + 1 \in 0..(n + 1) /\ \A m \in 0..n : m \in 0..(n + 1) /\ m # n + 1
            OBVIOUS
        <3> HIDE DEF x
        <3> QED
            BY <3>1
    <2> HIDE DEF g
    <2>7. ASSUME NEW m \in 0..(n + 1)
          PROVE  Recurs(g, base, step, less, m)
        <3>1. CASE m = n + 1
            <4>1. g[less[n + 1]] = f[less[n + 1]] /\ g[n + 1] = step[n + 1][f[less[n + 1]]]
                <5> HIDE DEF Good
                <5> QED
                    BY <2>3, <2>6
            <4>2. n + 1 # 0
                OBVIOUS
            <4> QED
                BY <3>1, <4>1, <4>2 DEF Recurs
        <3>2. CASE m # n + 1
            <4>0. m \in 0..n
                BY <3>2
            <4>1. m \in 0..n /\ Recurs(f, base, step, less, m) /\ g[m] = f[m]
                BY <2>2, <2>6, <4>0
            <4>2. m # 0 => less[m] \in 0..n
                <5>1. m # 0 => m \in Nat \ {0} /\ m <= n
                    BY <4>1
                <5>2. m # 0 => less[m] \in Nat /\ less[m] < m
                    BY <5>1
                <5> QED
                    BY <5>1, <5>2
            <4>3. m # 0 => g[less[m]] = f[less[m]]
                BY <2>6, <4>2
            <4> QED
                BY <4>1, <4>3 DEF Recurs
        <3> QED
            BY <3>1, <3>2
    <2>8. Good(g, n + 1)
        BY <2>5, <2>7 DEF UpTo
    <2> QED
        BY <2>8
<1>3. \A n \in Nat : n \in S
    <2> HIDE DEF S
    <2> QED
        BY <1>1, <1>2, NatSetInduction
<1> DEFINE G == [n \in Nat |-> CHOOSE f : Good(f, n)]
           F == [n \in Nat |-> G[n][n]]
<1>4. \A n \in Nat : Good(G[n], n)
    <2> HIDE DEF Good
    <2> QED
        BY <1>3
<1> HIDE DEF G
<1>5. \A n \in Nat : G[n] \in [0..n -> T] /\ Recurs(G[n], base, step, less, n)
    BY <1>4 DEF UpTo
<1>6. F \in [Nat -> T]
    BY <1>5
<1>7. ASSUME NEW n \in Nat
      PROVE  Recurs(F, base, step, less, n)
    <2>1. CASE n = 0
        BY <1>5, <2>1 DEF Recurs
    <2>2. CASE n # 0
        <3>1. less[n] \in Nat /\ less[n] < n
            BY <2>2
        <3>2. G[n][less[n]] = G[less[n]][less[n]]
            <4>1. PICK k \in Nat : k = less[n] /\ k <= n
                BY <3>1
            <4>2. UpTo(G[n], T, base, step, less, n) /\ UpTo(G[k], T, base, step, less, k)
                BY <1>4
            <4> HIDE DEF F, Good, S
            <4>3. \A i, j \in Nat : \A f, g :
                      UpTo(f, T, base, step, less, i) /\ UpTo(g, T, base, step, less, j)
                          => \A m \in Nat : m <= i /\ m <= j => f[m] = g[m]
                BY RecursionAgrees
            <4>4. \A m \in Nat : m <= n /\ m <= k => G[n][m] = G[k][m]
                BY <4>2, <4>3
            <4> QED
                BY <4>1, <4>4
        <3>3. F[n] = G[n][n] /\ F[less[n]] = G[less[n]][less[n]]
            BY <3>1
        <3> HIDE DEF F
        <3> QED
            BY <1>5, <2>2, <3>2, <3>3 DEF Recurs
    <2> QED
        BY <2>1, <2>2
<1> QED
    BY <1>6, <1>7

\* A set of natural numbers that is not empty has a least one.
LEMMA LeastNumber ==
    ASSUME NEW S \in SUBSET Nat, S # {}
    PROVE  \E n \in S : \A m \in S : n <= m
<1> DEFINE T == {n \in Nat : n \notin S}
<1>1. SUFFICES ASSUME \A n \in S : \E m \in S : ~(n <= m)
               PROVE  FALSE
    OBVIOUS
<1>2. \A n \in Nat : (\A m \in Nat : m < n => m \in T) => n \in T
    <2>1. SUFFICES ASSUME NEW n \in Nat, \A m \in Nat : m < n => m \in T, n \in S
                   PROVE  FALSE
        OBVIOUS
    <2>2. PICK m \in S : ~(n <= m)
        BY <1>1, <2>1
    <2>3. m \in Nat /\ m < n
        BY <2>2
    <2> QED
        BY <2>1, <2>3
<1>3. \A n \in Nat : n \in T
    <2> HIDE DEF T
    <2> QED
        BY <1>2, NatSetStrongInduction
<1> QED
    BY <1>3

-----------------------------------------------------------------------------
\* Reading a sequence: a function of the places 1..(n + 1), whose value at a place
\* is given where reading stops, passed over for the one at the next place, or
\* that one behind a thing read here.

PlaceReads(g, i, stops, last, skips, tok, next) ==
    g[i] = IF i \in stops THEN last[i]
           ELSE IF i \in skips THEN g[next[i]] ELSE <<tok[i]>> \o g[next[i]]

\* Is h such a function?
IsRead(h, n, stops, last, skips, tok, next) ==
    \A i \in 1..(n + 1) : PlaceReads(h, i, stops, last, skips, tok, next)

\* Does reading neither stop before j, pass over it nor jump past it?
Reaches(j, stops, skips, next) ==
    /\ j \notin stops /\ j \notin skips
    /\ \A i \in 1..(j - 1) : i \notin stops /\ next[i] <= j

\* A way to read things of T, always further on, until the end at the latest.
ReadsOnward(n, T, stops, last, skips, tok, next) ==
    /\ n + 1 \in stops
    /\ \A i \in 1..(n + 1) :
           IF i \in stops THEN last[i] \in Seq(T)
           ELSE /\ i \in skips \/ tok[i] \in T
                /\ next[i] \in (i + 1)..(n + 1)

\* Counting back from the end.
LEMMA CountingBack ==
    ASSUME NEW n \in Nat
    PROVE  /\ \A k \in Nat : k <= n => n + 1 - k \in 1..(n + 1)
           /\ \A k \in Nat, next \in 1..(n + 1) :
                  k <= n /\ next > n + 1 - k =>
                      \E j \in Nat : j < k /\ j <= n /\ n + 1 - j = next
           /\ \A i \in 1..(n + 1) : \E k \in Nat : k <= n /\ i = n + 1 - k /\ k = n + 1 - i
<1>1. ASSUME NEW k \in Nat, NEW next \in 1..(n + 1), k <= n, next > n + 1 - k
      PROVE  \E j \in Nat : j < k /\ j <= n /\ n + 1 - j = next
    <2>1. n + 1 - next \in Nat /\ n + 1 - next < k /\ n + 1 - next <= n /\ n + 1 - (n + 1 - next) = next
        BY <1>1
    <2> QED
        BY <2>1
<1>2. ASSUME NEW i \in 1..(n + 1)
      PROVE  \E k \in Nat : k <= n /\ i = n + 1 - k /\ k = n + 1 - i
    <2>1. n + 1 - i \in Nat /\ n + 1 - i <= n /\ i = n + 1 - (n + 1 - i)
        OBVIOUS
    <2> QED
        BY <2>1
<1> QED
    BY <1>1, <1>2

\* What holds of a place whenever it holds of all behind it holds of every place.
LEMMA DownwardInduction ==
    ASSUME NEW n \in Nat, NEW S,
           \A i \in 1..(n + 1) : (\A m \in (i + 1)..(n + 1) : m \in S) => i \in S
    PROVE  \A i \in 1..(n + 1) : i \in S
<1> DEFINE D == {k \in Nat : k <= n => n + 1 - k \in S}
<1>1. \A k \in Nat : (\A j \in Nat : j < k => j \in D) => k \in D
    <2>1. SUFFICES ASSUME NEW k \in Nat, \A j \in Nat : j < k => j \in D, k <= n
                   PROVE  n + 1 - k \in S
        OBVIOUS
    <2>2. PICK i \in 1..(n + 1) : i = n + 1 - k
        BY <2>1, CountingBack
    <2>3. \A m \in (i + 1)..(n + 1) : m \in S
        <3>1. SUFFICES ASSUME NEW m \in (i + 1)..(n + 1)
                       PROVE  m \in S
            OBVIOUS
        <3>2. m \in 1..(n + 1) /\ m > n + 1 - k
            BY <2>2
        <3>3. PICK j \in Nat : j < k /\ j <= n /\ n + 1 - j = m
            BY <2>1, <3>2, CountingBack
        <3>4. j \in D
            BY <2>1, <3>3
        <3> QED
            BY <3>3, <3>4
    <2> QED
        BY <2>2, <2>3
<1>2. \A k \in Nat : k \in D
    <2> HIDE DEF D
    <2> QED
        BY <1>1, NatSetStrongInduction
<1>3. SUFFICES ASSUME NEW i \in 1..(n + 1)
               PROVE  i \in S
    OBVIOUS
<1>4. PICK k \in Nat : k <= n /\ i = n + 1 - k
    BY CountingBack
<1> QED
    BY <1>2, <1>4

\* Whatever satisfies the equation holds sequences of what is read.
LEMMA ReadingIsTyped ==
    ASSUME NEW n \in Nat, NEW T, NEW stops, NEW last, NEW skips, NEW tok, NEW next,
           ReadsOnward(n, T, stops, last, skips, tok, next), NEW h,
           IsRead(h, n, stops, last, skips, tok, next)
    PROVE  \A i \in 1..(n + 1) : h[i] \in Seq(T)
<1> DEFINE S == {i \in 1..(n + 1) : h[i] \in Seq(T)}
<1>1. ASSUME NEW i \in 1..(n + 1), \A m \in (i + 1)..(n + 1) : m \in S
      PROVE  h[i] \in Seq(T)
    <2>1. PlaceReads(h, i, stops, last, skips, tok, next)
        BY DEF IsRead
    <2>2. CASE i \in stops
        BY <2>1, <2>2 DEF PlaceReads, ReadsOnward
    <2>3. CASE i \notin stops /\ i \in skips
        <3>1. next[i] \in (i + 1)..(n + 1)
            BY <2>3 DEF ReadsOnward
        <3> QED
            BY <1>1, <2>1, <2>3, <3>1 DEF PlaceReads
    <2>4. CASE i \notin stops /\ i \notin skips
        <3>1. next[i] \in (i + 1)..(n + 1) /\ tok[i] \in T
            BY <2>4 DEF ReadsOnward
        <3>2. <<tok[i]>> \o h[next[i]] \in Seq(T)
            BY <1>1, <3>1
        <3> QED
            BY <2>1, <2>4, <3>2 DEF PlaceReads
    <2> QED
        BY <2>2, <2>3, <2>4
<1>2. \A i \in 1..(n + 1) : i \in S
    <2> HIDE DEF S
    <2>1. \A i \in 1..(n + 1) : (\A m \in (i + 1)..(n + 1) : m \in S) => i \in S
        BY <1>1 DEF S
    <2> QED
        BY <2>1, DownwardInduction
<1> QED
    BY <1>2

\* A sequence can be read.
LEMMA ReadingExists ==
    ASSUME NEW n \in Nat, NEW T, NEW stops, NEW last, NEW skips, NEW tok, NEW next,
           ReadsOnward(n, T, stops, last, skips, tok, next)
    PROVE  \E g : /\ DOMAIN g = 1..(n + 1) /\ g = [i \in 1..(n + 1) |-> g[i]]
                  /\ IsRead(g, n, stops, last, skips, tok, next)
<1> DEFINE at(k) == n + 1 - k
           step == [k \in Nat |-> [x \in Seq(T) |->
                       IF k > n THEN x
                       ELSE IF at(k) \in stops THEN last[at(k)]
                       ELSE IF at(k) \in skips THEN x ELSE <<tok[at(k)]>> \o x]]
           less == [k \in Nat |-> IF k > n \/ at(k) \in stops THEN k - 1 ELSE n + 1 - next[at(k)]]
<1>1. \A k \in Nat : k <= n => at(k) \in 1..(n + 1)
    BY CountingBack
<1>2. step \in [Nat -> [Seq(T) -> Seq(T)]]
    <2>1. SUFFICES ASSUME NEW k \in Nat, NEW x \in Seq(T), ~(k > n)
                   PROVE  /\ at(k) \in stops => last[at(k)] \in Seq(T)
                          /\ at(k) \notin stops /\ at(k) \notin skips => <<tok[at(k)]>> \o x \in Seq(T)
        OBVIOUS
    <2>2. at(k) \in 1..(n + 1)
        BY <1>1, <2>1
    <2> HIDE DEF at
    <2>3. at(k) \in stops => last[at(k)] \in Seq(T)
        BY <2>2 DEF ReadsOnward
    <2>4. at(k) \notin stops /\ at(k) \notin skips => tok[at(k)] \in T
        BY <2>2 DEF ReadsOnward
    <2> QED
        BY <2>3, <2>4
<1>3. \A k \in Nat \ {0} : less[k] \in Nat /\ less[k] < k
    <2>1. SUFFICES ASSUME NEW k \in Nat \ {0}
                   PROVE  less[k] \in Nat /\ less[k] < k
        OBVIOUS
    <2>2. CASE k > n \/ at(k) \in stops
        BY <2>2
    <2>3. CASE ~(k > n \/ at(k) \in stops)
        <3>1. PICK i \in 1..(n + 1) : i = at(k)
            BY <1>1, <2>3
        <3>2. next[i] \in (i + 1)..(n + 1)
            BY <2>3, <3>1 DEF ReadsOnward
        <3>3. less[k] = n + 1 - next[i]
            BY <2>3, <3>1
        <3>4. i = n + 1 - k
            BY <3>1
        <3> HIDE DEF less, at
        <3> QED
            BY <3>2, <3>3, <3>4
    <2> QED
        BY <2>2, <2>3
<1> HIDE DEF step, less
<1>4. PICK f \in [Nat -> Seq(T)] : \A k \in Nat : Recurs(f, last[n + 1], step, less, k)
    <2>1. last[n + 1] \in Seq(T)
        <3>1. n + 1 \in 1..(n + 1)
            OBVIOUS
        <3> QED
            BY <3>1 DEF ReadsOnward
    <2> QED
        BY <1>2, <1>3, <2>1, NatRecursion
<1> DEFINE g == [i \in 1..(n + 1) |-> f[n + 1 - i]]
<1>5. ASSUME NEW i \in 1..(n + 1)
      PROVE  PlaceReads(g, i, stops, last, skips, tok, next)
    <2>1. PICK k \in Nat : k <= n /\ i = n + 1 - k /\ k = n + 1 - i
        BY CountingBack
    <2>2. g[i] = f[k] /\ Recurs(f, last[n + 1], step, less, k) /\ i = at(k) /\ ~(k > n)
        BY <1>4, <2>1
    <2>3. CASE k = 0
        <3>1. i = n + 1 /\ i \in stops
            BY <2>1, <2>3 DEF ReadsOnward
        <3> HIDE DEF g
        <3> QED
            BY <2>2, <2>3, <3>1 DEF PlaceReads, Recurs
    <2>4. CASE k # 0
        <3>1. less[k] \in Nat /\ f[less[k]] \in Seq(T) /\ f[k] = step[k][f[less[k]]]
            BY <1>3, <1>4, <2>2, <2>4 DEF Recurs
        <3>2. step[k][f[less[k]]] = IF i \in stops THEN last[i]
                                    ELSE IF i \in skips THEN f[less[k]] ELSE <<tok[i]>> \o f[less[k]]
            BY <2>2, <3>1 DEF step
        <3>3. i \notin stops => g[next[i]] = f[less[k]]
            <4>1. SUFFICES ASSUME i \notin stops
                           PROVE  g[next[i]] = f[less[k]]
                OBVIOUS
            <4>2. next[i] \in 1..(n + 1)
                <5>1. PICK m \in (i + 1)..(n + 1) : m = next[i]
                    <6> HIDE DEF g
                    <6> QED
                        BY <4>1 DEF ReadsOnward
                <5>2. m \in 1..(n + 1)
                    OBVIOUS
                <5> QED
                    BY <5>1, <5>2
            <4>3. less[k] = n + 1 - next[i]
                BY <2>2, <4>1 DEF less
            <4> QED
                BY <4>2, <4>3
        <3> HIDE DEF g
        <3> QED
            BY <2>2, <3>1, <3>2, <3>3 DEF PlaceReads
    <2> QED
        BY <2>3, <2>4
<1>6. DOMAIN g = 1..(n + 1) /\ g = [i \in 1..(n + 1) |-> g[i]]
    OBVIOUS
<1> HIDE DEF g
<1> QED
    BY <1>5, <1>6 DEF IsRead

\* What stands where reading neither stops, passes over nor jumps past is read.
LEMMA ReadingReaches ==
    ASSUME NEW n \in Nat, NEW T, NEW stops, NEW last, NEW skips, NEW tok, NEW next,
           ReadsOnward(n, T, stops, last, skips, tok, next), NEW h,
           IsRead(h, n, stops, last, skips, tok, next),
           NEW j \in 1..n, Reaches(j, stops, skips, next)
    PROVE  h[1] \in Seq(T) /\ \E k \in DOMAIN h[1] : h[1][k] = tok[j]
<1> USE DEF IsRead, Reaches
<1> DEFINE Has(q) == \E k \in DOMAIN q : q[k] = tok[j]
           S == {d \in Nat : d < j => Has(h[j - d])}
<1>1. \A i \in 1..(n + 1) : h[i] \in Seq(T)
    BY ReadingIsTyped
<1>2. \A q \in Seq(T), x \in T : /\ Has(q) => Has(<<x>> \o q)
                                 /\ x = tok[j] => Has(<<x>> \o q)
    <2>1. SUFFICES ASSUME NEW q \in Seq(T), NEW x \in T
                   PROVE  /\ Has(q) => Has(<<x>> \o q)
                          /\ x = tok[j] => Has(<<x>> \o q)
        OBVIOUS
    <2> DEFINE r == <<x>> \o q
    <2>2. Len(r) = Len(q) + 1 /\ r[1] = x /\ \A k \in 1..Len(q) : r[k + 1] = q[k]
        OBVIOUS
    <2>3. r \in Seq(T) /\ Len(q) \in Nat
        OBVIOUS
    <2> HIDE DEF r
    <2>4. DOMAIN r = 1..(Len(q) + 1) /\ DOMAIN q = 1..Len(q)
        BY <2>2, <2>3
    <2>5. x = tok[j] => Has(r)
        <3>1. 1 \in DOMAIN r
            BY <2>3, <2>4
        <3> QED
            BY <2>2, <3>1
    <2>6. Has(q) => Has(r)
        <3>1. SUFFICES ASSUME NEW k \in DOMAIN q, q[k] = tok[j]
                       PROVE  Has(r)
            OBVIOUS
        <3>2. k + 1 \in DOMAIN r /\ r[k + 1] = tok[j]
            BY <2>2, <2>3, <2>4, <3>1
        <3> QED
            BY <3>2
    <2> QED
        BY <2>5, <2>6 DEF r
<1>3. ASSUME NEW i \in 1..j, \A m \in (i + 1)..j : Has(h[m])
      PROVE  Has(h[i])
    <2>1. i \in 1..(n + 1) /\ PlaceReads(h, i, stops, last, skips, tok, next)
        OBVIOUS
    <2>2. CASE i = j
        <3>1. next[j] \in (j + 1)..(n + 1) /\ tok[j] \in T
            BY <2>1, <2>2 DEF ReadsOnward
        <3>2. h[next[j]] \in Seq(T)
            <4>1. next[j] \in 1..(n + 1)
                BY <3>1
            <4> QED
                BY <1>1, <4>1
        <3>3. h[i] = <<tok[j]>> \o h[next[j]]
            BY <2>1, <2>2 DEF PlaceReads
        <3> HIDE DEF Has
        <3> QED
            BY <1>2, <3>1, <3>2, <3>3
    <2>3. CASE i # j
        <3>1. i \in 1..(j - 1) /\ i \notin stops
            BY <2>3
        <3>2. next[i] \in (i + 1)..(n + 1) /\ (i \in skips \/ tok[i] \in T) /\ next[i] <= j
            BY <2>1, <3>1 DEF ReadsOnward
        <3>3. next[i] \in (i + 1)..j /\ next[i] \in 1..(n + 1)
            BY <3>2
        <3>4. Has(h[next[i]]) /\ h[next[i]] \in Seq(T)
            BY <1>1, <1>3, <3>3
        <3>5. h[i] = IF i \in skips THEN h[next[i]] ELSE <<tok[i]>> \o h[next[i]]
            BY <2>1, <3>1 DEF PlaceReads
        <3> HIDE DEF Has
        <3> QED
            BY <1>2, <3>2, <3>4, <3>5
    <2> QED
        BY <2>2, <2>3
<1>4. \A d \in Nat : (\A e \in Nat : e < d => e \in S) => d \in S
    <2>1. SUFFICES ASSUME NEW d \in Nat, \A e \in Nat : e < d => e \in S, d < j
                   PROVE  Has(h[j - d])
        OBVIOUS
    <2>2. PICK i \in 1..j : i = j - d
        <3>1. j - d \in 1..j
            BY <2>1
        <3> QED
            BY <3>1
    <2>3. \A m \in (i + 1)..j : Has(h[m])
        <3>1. SUFFICES ASSUME NEW m \in (i + 1)..j
                       PROVE  Has(h[m])
            OBVIOUS
        <3>2. PICK e \in Nat : e = j - m /\ m = j - e /\ e < d /\ e < j
            <4>1. j - m \in Nat /\ m = j - (j - m) /\ j - m < d /\ j - m < j
                BY <2>2
            <4> QED
                BY <4>1
        <3>3. e \in S
            BY <2>1, <3>2
        <3> HIDE DEF Has
        <3> QED
            BY <3>2, <3>3
    <2> HIDE DEF Has
    <2> QED
        BY <1>3, <2>2, <2>3
<1>5. \A d \in Nat : d \in S
    <2> HIDE DEF S
    <2> QED
        BY <1>4, NatSetStrongInduction
<1>6. Has(h[1])
    <2>1. PICK d \in Nat : d = j - 1 /\ d < j /\ j - d = 1
        <3>1. j - 1 \in Nat /\ j - 1 < j /\ j - (j - 1) = 1
            OBVIOUS
        <3> QED
            BY <3>1
    <2>2. d \in S
        BY <1>5
    <2> HIDE DEF Has
    <2> QED
        BY <2>1, <2>2
<1> QED
    BY <1>1, <1>6

=============================================================================
