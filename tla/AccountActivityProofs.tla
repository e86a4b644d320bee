----------------------- MODULE AccountActivityProofs -----------------------
(***************************************************************************)
(* Proofs about AccountActivity, for any accounts, content, sizes of the   *)
(* caches, factors and messages.                                           *)
(*                                                                         *)
(* Each account keeps by itself what it promises (Sound), and each step    *)
(* says by how much it moves the sums over all accounts (Counts); the two  *)
(* make RecordsInvariant. KindsInvariant adds where replies and quotes are. *)
(* Sums and concatenations are defined by recursion in the library: they   *)
(* are unfolded once, and what they satisfy follows from the absence of a  *)
(* minimal counterexample.                                                 *)
(***************************************************************************)
EXTENDS AccountActivity, FiniteSetTheorems, TLAPS

-----------------------------------------------------------------------------
(***************************************************************************)
(* Sums over a finite set. What holds of SumFunctionOnSet, which is        *)
(* defined by recursion, is shown by a minimal counterexample among the    *)
(* subsets.                                                                *)
(***************************************************************************)
Pick(s) == CHOOSE x \in s : TRUE

\* What the definition of SumFunctionOnSet chooses.
Sums(h, f, S) ==
    h = [s \in SUBSET S |->
            IF s = {} THEN 0 ELSE f[Pick(s)] + h[s \ {Pick(s)}]]

LEMMA SumUnfolds ==
    ASSUME NEW f, NEW S
    PROVE  SumFunctionOnSet(f, S) = (CHOOSE h : Sums(h, f, S))[S]
BY DEF SumFunctionOnSet, FoldFunctionOnSet, MapThenFoldSet, Sums, Pick

LEMMA SumsAt ==
    ASSUME NEW f, NEW U, NEW h, Sums(h, f, U), NEW s \in SUBSET U
    PROVE  h[s] = IF s = {} THEN 0 ELSE f[Pick(s)] + h[s \ {Pick(s)}]
BY DEF Sums

LEMMA MinimalSet ==
    ASSUME NEW S, IsFiniteSet(S), NEW Bad \in SUBSET (SUBSET S), Bad # {}
    PROVE  \E U \in Bad : \A V \in Bad : ~ (V \subseteq U /\ V # U)
<1>1. IsWellFoundedOn(StrictSubsetOrdering(S), SUBSET S)
  BY FS_StrictSubsetOrderingWellFounded, FS_FiniteSubsetsOfFinite
<1>2. PICK U \in Bad : \A V \in Bad : ~ (<<V, U>> \in StrictSubsetOrdering(S))
  BY <1>1, WFMin
<1> QED BY <1>2 DEF StrictSubsetOrdering

LEMMA SumsAgree ==
    ASSUME NEW f, NEW S, IsFiniteSet(S), NEW U \in SUBSET S, NEW V \in SUBSET S,
           NEW h, NEW k, Sums(h, f, U), Sums(k, f, V),
           NEW s, s \in SUBSET U, s \in SUBSET V
    PROVE  h[s] = k[s]
<1> DEFINE Bad == {t \in SUBSET (U \cap V) : h[t] # k[t]}
<1> SUFFICES ASSUME Bad # {} PROVE FALSE
  OBVIOUS
<1>1. PICK t \in Bad : \A v \in Bad : ~ (v \subseteq t /\ v # t)
  <2> Bad \in SUBSET (SUBSET S)
    OBVIOUS
  <2> HIDE DEF Bad
  <2> QED BY MinimalSet
<1>2. t # {}
  BY DEF Sums
<1>3. Pick(t) \in t
  BY <1>2 DEF Pick
<1>4. t \ {Pick(t)} \in SUBSET (U \cap V) /\ h[t \ {Pick(t)}] = k[t \ {Pick(t)}]
  BY <1>1, <1>3
<1>5. h[t] = f[Pick(t)] + h[t \ {Pick(t)}]
  BY <1>2, t \in SUBSET U DEF Sums
<1>6. k[t] = f[Pick(t)] + k[t \ {Pick(t)}]
  BY <1>2, t \in SUBSET V DEF Sums
<1> QED BY <1>4, <1>5, <1>6

LEMMA SumsExist ==
    ASSUME NEW f, NEW S, IsFiniteSet(S)
    PROVE  \E h : Sums(h, f, S)
<1> DEFINE Bad == {t \in SUBSET S : ~ \E h : Sums(h, f, t)}
<1> SUFFICES ASSUME Bad # {} PROVE FALSE
  OBVIOUS
<1>1. PICK U \in Bad : \A v \in Bad : ~ (v \subseteq U /\ v # U)
  <2> Bad \in SUBSET (SUBSET S)
    OBVIOUS
  <2> HIDE DEF Bad
  <2> QED BY MinimalSet
<1> DEFINE For(t) == CHOOSE h : Sums(h, f, t)
           Less(t) == t \ {Pick(t)}
           H == [t \in SUBSET U |->
                    IF t = {} THEN 0 ELSE f[Pick(t)] + For(Less(t))[Less(t)]]
<1>2. ASSUME NEW t \in SUBSET U, t # U PROVE Sums(For(t), f, t)
  BY <1>1, <1>2
<1> HIDE DEF For
<1>3. ASSUME NEW t \in SUBSET U, t # {}
      PROVE  Less(t) \in SUBSET U /\ Less(t) \in SUBSET t /\ Less(t) # t /\ Less(t) # U
  BY <1>3 DEF Pick
<1>4. ASSUME NEW t \in SUBSET U, t # U PROVE H[t] = For(t)[t]
  <2>1. CASE t = {}
    BY <2>1, <1>2, <1>4, SumsAt
  <2>2. CASE t # {}
    <3>1. For(t)[t] = f[Pick(t)] + For(t)[Less(t)]
      BY <2>2, <1>2, <1>4, SumsAt
    <3>2. Sums(For(t), f, t) /\ Sums(For(Less(t)), f, Less(t))
      BY <1>2, <1>3, <2>2, <1>4
    <3>3. For(t)[Less(t)] = For(Less(t))[Less(t)]
      <4>1. PICK v, h, k : v = Less(t) /\ h = For(t) /\ k = For(v)
        OBVIOUS
      <4>2. /\ Sums(h, f, t) /\ Sums(k, f, v)
            /\ t \in SUBSET S /\ v \in SUBSET S /\ v \in SUBSET t /\ v \in SUBSET v
        BY <1>3, <2>2, <3>2, <4>1
      <4>3. h[v] = k[v]
        BY <4>2, SumsAgree
      <4> QED BY <4>1, <4>3
    <3>4. H[t] = f[Pick(t)] + For(Less(t))[Less(t)]
      BY <2>2
    <3> QED BY <3>1, <3>3, <3>4
  <2> QED BY <2>1, <2>2
<1>5. ASSUME NEW t \in SUBSET U, t # {} PROVE H[t] = f[Pick(t)] + H[Less(t)]
  BY <1>3, <1>4, <1>5
<1>6. H = [t \in SUBSET U |-> IF t = {} THEN 0 ELSE f[Pick(t)] + H[Less(t)]]
  BY <1>5
<1>7. Sums(H, f, U)
  BY <1>6 DEF Sums
<1> QED BY <1>7

LEMMA SumIs ==
    ASSUME NEW f, NEW S, IsFiniteSet(S), NEW h, Sums(h, f, S), NEW T \in SUBSET S
    PROVE  SumFunctionOnSet(f, T) = h[T]
<1>1. IsFiniteSet(T)
  BY FS_Subset
<1> DEFINE k == CHOOSE k : Sums(k, f, T)
<1>2. Sums(k, f, T)
  BY <1>1, SumsExist
<1> HIDE DEF k
<1>3. k[T] = h[T]
  BY <1>2, SumsAgree
<1> QED BY <1>3, SumUnfolds DEF k

LEMMA SumAt ==
    ASSUME NEW f, NEW S, IsFiniteSet(S)
    PROVE  SumFunctionOnSet(f, S) =
              IF S = {} THEN 0
              ELSE f[Pick(S)] + SumFunctionOnSet(f, S \ {Pick(S)})
<1>1. PICK h : Sums(h, f, S)
  BY SumsExist
<1>2. SumFunctionOnSet(f, S) = h[S]
  BY <1>1, SumIs
<1>3. SumFunctionOnSet(f, S \ {Pick(S)}) = h[S \ {Pick(S)}]
  BY <1>1, SumIs
<1> QED BY <1>1, <1>2, <1>3, SumsAt

LEMMA SumEmpty == ASSUME NEW f PROVE SumFunctionOnSet(f, {}) = 0
BY SumAt, FS_EmptySet

LEMMA SumTyped ==
    ASSUME NEW f, NEW S, IsFiniteSet(S), \A i \in S : f[i] \in Int
    PROVE  SumFunctionOnSet(f, S) \in Int
<1> DEFINE Bad == {t \in SUBSET S : SumFunctionOnSet(f, t) \notin Int}
<1> SUFFICES ASSUME Bad # {} PROVE FALSE
  OBVIOUS
<1>1. PICK U \in Bad : \A v \in Bad : ~ (v \subseteq U /\ v # U)
  <2> Bad \in SUBSET (SUBSET S)
    OBVIOUS
  <2> HIDE DEF Bad
  <2> QED BY MinimalSet
<1>2. IsFiniteSet(U)
  BY FS_Subset
<1>3. U # {}
  BY SumEmpty
<1>4. Pick(U) \in U
  BY <1>3 DEF Pick
<1>5. SumFunctionOnSet(f, U \ {Pick(U)}) \in Int
  BY <1>1, <1>4
<1> QED BY <1>2, <1>3, <1>4, <1>5, SumAt

LEMMA SumSplit ==
    ASSUME NEW f, NEW S, IsFiniteSet(S), \A i \in S : f[i] \in Int, NEW x \in S
    PROVE  SumFunctionOnSet(f, S) = f[x] + SumFunctionOnSet(f, S \ {x})
<1> DEFINE Bad == {t \in SUBSET S : \E y \in t :
              SumFunctionOnSet(f, t) # f[y] + SumFunctionOnSet(f, t \ {y})}
<1> SUFFICES ASSUME Bad # {} PROVE FALSE
  OBVIOUS
<1>1. PICK U \in Bad : \A v \in Bad : ~ (v \subseteq U /\ v # U)
  <2> Bad \in SUBSET (SUBSET S)
    OBVIOUS
  <2> HIDE DEF Bad
  <2> QED BY MinimalSet
<1>2. PICK y \in U : SumFunctionOnSet(f, U) # f[y] + SumFunctionOnSet(f, U \ {y})
  OBVIOUS
<1>3. PICK p : p = Pick(U)
  OBVIOUS
<1>4. p \in U /\ p # y /\ IsFiniteSet(U)
      /\ SumFunctionOnSet(f, U) = f[p] + SumFunctionOnSet(f, U \ {p})
  <2>1. p \in U
    BY <1>2, <1>3 DEF Pick
  <2>2. IsFiniteSet(U)
    BY FS_Subset
  <2>3. SumFunctionOnSet(f, U) = f[p] + SumFunctionOnSet(f, U \ {p})
    BY <1>2, <1>3, <2>2, SumAt
  <2> QED BY <1>2, <2>1, <2>2, <2>3
<1>5. PICK both : both = (U \ {p}) \ {y} /\ both = (U \ {y}) \ {p}
  OBVIOUS
<1>6. SumFunctionOnSet(f, U \ {p}) = f[y] + SumFunctionOnSet(f, both)
  BY <1>1, <1>2, <1>4, <1>5
<1>7. SumFunctionOnSet(f, U \ {y}) = f[p] + SumFunctionOnSet(f, both)
  BY <1>1, <1>2, <1>4, <1>5
<1>8. SumFunctionOnSet(f, both) \in Int
  <2>1. both \in SUBSET S
    BY <1>5
  <2>2. IsFiniteSet(both)
    BY <2>1, FS_Subset
  <2> QED BY <2>1, <2>2, SumTyped
<1> QED BY <1>2, <1>4, <1>6, <1>7, <1>8

LEMMA SumSame ==
    ASSUME NEW f, NEW g, NEW S, IsFiniteSet(S), \A i \in S : f[i] = g[i]
    PROVE  SumFunctionOnSet(f, S) = SumFunctionOnSet(g, S)
<1> DEFINE Bad == {t \in SUBSET S : SumFunctionOnSet(f, t) # SumFunctionOnSet(g, t)}
<1> SUFFICES ASSUME Bad # {} PROVE FALSE
  OBVIOUS
<1>1. PICK U \in Bad : \A v \in Bad : ~ (v \subseteq U /\ v # U)
  <2> Bad \in SUBSET (SUBSET S)
    OBVIOUS
  <2> HIDE DEF Bad
  <2> QED BY MinimalSet
<1>2. IsFiniteSet(U)
  BY FS_Subset
<1>3. U # {}
  BY SumEmpty
<1>4. Pick(U) \in U
  BY <1>3 DEF Pick
<1>5. SumFunctionOnSet(f, U \ {Pick(U)}) = SumFunctionOnSet(g, U \ {Pick(U)})
  BY <1>1, <1>4
<1> QED BY <1>2, <1>3, <1>4, <1>5, SumAt

LEMMA SumOfPart ==
    ASSUME NEW f, NEW S, IsFiniteSet(S), \A i \in S : f[i] \in Nat,
           NEW T \in SUBSET S
    PROVE  SumFunctionOnSet(f, T) \in Nat
           /\ SumFunctionOnSet(f, T) <= SumFunctionOnSet(f, S)
<1>1. ASSUME NEW A \in SUBSET S PROVE SumFunctionOnSet(f, A) \in Nat
  <2> DEFINE Bad == {t \in SUBSET S : SumFunctionOnSet(f, t) \notin Nat}
  <2> SUFFICES ASSUME Bad # {} PROVE FALSE
    OBVIOUS
  <2>1. PICK U \in Bad : \A v \in Bad : ~ (v \subseteq U /\ v # U)
    <3> Bad \in SUBSET (SUBSET S)
      OBVIOUS
    <3> HIDE DEF Bad
    <3> QED BY MinimalSet
  <2>2. IsFiniteSet(U)
    BY FS_Subset
  <2>3. U # {}
    BY SumEmpty
  <2>4. Pick(U) \in U
    BY <2>3 DEF Pick
  <2>5. SumFunctionOnSet(f, U \ {Pick(U)}) \in Nat
    BY <2>1, <2>4
  <2> QED BY <2>2, <2>3, <2>4, <2>5, SumAt
<1> DEFINE Bad == {t \in SUBSET S :
        T \subseteq t /\ SumFunctionOnSet(f, t) < SumFunctionOnSet(f, T)}
<1>2. ASSUME Bad # {} PROVE FALSE
  <2>1. PICK U \in Bad : \A v \in Bad : ~ (v \subseteq U /\ v # U)
    <3> Bad \in SUBSET (SUBSET S)
      OBVIOUS
    <3> HIDE DEF Bad
    <3> QED BY <1>2, MinimalSet
  <2>2. PICK x \in U : x \notin T
    <3>1. SumFunctionOnSet(f, T) \in Nat
      BY <1>1
    <3> QED BY <3>1
  <2>3. SumFunctionOnSet(f, U) = f[x] + SumFunctionOnSet(f, U \ {x})
    BY SumSplit, FS_Subset
  <2>4. U \ {x} \notin Bad
    BY <2>1, <2>2
  <2>5. /\ SumFunctionOnSet(f, U \ {x}) \in Nat /\ SumFunctionOnSet(f, U) \in Nat
        /\ SumFunctionOnSet(f, T) \in Nat /\ f[x] \in Nat
    BY <1>1
  <2> QED BY <2>2, <2>3, <2>4, <2>5
<1> QED BY <1>1, <1>2

\* The sum of a function, as the specification has it.
LEMMA SumIsInt ==
    ASSUME NEW S, IsFiniteSet(S), NEW f \in [S -> Int]
    PROVE  SumFunction(f) \in Int
BY SumTyped DEF SumFunction

LEMMA SumIsNat ==
    ASSUME NEW S, IsFiniteSet(S), NEW f \in [S -> Nat]
    PROVE  SumFunction(f) \in Nat
BY SumOfPart DEF SumFunction

LEMMA SumChanges ==
    ASSUME NEW S, IsFiniteSet(S), NEW f \in [S -> Int], NEW g \in [S -> Int],
           NEW x \in S, \A i \in S \ {x} : f[i] = g[i]
    PROVE  SumFunction(f) = SumFunction(g) - g[x] + f[x]
<1>1. IsFiniteSet(S \ {x})
  BY FS_Subset
<1>2. SumFunctionOnSet(f, S \ {x}) = SumFunctionOnSet(g, S \ {x})
  BY <1>1, SumSame
<1>3. SumFunctionOnSet(g, S \ {x}) \in Int
  BY <1>1, SumTyped
<1>4. /\ SumFunctionOnSet(f, S) = f[x] + SumFunctionOnSet(f, S \ {x})
      /\ SumFunctionOnSet(g, S) = g[x] + SumFunctionOnSet(g, S \ {x})
  BY SumSplit
<1> QED BY <1>2, <1>3, <1>4 DEF SumFunction

LEMMA SumUnchanged ==
    ASSUME NEW S, IsFiniteSet(S), NEW f \in [S -> Int], NEW g \in [S -> Int],
           \A i \in S : f[i] = g[i]
    PROVE  SumFunction(f) = SumFunction(g)
BY SumSame DEF SumFunction

LEMMA SumGrows ==
    ASSUME NEW S, IsFiniteSet(S), NEW x, x \notin S, NEW f \in [S \cup {x} -> Int],
           NEW g \in [S -> Int], \A i \in S : f[i] = g[i]
    PROVE  SumFunction(f) = SumFunction(g) + f[x]
<1>1. IsFiniteSet(S \cup {x})
  BY FS_AddElement
<1>2. (S \cup {x}) \ {x} = S
  OBVIOUS
<1>3. SumFunctionOnSet(f, S \cup {x}) = f[x] + SumFunctionOnSet(f, S)
  BY <1>1, <1>2, SumSplit
<1>4. SumFunctionOnSet(f, S) = SumFunctionOnSet(g, S)
  BY SumSame
<1>5. SumFunctionOnSet(g, S) \in Int
  BY SumTyped
<1> QED BY <1>3, <1>4, <1>5 DEF SumFunction

LEMMA SumOfZeros ==
    ASSUME NEW S, IsFiniteSet(S), NEW f \in [S -> {0}]
    PROVE  SumFunction(f) = 0
<1> DEFINE Bad == {t \in SUBSET S : SumFunctionOnSet(f, t) # 0}
<1> SUFFICES ASSUME Bad # {} PROVE FALSE
  BY DEF SumFunction
<1>1. PICK U \in Bad : \A v \in Bad : ~ (v \subseteq U /\ v # U)
  <2> Bad \in SUBSET (SUBSET S)
    OBVIOUS
  <2> HIDE DEF Bad
  <2> QED BY MinimalSet
<1>2. IsFiniteSet(U)
  BY FS_Subset
<1>3. U # {}
  BY SumEmpty
<1>4. Pick(U) \in U
  BY <1>3 DEF Pick
<1>5. SumFunctionOnSet(f, U \ {Pick(U)}) = 0
  BY <1>1, <1>4
<1> QED BY <1>2, <1>3, <1>4, <1>5, SumAt

-----------------------------------------------------------------------------
(***************************************************************************)
(* Alerts of a doubling counter: as it grows by one, or by two from an     *)
(* even value with an even factor, it passes one more power of two times   *)
(* its factor if alert_needed says so, and else none.                      *)
(***************************************************************************)
PowersPassed(count, factor) ==
    {power \in 1 .. count : PowerOfTwo(power) /\ factor * power <= count}

LEMMA Quotients ==
    ASSUME NEW n \in Nat, NEW f \in Nat \ {0}
    PROVE  /\ n \div f \in Nat
           /\ n % f = 0 => n = f * (n \div f)
           /\ \A k \in Nat : f * k = n => k = n \div f /\ n % f = 0
OBVIOUS

LEMMA PassedFinite ==
    ASSUME NEW n \in Nat, NEW f \in Nat \ {0}
    PROVE  /\ IsFiniteSet(PowersPassed(n, f))
           /\ Passed(n, f) = Cardinality(PowersPassed(n, f)) /\ Passed(n, f) \in Nat
<1>1. IsFiniteSet(1 .. n)
  BY FS_Interval
<1>2. IsFiniteSet(PowersPassed(n, f))
  BY <1>1, FS_Subset DEF PowersPassed
<1> QED BY <1>2, FS_CardinalityType DEF PowersPassed, Passed

LEMMA ProductGrows ==
    ASSUME NEW f \in Nat \ {0}, NEW k \in Nat
    PROVE  f * k \in Nat /\ k <= f * k
OBVIOUS

LEMMA PassedStep ==
    ASSUME NEW n \in Nat, NEW f \in Nat \ {0}, NEW by \in {1, 2},
           by = 2 => n % 2 = 0 /\ f % 2 = 0
    PROVE  Passed(n + by, f) = Passed(n, f) + (IF AlertNeeded(n + by, f) THEN 1 ELSE 0)
<1> DEFINE q == (n + by) \div f
<1>1. q \in Nat /\ n + by \in Nat \ {0}
  BY Quotients
<1>2. ASSUME NEW k \in Nat, f * k > n, f * k <= n + by PROVE f * k = n + by
  <2>1. CASE by = 1
    BY <2>1, <1>2, ProductGrows
  <2>2. CASE by = 2
    <3>1. PICK h \in Nat : f = 2 * h
      BY <2>2
    <3>2. PICK m \in Nat : n = 2 * m
      BY <2>2
    <3>3. PICK p \in Nat : f * k = 2 * p
      <4>1. f * k = 2 * (h * k) /\ h * k \in Nat
        BY <3>1
      <4> QED BY <4>1
    <3>4. 2 * p > 2 * m /\ 2 * p <= 2 * m + 2
      BY <1>2, <2>2, <3>2, <3>3
    <3>5. p = m + 1
      BY <3>4
    <3> QED BY <2>2, <3>2, <3>3, <3>5
  <2> QED BY <2>1, <2>2
<1>3. ASSUME NEW k \in Nat PROVE f * k = n + by <=> (n + by) % f = 0 /\ k = q
  BY <1>1, Quotients
<1>4. AlertNeeded(n + by, f) <=> (n + by) % f = 0 /\ PowerOfTwo(q)
  BY <1>1, Quotients DEF AlertNeeded
<1> HIDE DEF q
<1>5. PowersPassed(n, f) \subseteq PowersPassed(n + by, f)
  BY ProductGrows DEF PowersPassed
<1>6. ASSUME NEW k \in PowersPassed(n + by, f), k \notin PowersPassed(n, f)
      PROVE  f * k = n + by /\ PowerOfTwo(k)
  <2>1. k \in Nat /\ PowerOfTwo(k) /\ f * k <= n + by /\ k >= 1
    BY <1>6 DEF PowersPassed
  <2>2. f * k > n
    BY <1>6, <2>1, ProductGrows DEF PowersPassed
  <2> QED BY <1>2, <2>1, <2>2
<1>7. CASE AlertNeeded(n + by, f)
  <2>1. f * q = n + by /\ PowerOfTwo(q)
    BY <1>1, <1>3, <1>4, <1>7
  <2>2. q >= 1 /\ q <= n + by
    BY <1>1, <2>1, ProductGrows
  <2>3. q \in PowersPassed(n + by, f) /\ q \notin PowersPassed(n, f)
    BY <1>1, <2>1, <2>2 DEF PowersPassed
  <2>4. \A k \in PowersPassed(n + by, f) : k \notin PowersPassed(n, f) => k = q
    BY <1>3, <1>6 DEF PowersPassed
  <2>5. PowersPassed(n + by, f) = PowersPassed(n, f) \cup {q}
    BY <1>5, <2>3, <2>4
  <2> QED BY <1>7, <2>3, <2>5, PassedFinite, FS_AddElement
<1>8. CASE ~ AlertNeeded(n + by, f)
  <2>1. PowersPassed(n + by, f) = PowersPassed(n, f)
    BY <1>3, <1>4, <1>5, <1>6, <1>8 DEF PowersPassed
  <2> QED BY <1>1, <1>8, <2>1, PassedFinite
<1> QED BY <1>7, <1>8

-----------------------------------------------------------------------------
(***************************************************************************)
(* The counters.                                                           *)
(***************************************************************************)
LEMMA FourFinite == ASSUME NEW a, NEW b, NEW c, NEW d PROVE IsFiniteSet({a, b, c, d})
<1>1. IsFiniteSet({a}) /\ {a, b} = {a} \cup {b} /\ {a, b, c} = {a, b} \cup {c}
      /\ {a, b, c, d} = {a, b, c} \cup {d}
  BY FS_Singleton
<1>2. IsFiniteSet({a, b})
  BY <1>1, FS_AddElement
<1>3. IsFiniteSet({a, b, c})
  BY <1>1, <1>2, FS_AddElement
<1> QED BY <1>1, <1>3, FS_AddElement

LEMMA DoublingFinite == IsFiniteSet(Doubling)
<1> DEFINE A == {"posts", "replies", "replied_to", "quotes"}
           B == {"quoted", "reposts", "reposted", "likes"}
           C == {"liked", "follows", "followed_by", "blocks"}
           D == {"blocked_by", "events", "events", "events"}
<1>1. IsFiniteSet(Facets)
  BY FourFinite DEF Facets
<1>2. IsFiniteSet(A) /\ IsFiniteSet(B) /\ IsFiniteSet(C) /\ IsFiniteSet(D)
  BY FourFinite
<1>3. Doubling = ((Facets \cup A) \cup B) \cup (C \cup D)
  BY DEF Doubling
<1> HIDE DEF A, B, C, D
<1>4. IsFiniteSet((Facets \cup A) \cup B) /\ IsFiniteSet(C \cup D)
  <2>1. IsFiniteSet(Facets \cup A)
    BY <1>1, <1>2, FS_Union
  <2> QED BY <1>2, <2>1, FS_Union
<1> QED BY <1>3, <1>4, FS_Union

LEMMA CounterFacts ==
    /\ Doubling \subseteq Counters /\ Shorts \subseteq Counters /\ "deletes" \in Counters
    /\ Shorts \cap Doubling = {} /\ "deletes" \notin Doubling
    /\ Facets \subseteq Doubling \ {"reposted"} /\ ContentCounters \subseteq Doubling
    /\ {"reposted", "posts", "replies", "events"} \subseteq Doubling
    /\ ContentKinds \subseteq Interactions
BY DEF Counters, Doubling, Shorts, Facets, ContentCounters, ContentKinds, Interactions

\* What each interaction counts is not what another one counts.
LEMMA InteractionFacts ==
    ASSUME NEW kind \in Interactions
    PROVE  /\ Done[kind] \in Doubling \ (Facets \cup {"reposted", "events", "posts"})
           /\ Received[kind] \in Doubling \ (Facets \cup {"events", "posts"})
           /\ Received[kind] = "reposted" <=> kind = "repost"
           /\ Done[kind] = "replies" <=> kind = "reply"
           /\ kind \in ContentKinds => Done[kind] \in ContentCounters
           /\ ReceivedBy(kind) \in {1, 2} /\ Targets(kind) \in {1, 2}
           /\ ReceivedBy(kind) = 2 <=> kind = "repost"
BY DEF Interactions, Done, Received, Doubling, Facets, ContentKinds, ContentCounters,
       ReceivedBy, Targets

LEMMA InteractionsApart ==
    ASSUME NEW kind \in Interactions, NEW other \in Interactions
    PROVE  /\ Received[kind] # Done[other]
           /\ Received[kind] = Received[other] => kind = other
           /\ Done[kind] = Done[other] => kind = other
BY DEF Interactions, Done, Received

-----------------------------------------------------------------------------
(***************************************************************************)
(* What holds of every account, and the operators that keep it.            *)
(***************************************************************************)
\* The counter that moves by two never steps over a multiple of its factor.
EvenReposts(a) == a.n["reposted"] % 2 = 0

Sound(a) == AccountTyped(a) /\ Explained(a) /\ WithinAccount(a) /\ EvenReposts(a)

AllPassed(a) == [c \in Doubling |-> Passed(a.n[c], Factor[c])]

LEMMA FactorTyped == \A c \in Counters : Factor[c] \in Nat \ {0}
BY ActivityAssumption

LEMMA AllPassedTyped ==
    ASSUME NEW a, AccountTyped(a)
    PROVE  AllPassed(a) \in [Doubling -> Nat]
<1>1. \A c \in Doubling : a.n[c] \in Nat /\ Factor[c] \in Nat \ {0}
  BY CounterFacts, FactorTyped DEF AccountTyped
<1> QED BY <1>1, PassedFinite DEF AllPassed

\* The type of an account in terms of its fields.
LEMMA AccountFields ==
    ASSUME NEW a, AccountTyped(a)
    PROVE  /\ a.did \in Dids /\ a.n \in [Counters -> Nat]
           /\ a.alerts \in Nat /\ a.otherAlerts \in Nat
           /\ ContentTyped(a.content)
BY DEF AccountTyped

LEMMA CountedTyped ==
    ASSUME NEW a, AccountTyped(a), NEW counter \in Counters, NEW by \in Nat
    PROVE  LET b == Counted(a, counter, by) IN
           /\ AccountTyped(b)
           /\ b.did = a.did /\ b.content = a.content /\ b.otherAlerts = a.otherAlerts
           /\ b.n = [a.n EXCEPT ![counter] = @ + by]
           /\ b.alerts = a.alerts
                + (IF AlertNeeded(a.n[counter] + by, Factor[counter]) THEN 1 ELSE 0)
<1> DEFINE b == Counted(a, counter, by)
           needed == AlertNeeded(a.n[counter] + by, Factor[counter])
<1>1. b = [a EXCEPT !.n[counter] = @ + by, !.alerts = IF needed THEN @ + 1 ELSE @]
  BY DEF Counted
<1> HIDE DEF needed
<1>2. /\ b.did = a.did /\ b.content = a.content /\ b.otherAlerts = a.otherAlerts
      /\ b.n = [a.n EXCEPT ![counter] = @ + by]
      /\ b.alerts = a.alerts + (IF needed THEN 1 ELSE 0)
  BY <1>1 DEF AccountTyped
<1>3. b \in [did : Dids, n : [Counters -> Nat], alerts : Nat, otherAlerts : Nat,
             content : {b.content}]
  <2>1. PICK m, l : m = b.n /\ l = b.alerts
    OBVIOUS
  <2>2. m \in [Counters -> Nat] /\ l \in Nat
    BY <1>2, <2>1, AccountFields
  <2>3. b = [a EXCEPT !.n = m, !.alerts = l]
    BY <1>1, <1>2, <2>1 DEF AccountTyped
  <2>4. a \in [did : Dids, n : [Counters -> Nat], alerts : Nat, otherAlerts : Nat,
               content : {a.content}]
    BY DEF AccountTyped
  <2> HIDE DEF b
  <2> QED BY <2>2, <2>3, <2>4
<1>4. AccountTyped(b)
  BY <1>2, <1>3 DEF AccountTyped
<1> QED BY <1>2, <1>4 DEF needed

LEMMA CountedSound ==
    ASSUME NEW a, Sound(a), NEW counter \in Doubling, NEW by \in {1, 2},
           by = 2 <=> counter = "reposted"
    PROVE  Sound(Counted(a, counter, by))
<1> DEFINE b == Counted(a, counter, by)
           needed == AlertNeeded(a.n[counter] + by, Factor[counter])
<1>1. counter \in Counters /\ by \in Nat /\ AccountTyped(a)
  BY CounterFacts DEF Sound
<1>2. /\ AccountTyped(b)
      /\ b.content = a.content /\ b.otherAlerts = a.otherAlerts
      /\ b.n = [a.n EXCEPT ![counter] = @ + by]
      /\ b.alerts = a.alerts + (IF needed THEN 1 ELSE 0)
  BY <1>1, CountedTyped
<1> HIDE DEF b
<1>3. /\ a.n \in [Counters -> Nat] /\ b.n \in [Counters -> Nat]
      /\ b.n[counter] = a.n[counter] + by
      /\ \A c \in Counters \ {counter} : b.n[c] = a.n[c]
  BY <1>1, <1>2, AccountFields
<1>4. EvenReposts(b)
  <2>1. a.n["reposted"] \in Nat /\ a.n["reposted"] % 2 = 0
    BY <1>3, CounterFacts DEF Sound, EvenReposts
  <2>2. b.n["reposted"] = a.n["reposted"] \/ b.n["reposted"] = a.n["reposted"] + 2
    BY <1>3, CounterFacts
  <2> QED BY <2>1, <2>2 DEF EvenReposts
<1>5. WithinAccount(b)
  <2> SUFFICES ASSUME NEW kind \in ContentKinds
               PROVE  ReceivedBy(kind) * ContentTotal(b.content, Done[kind])
                        <= b.n[Received[kind]]
    BY DEF WithinAccount
  <2>1. Received[kind] \in Counters
    BY InteractionFacts, CounterFacts
  <2>2. a.n[Received[kind]] <= b.n[Received[kind]] /\ a.n[Received[kind]] \in Nat
        /\ b.n[Received[kind]] \in Nat
    BY <2>1, <1>3
  <2>3. PICK t : t = ReceivedBy(kind) * ContentTotal(a.content, Done[kind])
    OBVIOUS
  <2>4. t <= a.n[Received[kind]]
    BY <2>3 DEF Sound, WithinAccount
  <2>5. t \in Int
    <3>1. ContentTyped(a.content)
      BY <1>1, AccountFields
    <3>2. ContentTotal(a.content, Done[kind]) \in Int
      <4>1. [k \in DOMAIN a.content |-> a.content[k].n[Done[kind]]]
               \in [DOMAIN a.content -> Int]
        BY <3>1, InteractionFacts, CounterFacts DEF ContentTyped, ContentType
      <4> QED BY <3>1, <4>1, SumIsInt DEF ContentTotal, ContentTyped
    <3>3. ReceivedBy(kind) \in Int
      BY DEF ReceivedBy
    <3> QED BY <2>3, <3>2, <3>3
  <2> QED BY <1>2, <2>2, <2>3, <2>4, <2>5
<1>6. Explained(b)
  <2>1. AllPassed(a) \in [Doubling -> Int] /\ AllPassed(b) \in [Doubling -> Int]
        /\ AllPassed(a) \in [Doubling -> Nat]
    BY <1>1, <1>2, AllPassedTyped
  <2>2. \A c \in Doubling \ {counter} : AllPassed(b)[c] = AllPassed(a)[c]
    BY <1>3, CounterFacts DEF AllPassed
  <2>3. AllPassed(b)[counter] = AllPassed(a)[counter] + (IF needed THEN 1 ELSE 0)
    <3>1. Factor[counter] \in Nat \ {0} /\ a.n[counter] \in Nat
      BY <1>1, <1>3, FactorTyped
    <3>2. by = 2 => a.n[counter] % 2 = 0 /\ Factor[counter] % 2 = 0
      BY ActivityAssumption DEF Sound, EvenReposts
    <3>3. Passed(a.n[counter] + by, Factor[counter])
            = Passed(a.n[counter], Factor[counter]) + (IF needed THEN 1 ELSE 0)
      BY <3>1, <3>2, PassedStep
    <3> QED BY <1>3, <3>3 DEF AllPassed
  <2>4. SumFunction(AllPassed(b))
          = SumFunction(AllPassed(a)) - AllPassed(a)[counter] + AllPassed(b)[counter]
    BY <2>1, <2>2, SumChanges, DoublingFinite
  <2>5. SumFunction(AllPassed(a)) \in Int
    BY <2>1, SumIsInt, DoublingFinite
  <2>6. a.alerts = a.otherAlerts + SumFunction(AllPassed(a))
        /\ a.alerts \in Nat /\ a.otherAlerts \in Nat
    BY <1>1, AccountFields DEF Sound, Explained, AllPassed
  <2>7. PICK p \in Nat : p = AllPassed(a)[counter]
    BY <2>1
  <2>8. b.alerts = b.otherAlerts + SumFunction(AllPassed(b))
    BY <1>2, <2>3, <2>4, <2>5, <2>6, <2>7
  <2> QED BY <2>8 DEF Explained, AllPassed
<1> QED BY <1>2, <1>4, <1>5, <1>6 DEF Sound, b

\* The doubling counters and the content decide, with the alerts that the
\* former explain.
LEMMA SoundKept ==
    ASSUME NEW a, Sound(a), NEW b, AccountTyped(b),
           b.content = a.content, \A c \in Doubling : b.n[c] = a.n[c],
           NEW more \in {0, 1},
           b.alerts = a.alerts + more, b.otherAlerts = a.otherAlerts + more
    PROVE  Sound(b)
<1>1. AccountTyped(a)
  BY DEF Sound
<1>2. AllPassed(b) = AllPassed(a)
  BY DEF AllPassed
<1>3. SumFunction(AllPassed(a)) \in Int
  <2>1. AllPassed(a) \in [Doubling -> Int]
    BY <1>1, AllPassedTyped
  <2> QED BY <2>1, SumIsInt, DoublingFinite
<1>4. a.alerts = a.otherAlerts + SumFunction(AllPassed(a))
      /\ a.alerts \in Nat /\ a.otherAlerts \in Nat
  BY <1>1, AccountFields DEF Sound, Explained, AllPassed
<1>5. Explained(b)
  <2>1. b.alerts = b.otherAlerts + SumFunction(AllPassed(b))
    BY <1>2, <1>3, <1>4
  <2> QED BY <2>1 DEF Explained, AllPassed
<1>6. WithinAccount(b)
  BY InteractionFacts, CounterFacts DEF WithinAccount, Sound
<1>7. EvenReposts(b)
  BY CounterFacts DEF EvenReposts, Sound
<1> QED BY <1>5, <1>6, <1>7 DEF Sound

LEMMA OtherAlertTyped ==
    ASSUME NEW a, AccountTyped(a)
    PROVE  LET b == OtherAlert(a) IN
           /\ AccountTyped(b)
           /\ b.did = a.did /\ b.n = a.n /\ b.content = a.content
           /\ b.alerts = a.alerts + 1 /\ b.otherAlerts = a.otherAlerts + 1
<1> DEFINE b == OtherAlert(a)
<1>1. /\ b.did = a.did /\ b.n = a.n /\ b.content = a.content
      /\ b.alerts = a.alerts + 1 /\ b.otherAlerts = a.otherAlerts + 1
  BY DEF OtherAlert, AccountTyped
<1>2. b \in [did : Dids, n : [Counters -> Nat], alerts : Nat, otherAlerts : Nat,
             content : {b.content}]
  <2>1. PICK l, o : l = a.alerts + 1 /\ o = a.otherAlerts + 1
    OBVIOUS
  <2>2. l \in Nat /\ o \in Nat
    BY <2>1, AccountFields
  <2>3. b = [a EXCEPT !.alerts = l, !.otherAlerts = o]
    BY <2>1 DEF OtherAlert
  <2>4. a \in [did : Dids, n : [Counters -> Nat], alerts : Nat, otherAlerts : Nat,
               content : {a.content}]
    BY DEF AccountTyped
  <2> QED BY <2>2, <2>3, <2>4
<1> QED BY <1>1, <1>2 DEF AccountTyped

LEMMA OtherAlertSound ==
    ASSUME NEW a, Sound(a)
    PROVE  Sound(OtherAlert(a))
<1>1. AccountTyped(a)
  BY DEF Sound
<1> QED BY <1>1, OtherAlertTyped, SoundKept

\* A counter that is not doubling is set.
LEMMA SetCounter ==
    ASSUME NEW a, Sound(a), NEW counter \in Counters \ Doubling, NEW new \in Nat
    PROVE  LET b == [a EXCEPT !.n[counter] = new] IN
           /\ Sound(b) /\ b.did = a.did /\ b.content = a.content
           /\ \A c \in Doubling : b.n[c] = a.n[c]
<1> DEFINE b == [a EXCEPT !.n[counter] = new]
<1>1. AccountTyped(a)
  BY DEF Sound
<1>2. /\ b.did = a.did /\ b.content = a.content
      /\ b.alerts = a.alerts /\ b.otherAlerts = a.otherAlerts
      /\ b.n = [a.n EXCEPT ![counter] = new]
  BY <1>1 DEF AccountTyped
<1>3. AccountTyped(b)
  <2>1. PICK m : m = [a.n EXCEPT ![counter] = new]
    OBVIOUS
  <2>2. m \in [Counters -> Nat]
    BY <1>1, <2>1, AccountFields
  <2>3. b = [a EXCEPT !.n = m]
    BY <2>1
  <2>4. a \in [did : Dids, n : [Counters -> Nat], alerts : Nat, otherAlerts : Nat,
               content : {a.content}]
    BY <1>1 DEF AccountTyped
  <2>5. b \in [did : Dids, n : [Counters -> Nat], alerts : Nat, otherAlerts : Nat,
               content : {b.content}]
    BY <2>2, <2>3, <2>4
  <2> QED BY <1>1, <1>2, <2>5 DEF AccountTyped
<1>4. \A c \in Doubling : b.n[c] = a.n[c]
  BY <1>1, <1>2, AccountFields, CounterFacts
<1>5. b.alerts = a.alerts + 0 /\ b.otherAlerts = a.otherAlerts + 0
  BY <1>1, <1>2, AccountFields
<1> HIDE DEF b
<1>6. Sound(b)
  BY <1>2, <1>3, <1>4, <1>5, SoundKept
<1> QED BY <1>2, <1>4, <1>6 DEF b

LEMMA ShortTyped == ASSUME NEW n \in Nat PROVE n % UnsignedShort \in Nat
<1>1. UnsignedShort \in Nat \ {0}
  BY ActivityAssumption
<1> QED BY <1>1

\* What the doubling counters, the content and the alerts make of an account
\* stays as it is.
Alike(b, a) ==
    /\ Sound(b) /\ b.did = a.did /\ b.content = a.content
    /\ \A c \in Doubling : b.n[c] = a.n[c]

LEMMA OtherAlertAlike ==
    ASSUME NEW a, NEW b, Alike(b, a) PROVE Alike(OtherAlert(b), a)
<1>1. AccountTyped(b) /\ Sound(b)
  BY DEF Alike, Sound
<1> QED BY <1>1, OtherAlertTyped, OtherAlertSound DEF Alike

LEMMA CountedShortAlike ==
    ASSUME NEW a, Sound(a), NEW counter \in Shorts, NEW by \in Nat
    PROVE  Alike(CountedShort(a, counter, by), a)
<1> DEFINE new == (a.n[counter] + by) % UnsignedShort
           next == [a EXCEPT !.n[counter] = new]
<1>1. counter \in Counters \ Doubling
  BY CounterFacts
<1>2. new \in Nat
  <2>1. a.n[counter] + by \in Nat
    BY <1>1, AccountFields DEF Sound
  <2> QED BY <2>1, ShortTyped
<1>3. CountedShort(a, counter, by) \in {next, OtherAlert(next)}
  BY DEF CountedShort
<1> HIDE DEF new
<1>4. Alike(next, a)
  BY <1>1, <1>2, SetCounter DEF Alike
<1> HIDE DEF next
<1> QED BY <1>3, <1>4, OtherAlertAlike

LEMMA DeletionAlike ==
    ASSUME NEW a, Sound(a) PROVE Alike(Deletion(a), a)
<1> DEFINE new == a.n["deletes"] + 1
           next == [a EXCEPT !.n["deletes"] = new]
<1>1. "deletes" \in Counters \ Doubling
  BY CounterFacts
<1>2. new \in Nat
  BY <1>1, AccountFields DEF Sound
<1>3. Deletion(a) \in {next, OtherAlert(next)}
  BY DEF Deletion
<1> HIDE DEF new
<1>4. Alike(next, a)
  BY <1>1, <1>2, SetCounter DEF Alike
<1> HIDE DEF next
<1> QED BY <1>3, <1>4, OtherAlertAlike

LEMMA AlikeTwice ==
    ASSUME NEW a, NEW b, NEW c, Alike(b, a), Alike(c, b) PROVE Alike(c, a)
BY DEF Alike

-----------------------------------------------------------------------------
(***************************************************************************)
(* The events, and the part of the account itself.                         *)
(***************************************************************************)
LEMMA EventFacts ==
    ASSUME NEW e \in EventType
    PROVE  /\ e.did \in Dids
           /\ e.kind \in Interactions \cup Updates
                \cup {"post", "deleted", "deleted_other", "matches", "facets"}
           /\ e.kind \in Interactions => e \in Interaction(e.kind)
           /\ e.kind \notin Interactions => e.subjects = <<>>
           /\ e.kind = "matches" => e.count \in Nat
<1>1. CASE e \in UNION {Interaction(kind) : kind \in Interactions}
  <2>1. PICK kind \in Interactions : e \in Interaction(kind)
    BY <1>1
  <2>2. e.kind = kind /\ e.did \in Dids
    BY <2>1 DEF Interaction
  <2> QED BY <2>1, <2>2 DEF Interactions
<1>2. CASE e \in PlainEvents
  BY <1>2 DEF PlainEvents, Updates, Interactions
<1>3. CASE e \in MatchEvents
  <2>1. e.kind = "matches" /\ e.did \in Dids /\ e.subjects = <<>>
        /\ e.count \in 0 .. (UnsignedShort - 1)
    BY <1>3 DEF MatchEvents
  <2>2. UnsignedShort \in Nat
    BY ActivityAssumption
  <2>3. e.count \in Nat
    BY <2>1, <2>2
  <2> QED BY <2>1, <2>3 DEF Interactions
<1>4. CASE e \in FacetEvents
  BY <1>4 DEF FacetEvents, Interactions
<1> QED BY <1>1, <1>2, <1>3, <1>4 DEF EventType

LEMMA InteractionTyped ==
    ASSUME NEW kind \in Interactions, NEW e \in Interaction(kind)
    PROVE  /\ e.kind = kind /\ e.did \in Dids
           /\ DOMAIN e.subjects = 1 .. Targets(kind) /\ Len(e.subjects) = Targets(kind)
           /\ e.subjects # <<>>
           /\ \A i \in DOMAIN e.subjects :
                /\ e.subjects[i].did \in Dids
                /\ kind \in ContentKinds => e.subjects[i].rkey \in Rkeys
<1>1. e.kind = kind /\ e.did \in Dids
      /\ e.subjects \in [1 .. Targets(kind) ->
            Subjects(IF kind \in ContentKinds THEN Rkeys ELSE {""})]
  BY DEF Interaction, SubjectsOf
<1>2. Targets(kind) \in {1, 2}
  BY DEF Targets
<1>3. DOMAIN e.subjects = 1 .. Targets(kind) /\ Len(e.subjects) = Targets(kind)
  <2>1. PICK s, n, S : s = e.subjects /\ n = Targets(kind) /\ s \in [1 .. n -> S]
    BY <1>1
  <2>2. n \in Nat /\ s \in Seq(S)
    BY <1>2, <2>1
  <2>3. Len(s) = n
    BY <2>1, <2>2
  <2> QED BY <2>1, <2>3
<1>4. e.subjects # <<>>
  BY <1>2, <1>3
<1>5. \A i \in DOMAIN e.subjects :
        e.subjects[i] \in Subjects(IF kind \in ContentKinds THEN Rkeys ELSE {""})
  BY <1>1
<1> QED BY <1>1, <1>3, <1>4, <1>5 DEF Subjects

\* The counters that the balances compare.
Compared == Doubling \ (Facets \cup {"events"})

LEMMA ComparedFacts ==
    /\ Compared \subseteq Doubling /\ {"posts", "replies"} \subseteq Compared
    /\ \A kind \in Interactions : Done[kind] \in Compared /\ Received[kind] \in Compared
BY InteractionFacts DEF Compared, Doubling, Facets

LEMMA ComparedCounters == \A c \in Compared : c \in Counters
BY ComparedFacts, CounterFacts

\* What the account itself counts of an event in the end.
OwnCount(e, counter) ==
    IF \/ e.kind \in Interactions \ OwnPartFirst /\ counter = Done[e.kind]
       \/ e.kind = "post" /\ counter = "posts"
      THEN 1 ELSE 0

Keeps(b, a) ==
    /\ Sound(b) /\ b.did = a.did /\ b.content = a.content
    /\ \A c \in Compared : b.n[c] = a.n[c]

LEMMA KeepsTwice ==
    ASSUME NEW a, NEW b, NEW c, Keeps(b, a), Keeps(c, b) PROVE Keeps(c, a)
BY DEF Keeps

LEMMA AlikeKeeps ==
    ASSUME NEW a, NEW b, Alike(b, a) PROVE Keeps(b, a)
BY ComparedFacts DEF Alike, Keeps

\* One counter moves by one, or by two if it is the one of reposts.
LEMMA CountedMoves ==
    ASSUME NEW a, Sound(a), NEW counter \in Doubling, NEW by \in {1, 2},
           by = 2 <=> counter = "reposted"
    PROVE  LET b == Counted(a, counter, by) IN
           /\ Sound(b) /\ b.did = a.did /\ b.content = a.content
           /\ \A c \in Counters : /\ a.n[c] \in Nat /\ b.n[c] \in Nat
                                  /\ b.n[c] = a.n[c] + (IF c = counter THEN by ELSE 0)
<1> DEFINE b == Counted(a, counter, by)
<1>1. counter \in Counters /\ AccountTyped(a) /\ by \in Nat
  BY CounterFacts DEF Sound
<1>2. /\ AccountTyped(b)
      /\ b.did = a.did /\ b.content = a.content
      /\ b.n = [a.n EXCEPT ![counter] = @ + by]
  <2> HIDE DEF b
  <2>1. \A x, y, z : AccountTyped(x) /\ y \in Counters /\ z \in Nat =>
           LET c == Counted(x, y, z) IN
           /\ AccountTyped(c) /\ c.did = x.did /\ c.content = x.content
           /\ c.n = [x.n EXCEPT ![y] = @ + z]
    BY CountedTyped
  <2> QED BY <1>1, <2>1 DEF b
<1>3. Sound(b)
  BY CountedSound
<1> HIDE DEF b
<1>4. a.n \in [Counters -> Nat] /\ b.n \in [Counters -> Nat]
  BY <1>1, <1>2, AccountFields
<1>5. \A c \in Counters : b.n[c] = a.n[c] + (IF c = counter THEN by ELSE 0)
  BY <1>1, <1>2, <1>4
<1> QED BY <1>2, <1>3, <1>4, <1>5 DEF b

LEMMA CountedKeeps ==
    ASSUME NEW a, Sound(a), NEW counter \in Facets \cup {"events"}
    PROVE  Keeps(Counted(a, counter, 1), a)
<1>1. counter \in Doubling /\ counter # "reposted"
  BY CounterFacts DEF Facets
<1> DEFINE b == Counted(a, counter, 1)
<1>2. /\ Sound(b) /\ b.did = a.did /\ b.content = a.content
      /\ \A c \in Counters : /\ a.n[c] \in Nat
                             /\ b.n[c] = a.n[c] + (IF c = counter THEN 1 ELSE 0)
  BY <1>1, CountedMoves
<1> HIDE DEF b
<1>3. \A c \in Compared : c \in Counters /\ c # counter
  BY CounterFacts DEF Compared
<1>4. \A c \in Compared : b.n[c] = a.n[c]
  BY <1>2, <1>3
<1> QED BY <1>2, <1>4 DEF Keeps, b

LEMMA CountedFacetKeeps ==
    ASSUME NEW a, Sound(a), NEW e, NEW f \in Facets
    PROVE  Keeps(CountedFacet(a, e, f), a) /\ Sound(CountedFacet(a, e, f))
<1>1. Keeps(a, a)
  BY DEF Keeps
<1>2. Keeps(CountedFacet(a, e, f), a)
  BY <1>1, CountedKeeps DEF CountedFacet
<1> QED BY <1>2 DEF Keeps

LEMMA FacetsKept ==
    ASSUME NEW a, Sound(a), NEW e
    PROVE  Keeps(CountedFacet(CountedFacet(CountedFacet(CountedFacet(a,
                    e, "tags"), e, "links"), e, "mentions"), e, "facets"), a)
<1> DEFINE b == CountedFacet(a, e, "tags")
           c == CountedFacet(b, e, "links")
           d == CountedFacet(c, e, "mentions")
           f == CountedFacet(d, e, "facets")
<1>1. {"tags", "links", "mentions", "facets"} = Facets
  BY DEF Facets
<1>2. Keeps(b, a) /\ Sound(b)
  BY <1>1, CountedFacetKeeps
<1> HIDE DEF b
<1>3. Keeps(c, b) /\ Sound(c)
  BY <1>1, <1>2, CountedFacetKeeps
<1> HIDE DEF c
<1>4. Keeps(d, c) /\ Sound(d)
  BY <1>1, <1>3, CountedFacetKeeps
<1> HIDE DEF d
<1>5. Keeps(f, d)
  BY <1>1, <1>4, CountedFacetKeeps
<1> HIDE DEF f
<1>6. Keeps(f, a)
  BY <1>2, <1>3, <1>4, <1>5, KeepsTwice
<1> QED BY <1>6 DEF b, c, d, f

\* An account with what it counts of an event.
OwnPartAdded(b, a, e) ==
    /\ Sound(b) /\ b.did = a.did /\ b.content = a.content
    /\ \A c \in Compared : b.n[c] = a.n[c] + OwnCount(e, c)

LEMMA ComparedNat ==
    ASSUME NEW a, Sound(a), NEW c \in Compared PROVE a.n[c] \in Nat
BY AccountFields, CounterFacts, ComparedFacts DEF Sound

LEMMA KeepsSame == ASSUME NEW a, Sound(a) PROVE Keeps(a, a)
BY DEF Keeps

LEMMA KeepsNone ==
    ASSUME NEW a, Sound(a), NEW b, Keeps(b, a), NEW e,
           \A c \in Compared : OwnCount(e, c) = 0
    PROVE  OwnPartAdded(b, a, e)
<1>1. \A c \in Compared : b.n[c] = a.n[c] + OwnCount(e, c)
  BY ComparedNat DEF Keeps
<1> QED BY <1>1 DEF Keeps, OwnPartAdded

LEMMA CountedOne ==
    ASSUME NEW a, Sound(a), NEW e, NEW counter \in Compared \ {"reposted"},
           \A c \in Compared : OwnCount(e, c) = IF c = counter THEN 1 ELSE 0
    PROVE  OwnPartAdded(Counted(a, counter, 1), a, e)
<1>1. counter \in Doubling
  BY ComparedFacts
<1> DEFINE b == Counted(a, counter, 1)
<1>2. /\ Sound(b) /\ b.did = a.did /\ b.content = a.content
      /\ \A c \in Counters : b.n[c] = a.n[c] + (IF c = counter THEN 1 ELSE 0)
  BY <1>1, CountedMoves
<1> HIDE DEF b
<1>3. \A c \in Compared : b.n[c] = a.n[c] + OwnCount(e, c)
  BY <1>2, ComparedFacts, CounterFacts
<1> QED BY <1>2, <1>3 DEF OwnPartAdded, b

LEMMA OwnPartSound ==
    ASSUME NEW a, Sound(a), NEW e \in EventType
    PROVE  OwnPartAdded(OwnPart(a, e), a, e)
<1> DEFINE b == OwnPart(a, e)
<1>1. CASE e.kind \in Interactions /\ e.kind \notin OwnPartFirst
  <2>1. b = Counted(a, Done[e.kind], 1)
    BY <1>1 DEF OwnPart, Interactions
  <2>2. Done[e.kind] \in Compared \ {"reposted"}
    BY <1>1, ComparedFacts, InteractionFacts
  <2>3. \A c \in Compared : OwnCount(e, c) = IF c = Done[e.kind] THEN 1 ELSE 0
    BY <1>1 DEF OwnCount, Interactions
  <2> QED BY <2>1, <2>2, <2>3, CountedOne
<1>2. CASE e.kind \in Interactions /\ e.kind \in OwnPartFirst
  <2>1. b = a /\ Keeps(a, a)
    BY <1>2 DEF OwnPart, Keeps, Interactions
  <2>2. \A c \in Compared : OwnCount(e, c) = 0
    BY <1>2 DEF OwnCount, Interactions
  <2> QED BY <2>1, <2>2, KeepsNone
<1>3. CASE e.kind = "post"
  <2>1. b = Counted(a, "posts", 1)
    BY <1>3 DEF OwnPart, Interactions
  <2>2. \A c \in Compared : OwnCount(e, c) = IF c = "posts" THEN 1 ELSE 0
    BY <1>3 DEF OwnCount, Interactions
  <2> QED BY <2>1, <2>2, ComparedFacts, CountedOne
<1>4. CASE e.kind \in Updates
                   \cup {"deleted", "deleted_other", "matches", "facets"}
  <2>1. \A c \in Compared : OwnCount(e, c) = 0
    BY <1>4 DEF OwnCount, Updates, Interactions
  <2>2. ASSUME NEW counter \in Shorts
        PROVE  Keeps(CountedShort(CountedShort(a, counter, 1), "updates", 1), a)
    <3> DEFINE once == CountedShort(a, counter, 1)
               twice == CountedShort(once, "updates", 1)
    <3>1. Alike(once, a) /\ Sound(once)
      BY CountedShortAlike DEF Alike
    <3> HIDE DEF once
    <3>2. Alike(twice, once)
      BY <3>1, CountedShortAlike DEF Shorts
    <3> HIDE DEF twice
    <3>3. Keeps(twice, a)
      BY <3>1, <3>2, AlikeTwice, AlikeKeeps
    <3> QED BY <3>3 DEF once, twice
  <2>3. CASE e.kind \in Updates
    <3>1. \E counter \in Shorts :
             b = CountedShort(CountedShort(a, counter, 1), "updates", 1)
      BY <2>3 DEF OwnPart, Updates, Interactions, Shorts
    <3>2. Keeps(b, a)
      BY <2>2, <3>1
    <3> HIDE DEF b
    <3>3. OwnPartAdded(b, a, e)
      BY <2>1, <3>2, KeepsNone
    <3> QED BY <3>3 DEF b
  <2>4. CASE e.kind = "deleted"
    <3>1. b = Deletion(a)
      BY <2>4 DEF OwnPart, Updates, Interactions
    <3> QED BY <2>1, <3>1, DeletionAlike, AlikeKeeps, KeepsNone
  <2>5. CASE e.kind = "matches"
    <3>1. b = CountedShort(a, "matches", e.count)
      BY <2>5 DEF OwnPart, Updates, Interactions
    <3>2. e.count \in Nat /\ "matches" \in Shorts
      BY <2>5, EventFacts DEF Shorts
    <3> QED BY <2>1, <3>1, <3>2, CountedShortAlike, AlikeKeeps, KeepsNone
  <2>6. CASE e.kind = "facets"
    <3>1. b = CountedFacet(CountedFacet(CountedFacet(CountedFacet(a,
                e, "tags"), e, "links"), e, "mentions"), e, "facets")
      BY <2>6 DEF OwnPart, Updates, Interactions
    <3> QED BY <2>1, <3>1, FacetsKept, KeepsNone
  <2>7. CASE e.kind = "deleted_other"
    <3>1. b = a
      BY <2>7 DEF OwnPart, Updates, Interactions
    <3> QED BY <2>1, <3>1, KeepsSame, KeepsNone
  <2> QED BY <1>4, <2>3, <2>4, <2>5, <2>6, <2>7
<1> QED BY <1>1, <1>2, <1>3, <1>4, EventFacts

\* FinishRecord counts the event as well.
LEMMA RecordedSound ==
    ASSUME NEW a, Sound(a), NEW e \in EventType
    PROVE  OwnPartAdded(Counted(OwnPart(a, e), "events", 1), a, e)
<1> DEFINE b == OwnPart(a, e)
           c == Counted(b, "events", 1)
<1>1. OwnPartAdded(b, a, e)
  BY OwnPartSound
<1> HIDE DEF b
<1>2. Keeps(c, b)
  BY <1>1, CountedKeeps DEF OwnPartAdded
<1> HIDE DEF c
<1>3. OwnPartAdded(c, a, e)
  BY <1>1, <1>2 DEF Keeps, OwnPartAdded
<1> QED BY <1>3 DEF b, c

-----------------------------------------------------------------------------
(***************************************************************************)
(* The content of an account.                                              *)
(***************************************************************************)
CountsOf(content, counter) == [k \in DOMAIN content |-> content[k].n[counter]]

LEMMA CountsTyped ==
    ASSUME NEW content, ContentTyped(content), NEW counter \in ContentCounters
    PROVE  /\ CountsOf(content, counter) \in [DOMAIN content -> Nat]
           /\ CountsOf(content, counter) \in [DOMAIN content -> Int]
           /\ ContentTotal(content, counter) = SumFunction(CountsOf(content, counter))
           /\ ContentTotal(content, counter) \in Nat
<1>1. CountsOf(content, counter) \in [DOMAIN content -> Nat]
  BY DEF CountsOf, ContentTyped, ContentType
<1>2. ContentTotal(content, counter) = SumFunction(CountsOf(content, counter))
  BY DEF CountsOf, ContentTotal
<1>3. SumFunction(CountsOf(content, counter)) \in Nat
  BY <1>1, SumIsNat DEF ContentTyped
<1> QED BY <1>1, <1>2, <1>3

\* The item that is looked up, and found or made.
LookedUp(content, rkey) ==
    [(IF rkey \in DOMAIN content THEN content[rkey] ELSE NewContent)
        EXCEPT !.used = @ + 1]

LEMMA LookedUpTyped ==
    ASSUME NEW content, ContentTyped(content), NEW rkey
    PROVE  /\ LookedUp(content, rkey) \in ContentType
           /\ rkey \in DOMAIN content => LookedUp(content, rkey).n = content[rkey].n
           /\ rkey \notin DOMAIN content =>
                \A counter \in ContentCounters : LookedUp(content, rkey).n[counter] = 0
BY DEF LookedUp, NewContent, ContentTyped, ContentType

\* What WithContent may leave out.
LEMMA WithContentIs ==
    ASSUME NEW c, ContentTyped(c), NEW rkey \in Rkeys, NEW content \in WithContent(c, rkey)
    PROVE  \E out \in SUBSET DOMAIN c :
              /\ content = [k \in (DOMAIN c \ out) \cup {rkey} |->
                              IF k # rkey THEN c[k] ELSE LookedUp(c, rkey)]
              /\ rkey \in DOMAIN c => out = {}
              /\ rkey \notin DOMAIN c /\ Cardinality(DOMAIN c) >= MaxContentItems =>
                    \E k \in DOMAIN c : out = {k}
<1> DEFINE held == DOMAIN c
           least == LeastUsed(held, LAMBDA k : c[k].used)
           gone == IF rkey \in held \/ Cardinality(held) < MaxContentItems THEN {{}}
                   ELSE {{k} : k \in least}
<1>1. least \subseteq held
  BY DEF LeastUsed
<1>2. PICK out \in gone : content = [k \in (held \ out) \cup {rkey} |->
                              IF k # rkey THEN c[k] ELSE LookedUp(c, rkey)]
  <2> DEFINE after(out) == [k \in (held \ out) \cup {rkey} |->
                              IF k # rkey THEN c[k] ELSE LookedUp(c, rkey)]
         one(out) == [k \in (held \ out) \cup {rkey} |->
            IF k # rkey THEN c[k]
            ELSE [(IF k \in held THEN c[k] ELSE NewContent) EXCEPT !.used = @ + 1]]
  <2>1. WithContent(c, rkey) = {one(out) : out \in gone}
    BY Zenon DEF WithContent
  <2> HIDE DEF one, gone
  <2>2. PICK out \in gone : content = one(out)
    BY <2>1
  <2>3. one(out) = after(out)
    BY DEF one, LookedUp
  <2> QED BY <2>2, <2>3
<1> HIDE DEF least
<1>3. out \in SUBSET held /\ (rkey \in held => out = {})
  BY <1>1
<1>4. Cardinality(held) \in Nat /\ MaxContentItems \in Nat
  BY FS_CardinalityType, ActivityAssumption DEF ContentTyped
<1>5. rkey \notin held /\ Cardinality(held) >= MaxContentItems =>
        \E k \in held : out = {k}
  BY <1>1, <1>4
<1> QED BY <1>2, <1>3, <1>5

LEMMA WithContentTyped ==
    ASSUME NEW c, ContentTyped(c), NEW rkey \in Rkeys, NEW content \in WithContent(c, rkey)
    PROVE  ContentTyped(content) /\ rkey \in DOMAIN content
<1>1. PICK out \in SUBSET DOMAIN c :
              /\ content = [k \in (DOMAIN c \ out) \cup {rkey} |->
                              IF k # rkey THEN c[k] ELSE LookedUp(c, rkey)]
              /\ rkey \in DOMAIN c => out = {}
              /\ rkey \notin DOMAIN c /\ Cardinality(DOMAIN c) >= MaxContentItems =>
                    \E k \in DOMAIN c : out = {k}
  BY WithContentIs
<1> DEFINE held == DOMAIN c
           kept == held \ out
<1>2. DOMAIN content = kept \cup {rkey}
  BY <1>1
<1>3. IsFiniteSet(held) /\ Cardinality(held) \in Nat /\ MaxContentItems \in Nat \ {0}
      /\ Cardinality(held) <= MaxContentItems
  BY FS_CardinalityType, ActivityAssumption DEF ContentTyped
<1>4. IsFiniteSet(kept) /\ Cardinality(kept) \in Nat /\ Cardinality(kept) <= Cardinality(held)
  BY <1>3, FS_Subset, FS_CardinalityType
<1>5. /\ IsFiniteSet(kept \cup {rkey})
      /\ Cardinality(kept \cup {rkey})
            = IF rkey \in kept THEN Cardinality(kept) ELSE Cardinality(kept) + 1
  BY <1>4, FS_AddElement
<1>6. Cardinality(kept \cup {rkey}) <= MaxContentItems
  <2>1. CASE rkey \in held
    BY <1>1, <1>3, <1>4, <1>5, <2>1
  <2>2. CASE rkey \notin held /\ Cardinality(held) < MaxContentItems
    BY <1>3, <1>4, <1>5, <2>2
  <2>3. CASE rkey \notin held /\ Cardinality(held) >= MaxContentItems
    <3>1. PICK k \in held : out = {k}
      BY <1>1, <2>3
    <3>2. Cardinality(kept) = Cardinality(held) - 1
      BY <1>3, <3>1, FS_RemoveElement
    <3> QED BY <1>3, <1>4, <1>5, <2>3, <3>2
  <2> QED BY <1>3, <2>1, <2>2, <2>3
<1>7. content \in [DOMAIN content -> ContentType]
  <2>1. \A k \in DOMAIN content : content[k] \in ContentType
    BY <1>1, LookedUpTyped DEF ContentTyped
  <2> QED BY <1>1, <2>1
<1>8. DOMAIN content \subseteq Rkeys
  BY <1>2 DEF ContentTyped
<1> QED BY <1>2, <1>5, <1>6, <1>7, <1>8 DEF ContentTyped

LEMMA WithContentTotal ==
    ASSUME NEW c, ContentTyped(c), NEW rkey \in Rkeys, NEW content \in WithContent(c, rkey),
           NEW counter \in ContentCounters
    PROVE  ContentTotal(content, counter) <= ContentTotal(c, counter)
<1>1. PICK out \in SUBSET DOMAIN c :
              /\ content = [k \in (DOMAIN c \ out) \cup {rkey} |->
                              IF k # rkey THEN c[k] ELSE LookedUp(c, rkey)]
              /\ rkey \in DOMAIN c => out = {}
              /\ rkey \notin DOMAIN c /\ Cardinality(DOMAIN c) >= MaxContentItems =>
                    \E k \in DOMAIN c : out = {k}
  BY WithContentIs
<1> DEFINE held == DOMAIN c
           kept == held \ out
           f == CountsOf(content, counter)
           g == CountsOf(c, counter)
<1>2. /\ DOMAIN content = kept \cup {rkey}
      /\ \A k \in DOMAIN content :
            content[k] = IF k # rkey THEN c[k] ELSE LookedUp(c, rkey)
  BY <1>1
<1>3. ContentTyped(content)
  BY WithContentTyped
<1>4. /\ f \in [kept \cup {rkey} -> Int] /\ SumFunction(f) = ContentTotal(content, counter)
      /\ g \in [held -> Int] /\ g \in [held -> Nat]
      /\ SumFunction(g) = ContentTotal(c, counter)
      /\ SumFunction(g) \in Nat
  BY <1>2, <1>3, CountsTyped
<1>5. IsFiniteSet(held) /\ IsFiniteSet(kept)
  BY FS_Subset DEF ContentTyped
<1>6. \A k \in DOMAIN content : f[k] = content[k].n[counter]
  BY DEF CountsOf
<1>7. \A k \in held : g[k] = c[k].n[counter]
  BY DEF CountsOf
<1> HIDE DEF f, g
<1>8. ASSUME NEW k \in kept PROVE f[k] = g[k]
  <2>1. k \in held /\ k \in DOMAIN content
    BY <1>2
  <2>2. content[k].n[counter] = c[k].n[counter]
    BY <1>2, <2>1, LookedUpTyped
  <2> QED BY <1>6, <1>7, <2>1, <2>2
<1>9. CASE rkey \in held
  <2>1. kept = held /\ kept \cup {rkey} = held
    BY <1>1, <1>9
  <2>2. SumFunction(f) = SumFunction(g)
    BY <1>4, <1>5, <1>8, <2>1, SumUnchanged
  <2> QED BY <1>4, <2>2
<1>10. CASE rkey \notin held
  <2> DEFINE h == [k \in kept |-> g[k]]
  <2>1. h \in [kept -> Int]
    BY <1>4
  <2>2. rkey \notin kept /\ \A k \in kept : f[k] = h[k]
    BY <1>8, <1>10
  <2>3. f[rkey] = 0
    <3>1. rkey \in DOMAIN content /\ content[rkey] = LookedUp(c, rkey)
      BY <1>2
    <3>2. LookedUp(c, rkey).n[counter] = 0
      BY <1>10, LookedUpTyped
    <3> QED BY <1>6, <3>1, <3>2
  <2> HIDE DEF h
  <2>4. SumFunction(f) = SumFunction(h) + f[rkey]
    BY <1>4, <1>5, <2>1, <2>2, SumGrows
  <2>5. SumFunction(h) = SumFunctionOnSet(g, kept)
    <3>1. SumFunctionOnSet(h, kept) = SumFunctionOnSet(g, kept)
      BY <1>5, SumSame DEF h
    <3> QED BY <3>1 DEF SumFunction, h
  <2>6. SumFunctionOnSet(g, kept) \in Nat /\ SumFunctionOnSet(g, kept) <= SumFunction(g)
    BY <1>4, <1>5, SumOfPart DEF SumFunction
  <2> QED BY <1>4, <2>3, <2>4, <2>5, <2>6
<1> QED BY <1>9, <1>10

LEMMA ContentCountedTotal ==
    ASSUME NEW c, ContentTyped(c), NEW rkey \in DOMAIN c, NEW counter \in ContentCounters
    PROVE  LET d == [c EXCEPT ![rkey] = ContentCounted(c[rkey], counter)] IN
           /\ ContentTyped(d)
           /\ \A other \in ContentCounters :
                ContentTotal(d, other)
                   = ContentTotal(c, other) + (IF other = counter THEN 1 ELSE 0)
<1> DEFINE item == ContentCounted(c[rkey], counter)
           d == [c EXCEPT ![rkey] = item]
<1>1. c[rkey] \in ContentType
  BY DEF ContentTyped
<1>2. /\ item \in ContentType
      /\ item.n = [c[rkey].n EXCEPT ![counter] = @ + 1]
  <2>1. PICK m, l : m = [c[rkey].n EXCEPT ![counter] = @ + 1]
                    /\ l = IF ContentAlert(c[rkey], counter) THEN c[rkey].alerts + 1
                           ELSE c[rkey].alerts
    OBVIOUS
  <2>2. m \in [ContentCounters -> Nat] /\ l \in Nat
    BY <1>1, <2>1 DEF ContentType
  <2>3. item = [c[rkey] EXCEPT !.n = m, !.alerts = l]
    BY <1>1, <2>1 DEF ContentCounted, ContentType
  <2> QED BY <1>1, <2>1, <2>2, <2>3 DEF ContentType
<1> HIDE DEF item
<1>3. DOMAIN d = DOMAIN c /\ d[rkey] = item /\ \A k \in DOMAIN c \ {rkey} : d[k] = c[k]
  OBVIOUS
<1>4. d \in [DOMAIN c -> ContentType]
  BY <1>2 DEF ContentTyped
<1>5. ContentTyped(d)
  BY <1>3, <1>4 DEF ContentTyped
<1> HIDE DEF d
<1>6. ASSUME NEW other \in ContentCounters
      PROVE  ContentTotal(d, other)
                = ContentTotal(c, other) + (IF other = counter THEN 1 ELSE 0)
  <2> DEFINE f == CountsOf(d, other)
             g == CountsOf(c, other)
  <2>1. /\ f \in [DOMAIN c -> Int] /\ g \in [DOMAIN c -> Int] /\ g \in [DOMAIN c -> Nat]
        /\ SumFunction(f) = ContentTotal(d, other)
        /\ SumFunction(g) = ContentTotal(c, other) /\ SumFunction(g) \in Nat
    BY <1>3, <1>5, CountsTyped
  <2>2. \A k \in DOMAIN c : f[k] = d[k].n[other] /\ g[k] = c[k].n[other]
    BY <1>3 DEF CountsOf
  <2> HIDE DEF f, g
  <2>3. \A k \in DOMAIN c \ {rkey} : f[k] = g[k]
    BY <1>3, <2>2
  <2>4. SumFunction(f) = SumFunction(g) - g[rkey] + f[rkey]
    BY <2>1, <2>3, SumChanges DEF ContentTyped
  <2>5. f[rkey] = g[rkey] + (IF other = counter THEN 1 ELSE 0)
    BY <1>1, <1>2, <1>3, <2>2 DEF ContentType
  <2>6. g[rkey] \in Nat
    BY <2>1
  <2> QED BY <2>1, <2>4, <2>5, <2>6
<1> QED BY <1>5, <1>6 DEF d, item

-----------------------------------------------------------------------------
(***************************************************************************)
(* The part of the account acted on: what it received is counted first,    *)
(* and then for its content, which may have to make place.                 *)
(***************************************************************************)
Credited(a, kind, content, rkey) ==
    [Counted(a, Received[kind], ReceivedBy(kind)) EXCEPT !.content =
        [content EXCEPT ![rkey] = ContentCounted(content[rkey], Done[kind])]]

LEMMA ReceivedMoves ==
    ASSUME NEW a, Sound(a), NEW kind \in Interactions
    PROVE  LET b == Counted(a, Received[kind], ReceivedBy(kind)) IN
           /\ Sound(b) /\ b.did = a.did /\ b.content = a.content
           /\ \A c \in Counters :
                /\ a.n[c] \in Nat /\ b.n[c] \in Nat
                /\ b.n[c] = a.n[c] + (IF c = Received[kind] THEN ReceivedBy(kind) ELSE 0)
<1>1. /\ Received[kind] \in Doubling /\ ReceivedBy(kind) \in {1, 2}
      /\ ReceivedBy(kind) = 2 <=> Received[kind] = "reposted"
  BY InteractionFacts
<1>2. PICK r, by : r = Received[kind] /\ by = ReceivedBy(kind)
  OBVIOUS
<1> QED BY <1>1, <1>2, CountedMoves

LEMMA CreditedSound ==
    ASSUME NEW a, Sound(a), NEW kind \in ContentKinds, NEW rkey \in Rkeys,
           NEW content \in WithContent(a.content, rkey)
    PROVE  LET x == Credited(a, kind, content, rkey) IN
           /\ Sound(x) /\ x.did = a.did
           /\ \A c \in Counters :
                x.n[c] = a.n[c] + (IF c = Received[kind] THEN ReceivedBy(kind) ELSE 0)
<1> DEFINE b == Counted(a, Received[kind], ReceivedBy(kind))
           d == [content EXCEPT ![rkey] = ContentCounted(content[rkey], Done[kind])]
           x == [b EXCEPT !.content = d]
<1>1. kind \in Interactions /\ Done[kind] \in ContentCounters
  BY CounterFacts, InteractionFacts
<1>2. /\ Sound(b) /\ b.did = a.did /\ b.content = a.content
      /\ \A c \in Counters :
            /\ a.n[c] \in Nat /\ b.n[c] \in Nat
            /\ b.n[c] = a.n[c] + (IF c = Received[kind] THEN ReceivedBy(kind) ELSE 0)
  BY <1>1, ReceivedMoves
<1>3. ContentTyped(a.content) /\ AccountTyped(b)
  BY <1>2, AccountFields DEF Sound
<1>4. ContentTyped(content) /\ rkey \in DOMAIN content
  BY <1>3, WithContentTyped
<1>5. /\ ContentTyped(d)
      /\ \A c \in ContentCounters :
            ContentTotal(d, c)
              = ContentTotal(content, c) + (IF c = Done[kind] THEN 1 ELSE 0)
  BY <1>1, <1>4, ContentCountedTotal
<1>6. \A c \in ContentCounters :
        /\ ContentTotal(d, c) \in Nat /\ ContentTotal(a.content, c) \in Nat
        /\ ContentTotal(d, c)
             <= ContentTotal(a.content, c) + (IF c = Done[kind] THEN 1 ELSE 0)
  <2> SUFFICES ASSUME NEW c \in ContentCounters
               PROVE  /\ ContentTotal(d, c) \in Nat /\ ContentTotal(a.content, c) \in Nat
                      /\ ContentTotal(d, c) <= ContentTotal(a.content, c)
                                                 + (IF c = Done[kind] THEN 1 ELSE 0)
    OBVIOUS
  <2> HIDE DEF d
  <2>1. ContentTotal(content, c) <= ContentTotal(a.content, c)
    BY <1>3, WithContentTotal
  <2>2. ContentTotal(d, c) \in Nat /\ ContentTotal(a.content, c) \in Nat
        /\ ContentTotal(content, c) \in Nat
    BY <1>3, <1>4, <1>5, CountsTyped
  <2> QED BY <1>5, <2>1, <2>2
<1> HIDE DEF b, d
<1>7. x.did = b.did /\ x.n = b.n /\ x.alerts = b.alerts
      /\ x.otherAlerts = b.otherAlerts /\ x.content = d
  BY <1>3 DEF AccountTyped
<1>8. AccountTyped(x)
  <2>1. b \in [did : Dids, n : [Counters -> Nat], alerts : Nat, otherAlerts : Nat,
               content : {b.content}]
    BY <1>3 DEF AccountTyped
  <2>2. x \in [did : Dids, n : [Counters -> Nat], alerts : Nat, otherAlerts : Nat,
               content : {x.content}]
    BY <1>7, <2>1
  <2> QED BY <1>5, <1>7, <2>2 DEF AccountTyped
<1> HIDE DEF x
<1>9. Explained(x) /\ EvenReposts(x)
  BY <1>2, <1>7 DEF Sound, Explained, EvenReposts
<1>10. WithinAccount(x)
  <2> SUFFICES ASSUME NEW other \in ContentKinds
               PROVE  ReceivedBy(other) * ContentTotal(x.content, Done[other])
                        <= x.n[Received[other]]
    BY DEF WithinAccount
  <2>1. other \in Interactions /\ Done[other] \in ContentCounters
        /\ Received[other] \in Counters
        /\ (Received[other] = Received[kind] <=> other = kind)
        /\ (Done[other] = Done[kind] <=> other = kind)
    BY <1>1, CounterFacts, InteractionFacts, InteractionsApart
  <2>2. PICK t \in Nat, u \in Nat, by \in {1, 2}, r \in Nat :
           /\ t = ContentTotal(d, Done[other]) /\ u = ContentTotal(a.content, Done[other])
           /\ by = ReceivedBy(other) /\ r = a.n[Received[other]]
    BY <1>2, <1>6, <2>1, InteractionFacts
  <2>3. t <= u + (IF other = kind THEN 1 ELSE 0)
    BY <1>6, <2>1, <2>2
  <2>4. by * u <= r
    BY <2>2 DEF Sound, WithinAccount
  <2>5. x.n[Received[other]] = r + (IF other = kind THEN by ELSE 0)
    BY <1>2, <1>7, <2>1, <2>2
  <2>6. by * t <= r + (IF other = kind THEN by ELSE 0)
    BY <2>3, <2>4
  <2> QED BY <1>7, <2>2, <2>5, <2>6
<1>11. Sound(x) /\ x.did = a.did
  BY <1>2, <1>7, <1>8, <1>9, <1>10 DEF Sound
<1>12. \A c \in Counters :
         x.n[c] = a.n[c] + (IF c = Received[kind] THEN ReceivedBy(kind) ELSE 0)
  BY <1>2, <1>7
<1>13. x = Credited(a, kind, content, rkey)
  BY DEF x, b, d, Credited
<1> QED BY <1>11, <1>12, <1>13

-----------------------------------------------------------------------------
(***************************************************************************)
(* All accounts, and the totals of their counters.                         *)
(***************************************************************************)
IsList(list) == list \in Seq(Range(list))

AllSound(list) == IsList(list) /\ \A i \in DOMAIN list : Sound(list[i])

TotalIn(list, counter) == SumFunction([i \in DOMAIN list |-> list[i].n[counter]])

LEMMA ListFacts ==
    ASSUME NEW list, IsList(list)
    PROVE  /\ Len(list) \in Nat /\ DOMAIN list = 1 .. Len(list)
           /\ IsFiniteSet(DOMAIN list)
<1>1. Len(list) \in Nat /\ DOMAIN list = 1 .. Len(list)
  BY DEF IsList
<1> QED BY <1>1, FS_Interval

LEMMA AppendList ==
    ASSUME NEW list, IsList(list), NEW a
    PROVE  LET longer == Append(list, a) IN
           /\ IsList(longer) /\ Len(longer) = Len(list) + 1
           /\ DOMAIN longer = DOMAIN list \cup {Len(list) + 1}
           /\ Len(list) + 1 \notin DOMAIN list
           /\ longer[Len(list) + 1] = a /\ \A i \in DOMAIN list : longer[i] = list[i]
<1> DEFINE longer == Append(list, a)
           S == Range(list) \cup {a}
<1>1. list \in Seq(S) /\ a \in S
  BY DEF IsList
<1> HIDE DEF S
<1>2. /\ longer \in Seq(S) /\ Len(longer) = Len(list) + 1
      /\ longer[Len(list) + 1] = a /\ \A i \in 1 .. Len(list) : longer[i] = list[i]
  BY <1>1
<1>3. Len(list) \in Nat /\ DOMAIN list = 1 .. Len(list)
      /\ DOMAIN longer = 1 .. (Len(list) + 1)
  BY <1>1, <1>2
<1> HIDE DEF longer
<1>4. \A i \in 1 .. Len(longer) : longer[i] \in Range(longer)
  BY <1>2, <1>3 DEF Range
<1>5. IsList(longer)
  BY <1>2, <1>3, <1>4 DEF IsList
<1> QED BY <1>2, <1>3, <1>5 DEF longer

LEMMA ExceptList ==
    ASSUME NEW list, IsList(list), NEW i \in DOMAIN list, NEW a
    PROVE  LET other == [list EXCEPT ![i] = a] IN
           /\ IsList(other) /\ Len(other) = Len(list) /\ DOMAIN other = DOMAIN list
           /\ other[i] = a /\ \A j \in DOMAIN list \ {i} : other[j] = list[j]
<1> DEFINE other == [list EXCEPT ![i] = a]
           S == Range(list) \cup {a}
<1>1. list \in Seq(S) /\ a \in S
  BY DEF IsList
<1> HIDE DEF S
<1>2. other \in Seq(S) /\ Len(other) = Len(list) /\ DOMAIN other = DOMAIN list
  BY <1>1
<1>3. other[i] = a /\ \A j \in DOMAIN list \ {i} : other[j] = list[j]
  OBVIOUS
<1> HIDE DEF other
<1>4. \A j \in 1 .. Len(other) : other[j] \in Range(other)
  BY <1>2 DEF Range
<1>5. IsList(other)
  BY <1>2, <1>4 DEF IsList
<1> QED BY <1>2, <1>3, <1>5 DEF other

LEMMA TotalTyped ==
    ASSUME NEW list, AllSound(list), NEW counter \in Counters
    PROVE  /\ [i \in DOMAIN list |-> list[i].n[counter]] \in [DOMAIN list -> Int]
           /\ TotalIn(list, counter) \in Nat
<1>1. [i \in DOMAIN list |-> list[i].n[counter]] \in [DOMAIN list -> Nat]
  BY AccountFields DEF AllSound, Sound
<1>2. IsFiniteSet(DOMAIN list)
  BY ListFacts DEF AllSound
<1> QED BY <1>1, <1>2, SumIsNat DEF TotalIn

LEMMA AppendSound ==
    ASSUME NEW list, AllSound(list), NEW a, Sound(a)
    PROVE  /\ AllSound(Append(list, a))
           /\ \A c \in Counters : TotalIn(Append(list, a), c) = TotalIn(list, c) + a.n[c]
<1> DEFINE longer == Append(list, a)
<1>1. /\ IsList(longer) /\ DOMAIN longer = DOMAIN list \cup {Len(list) + 1}
      /\ Len(list) + 1 \notin DOMAIN list
      /\ longer[Len(list) + 1] = a /\ \A i \in DOMAIN list : longer[i] = list[i]
  BY AppendList DEF AllSound
<1> HIDE DEF longer
<1>2. AllSound(longer)
  BY <1>1 DEF AllSound
<1>3. ASSUME NEW c \in Counters PROVE TotalIn(longer, c) = TotalIn(list, c) + a.n[c]
  <2> DEFINE f == [i \in DOMAIN longer |-> longer[i].n[c]]
             g == [i \in DOMAIN list |-> list[i].n[c]]
  <2>1. f \in [DOMAIN list \cup {Len(list) + 1} -> Int] /\ g \in [DOMAIN list -> Int]
    BY <1>1, <1>2, TotalTyped
  <2>2. f[Len(list) + 1] = a.n[c] /\ \A i \in DOMAIN list : f[i] = g[i]
    BY <1>1
  <2>3. IsFiniteSet(DOMAIN list)
    BY ListFacts DEF AllSound
  <2>4. TotalIn(longer, c) = SumFunction(f) /\ TotalIn(list, c) = SumFunction(g)
    BY DEF TotalIn
  <2> HIDE DEF f, g
  <2>5. SumFunction(f) = SumFunction(g) + f[Len(list) + 1]
    <3>1. PICK S, x : S = DOMAIN list /\ x = Len(list) + 1
      OBVIOUS
    <3>2. /\ IsFiniteSet(S) /\ x \notin S /\ f \in [S \cup {x} -> Int] /\ g \in [S -> Int]
          /\ \A i \in S : f[i] = g[i]
      BY <1>1, <2>1, <2>2, <2>3, <3>1
    <3>3. SumFunction(f) = SumFunction(g) + f[x]
      BY <3>2, SumGrows
    <3> QED BY <3>1, <3>3
  <2> QED BY <2>2, <2>4, <2>5
<1> QED BY <1>2, <1>3 DEF longer

LEMMA ExceptSound ==
    ASSUME NEW list, AllSound(list), NEW i \in DOMAIN list, NEW a, Sound(a)
    PROVE  /\ AllSound([list EXCEPT ![i] = a])
           /\ \A c \in Counters :
                TotalIn([list EXCEPT ![i] = a], c) = TotalIn(list, c) - list[i].n[c] + a.n[c]
<1> DEFINE other == [list EXCEPT ![i] = a]
<1>1. /\ IsList(other) /\ DOMAIN other = DOMAIN list
      /\ other[i] = a /\ \A j \in DOMAIN list \ {i} : other[j] = list[j]
  BY ExceptList DEF AllSound
<1> HIDE DEF other
<1>2. AllSound(other)
  BY <1>1 DEF AllSound
<1>3. ASSUME NEW c \in Counters
      PROVE  TotalIn(other, c) = TotalIn(list, c) - list[i].n[c] + a.n[c]
  <2> DEFINE f == [j \in DOMAIN other |-> other[j].n[c]]
             g == [j \in DOMAIN list |-> list[j].n[c]]
  <2>1. f \in [DOMAIN list -> Int] /\ g \in [DOMAIN list -> Int]
    BY <1>1, <1>2, TotalTyped
  <2>2. f[i] = a.n[c] /\ g[i] = list[i].n[c] /\ \A j \in DOMAIN list \ {i} : f[j] = g[j]
    BY <1>1
  <2>3. IsFiniteSet(DOMAIN list)
    BY ListFacts DEF AllSound
  <2>4. TotalIn(other, c) = SumFunction(f) /\ TotalIn(list, c) = SumFunction(g)
    BY DEF TotalIn
  <2> HIDE DEF f, g
  <2>5. SumFunction(f) = SumFunction(g) - g[i] + f[i]
    BY <2>1, <2>2, <2>3, SumChanges
  <2> QED BY <2>2, <2>4, <2>5
<1> QED BY <1>2, <1>3 DEF other

LEMMA NewAccountSound ==
    ASSUME NEW did \in Dids
    PROVE  /\ Sound(NewAccount(did)) /\ NewAccount(did).did = did
           /\ \A c \in Counters : NewAccount(did).n[c] = 0
<1> DEFINE a == NewAccount(did)
           none == [k \in {} |-> NewContent]
<1>1. /\ a.did = did /\ a.n = [c \in Counters |-> 0] /\ a.alerts = 0 /\ a.otherAlerts = 0
      /\ a.content = none
      /\ a \in [did : Dids, n : [Counters -> Nat], alerts : Nat, otherAlerts : Nat,
                content : {a.content}]
  BY DEF NewAccount
<1>2. DOMAIN none = {} /\ IsFiniteSet({}) /\ Cardinality({}) = 0
  BY FS_EmptySet
<1>3. ContentTyped(none)
  <2>1. MaxContentItems \in Nat
    BY ActivityAssumption
  <2>2. none \in [DOMAIN none -> ContentType]
    BY <1>2
  <2> QED BY <1>2, <2>1, <2>2 DEF ContentTyped
<1>4. AccountTyped(a)
  BY <1>1, <1>3 DEF AccountTyped
<1> HIDE DEF a
<1>5. \A c \in Counters : a.n[c] = 0
  BY <1>1
<1>6. Explained(a)
  <2>1. \A f \in Nat \ {0} : Passed(0, f) = 0
    <3> TAKE f \in Nat \ {0}
    <3>1. PowersPassed(0, f) = {}
      BY DEF PowersPassed
    <3> QED BY <3>1, PassedFinite, FS_EmptySet
  <2>2. AllPassed(a) \in [Doubling -> {0}]
    <3>1. \A c \in Doubling : a.n[c] = 0 /\ Factor[c] \in Nat \ {0}
      BY <1>5, CounterFacts, FactorTyped
    <3> QED BY <2>1, <3>1 DEF AllPassed
  <2>3. SumFunction(AllPassed(a)) = 0
    BY <2>2, SumOfZeros, DoublingFinite
  <2>4. a.alerts = a.otherAlerts + SumFunction(AllPassed(a))
    BY <1>1, <2>3
  <2> QED BY <2>4 DEF Explained, AllPassed
<1>7. WithinAccount(a)
  <2> SUFFICES ASSUME NEW kind \in ContentKinds
               PROVE  ReceivedBy(kind) * ContentTotal(a.content, Done[kind])
                        <= a.n[Received[kind]]
    BY DEF WithinAccount
  <2>1. Done[kind] \in ContentCounters /\ Received[kind] \in Counters
        /\ ReceivedBy(kind) \in {1, 2}
    BY CounterFacts, InteractionFacts
  <2>2. ContentTotal(none, Done[kind]) = 0
    <3> DEFINE f == CountsOf(none, Done[kind])
    <3>1. f \in [{} -> {0}]
      BY <1>2 DEF CountsOf
    <3>2. SumFunction(f) = 0
      BY <1>2, <3>1, SumOfZeros
    <3> QED BY <1>3, <2>1, <3>2, CountsTyped
  <2> QED BY <1>1, <1>5, <2>1, <2>2
<1>8. EvenReposts(a)
  <2>1. a.n["reposted"] = 0
    BY <1>5, CounterFacts
  <2> QED BY <2>1 DEF EvenReposts
<1> QED BY <1>1, <1>4, <1>5, <1>6, <1>7, <1>8 DEF Sound, a

-----------------------------------------------------------------------------
(***************************************************************************)
(* The cache of accounts.                                                  *)
(***************************************************************************)
Held(entry) == {did \in Dids : entry[did] # 0}

CacheFits(list, entry, uses) ==
    /\ entry \in [Dids -> 0 .. Len(list)]
    /\ \A did \in Held(entry) : list[entry[did]].did = did
    /\ IsFiniteSet(Held(entry)) /\ Cardinality(Held(entry)) <= MaxAccounts
    /\ uses \in [Dids -> Nat]

LEMMA CacheTypedIs == CacheTyped <=> CacheFits(accounts, cached, used)
BY DEF CacheTyped, CacheFits, Held

\* The accounts may change, as long as they are the same ones.
LEMMA CacheStays ==
    ASSUME NEW list, IsList(list), NEW other, NEW entry, NEW uses,
           CacheFits(list, entry, uses),
           Len(other) = Len(list), \A i \in DOMAIN list : other[i].did = list[i].did
    PROVE  CacheFits(other, entry, uses)
<1>1. DOMAIN list = 1 .. Len(list) /\ Len(list) \in Nat
  BY ListFacts
<1>2. \A did \in Held(entry) : entry[did] \in DOMAIN list
  BY <1>1 DEF CacheFits, Held
<1> QED BY <1>1, <1>2 DEF CacheFits

LEMMA EvictedIs ==
    ASSUME NEW gone \in Evicted, CacheTyped
    PROVE  /\ gone \subseteq Held(cached)
           /\ IsFiniteSet(Held(cached) \ gone)
           /\ Cardinality(Held(cached) \ gone) < MaxAccounts
<1> DEFINE held == {did \in Dids : cached[did] # 0}
           least == LeastUsed(held, LAMBDA did : used[did])
<1>1. held = Held(cached) /\ IsFiniteSet(held) /\ Cardinality(held) \in Nat
      /\ Cardinality(held) <= MaxAccounts /\ MaxAccounts \in Nat
  <2>1. IsFiniteSet(held) /\ Cardinality(held) <= MaxAccounts
    BY DEF CacheTyped
  <2>2. MaxAccounts \in Nat
    BY ActivityAssumption
  <2> QED BY <2>1, <2>2, FS_CardinalityType DEF Held
<1>2. least \subseteq held
  BY DEF LeastUsed
<1>3. gone \in IF Cardinality(held) < MaxAccounts THEN {{}} ELSE {{did} : did \in least}
  BY DEF Evicted
<1> HIDE DEF held, least
<1>4. CASE Cardinality(held) < MaxAccounts
  <2>1. gone = {} /\ held \ gone = held
    BY <1>3, <1>4
  <2> QED BY <1>1, <1>4, <2>1
<1>5. CASE ~ (Cardinality(held) < MaxAccounts)
  <2>1. PICK did \in held : gone = {did}
    BY <1>2, <1>3, <1>5
  <2>2. IsFiniteSet(held \ {did}) /\ Cardinality(held \ {did}) = Cardinality(held) - 1
    BY <1>1, <2>1, FS_RemoveElement
  <2> QED BY <1>1, <2>1, <2>2
<1> QED BY <1>4, <1>5

\* What a lookup gives: the account, made if need be, and the cache with it.
Found(found, did) ==
    /\ AllSound(found.accounts)
    /\ found.id \in DOMAIN found.accounts /\ found.accounts[found.id].did = did
    /\ CacheFits(found.accounts, found.cached, found.used)
    /\ \A c \in Counters : TotalIn(found.accounts, c) = TotalIn(accounts, c)
    /\ Len(accounts) <= Len(found.accounts)
    /\ \A i \in DOMAIN accounts :
          i \in DOMAIN found.accounts /\ found.accounts[i] = accounts[i]

LEMMA GetAccountFinds ==
    ASSUME AllSound(accounts), CacheTyped, NEW did \in Dids, NEW found \in GetAccount(did)
    PROVE  Found(found, did)
<1>1. IsList(accounts) /\ Len(accounts) \in Nat /\ DOMAIN accounts = 1 .. Len(accounts)
  BY ListFacts DEF AllSound
<1>2. used \in [Dids -> Nat] /\ cached \in [Dids -> 0 .. Len(accounts)]
  BY DEF CacheTyped
<1>3. CASE cached[did] = 0
  <2> DEFINE new == NewAccount(did)
             longer == Append(accounts, new)
             entryOf(gone) == [other \in Dids |->
                IF other = did THEN Len(accounts) + 1
                ELSE IF other \in gone THEN 0 ELSE cached[other]]
             uses == [used EXCEPT ![did] = 2]
  <2>1. PICK gone \in Evicted : found = [accounts |-> longer, cached |-> entryOf(gone),
                                         used |-> uses, id |-> Len(accounts) + 1]
    BY <1>3 DEF GetAccount
  <2> DEFINE entry == entryOf(gone)
  <2>2. /\ found.accounts = longer /\ found.cached = entry /\ found.used = uses
        /\ found.id = Len(accounts) + 1
    BY <2>1
  <2>3. /\ Sound(new) /\ new.did = did /\ \A c \in Counters : new.n[c] = 0
    BY NewAccountSound
  <2>4. /\ Len(longer) = Len(accounts) + 1
        /\ DOMAIN longer = DOMAIN accounts \cup {Len(accounts) + 1}
        /\ longer[Len(accounts) + 1] = new
        /\ \A i \in DOMAIN accounts : longer[i] = accounts[i]
    BY <1>1, AppendList
  <2>5. AllSound(longer)
        /\ \A c \in Counters : TotalIn(longer, c) = TotalIn(accounts, c) + new.n[c]
    BY <2>3, AppendSound
  <2>6. /\ entry \in [Dids -> 0 .. (Len(accounts) + 1)]
        /\ Held(entry) = (Held(cached) \ gone) \cup {did}
        /\ \A other \in Held(entry) : other # did =>
              other \in Held(cached) /\ entry[other] = cached[other]
        /\ entry[did] = Len(accounts) + 1
    BY <1>1, <1>2 DEF Held
  <2>7. uses \in [Dids -> Nat]
    BY <1>2
  <2> HIDE DEF entry, uses, longer, new
  <2>8. \A other \in Held(entry) : longer[entry[other]].did = other
    <3> TAKE other \in Held(entry)
    <3>1. CASE other = did
      BY <2>3, <2>4, <2>6, <3>1
    <3>2. CASE other # did
      <4>1. accounts[cached[other]].did = other /\ cached[other] \in DOMAIN accounts
        BY <1>1, <1>2, <2>6, <3>2 DEF CacheTyped, Held
      <4> QED BY <2>4, <2>6, <3>2, <4>1
    <3> QED BY <3>1, <3>2
  <2>9. IsFiniteSet(Held(entry)) /\ Cardinality(Held(entry)) <= MaxAccounts
    <3> DEFINE rest == Held(cached) \ gone
    <3>1. IsFiniteSet(rest) /\ Cardinality(rest) < MaxAccounts
      BY EvictedIs
    <3>2. Cardinality(rest) \in Nat /\ MaxAccounts \in Nat
      BY <3>1, FS_CardinalityType, ActivityAssumption
    <3>3. did \notin rest
      BY <1>3 DEF Held
    <3> HIDE DEF rest
    <3>4. IsFiniteSet(rest \cup {did}) /\ Cardinality(rest \cup {did}) = Cardinality(rest) + 1
      BY <3>1, <3>3, FS_AddElement
    <3> QED BY <2>6, <3>1, <3>2, <3>4 DEF rest
  <2>10. CacheFits(longer, entry, uses)
    BY <2>4, <2>6, <2>7, <2>8, <2>9 DEF CacheFits
  <2>11. \A c \in Counters : TotalIn(longer, c) = TotalIn(accounts, c)
    BY <2>3, <2>5, TotalTyped
  <2> QED BY <1>1, <2>2, <2>3, <2>4, <2>5, <2>10, <2>11 DEF Found
<1>4. CASE cached[did] # 0
  <2> DEFINE uses == [used EXCEPT ![did] = @ + 1]
  <2>1. found = [accounts |-> accounts, cached |-> cached, used |-> uses,
                 id |-> cached[did]]
    BY <1>4 DEF GetAccount
  <2>2. /\ found.accounts = accounts /\ found.cached = cached /\ found.used = uses
        /\ found.id = cached[did]
    BY <2>1
  <2>3. uses \in [Dids -> Nat]
    BY <1>2
  <2> HIDE DEF uses
  <2>4. CacheFits(accounts, cached, uses)
    BY <2>3, CacheTypedIs DEF CacheFits
  <2>5. cached[did] \in DOMAIN accounts /\ accounts[cached[did]].did = did
    BY <1>1, <1>2, <1>4 DEF CacheTyped
  <2> QED BY <1>1, <2>2, <2>4, <2>5 DEF Found
<1> QED BY <1>3, <1>4

-----------------------------------------------------------------------------
(***************************************************************************)
(* The steps of the recorder, as far as the accounts go: they stay sound,  *)
(* they are the ones the lookup gave, and the totals move.                 *)
(***************************************************************************)
SameDids(list, other) ==
    Len(other) = Len(list) /\ \A i \in DOMAIN list : other[i].did = list[i].did

Moves(list, other, more) ==
    /\ AllSound(other) /\ SameDids(list, other) /\ DOMAIN other = DOMAIN list
    /\ \A c \in Compared : TotalIn(other, c) = TotalIn(list, c) + more[c]

Nothing == [c \in Compared |-> 0]

LEMMA ComparedTotals ==
    ASSUME NEW list, AllSound(list), NEW c \in Compared PROVE TotalIn(list, c) \in Nat
BY TotalTyped, ComparedFacts, CounterFacts

\* One account is replaced by one that counts more.
LEMMA Replacing ==
    ASSUME NEW list, AllSound(list), NEW i \in DOMAIN list, NEW a, Sound(a),
           a.did = list[i].did, NEW more \in [Compared -> Nat],
           \A c \in Compared : a.n[c] = list[i].n[c] + more[c],
           NEW other, other = [list EXCEPT ![i] = a]
    PROVE  Moves(list, other, more)
<1>1. Sound(list[i]) /\ AccountTyped(list[i]) /\ IsList(list)
  BY DEF AllSound, Sound
<1>2. AllSound([list EXCEPT ![i] = a])
      /\ \A c \in Counters :
            TotalIn([list EXCEPT ![i] = a], c) = TotalIn(list, c) - list[i].n[c] + a.n[c]
  <2>1. \A x : Sound(x) =>
            /\ AllSound([list EXCEPT ![i] = x])
            /\ \A c \in Counters :
                 TotalIn([list EXCEPT ![i] = x], c) = TotalIn(list, c) - list[i].n[c] + x.n[c]
    BY ExceptSound
  <2> QED BY <2>1
<1>3. AllSound(other)
      /\ \A c \in Counters : TotalIn(other, c) = TotalIn(list, c) - list[i].n[c] + a.n[c]
  BY <1>2
<1>4. /\ Len(other) = Len(list) /\ DOMAIN other = DOMAIN list
      /\ other[i] = a /\ \A j \in DOMAIN list \ {i} : other[j] = list[j]
  <2>1. \A x : /\ Len([list EXCEPT ![i] = x]) = Len(list)
               /\ DOMAIN [list EXCEPT ![i] = x] = DOMAIN list
               /\ [list EXCEPT ![i] = x][i] = x
               /\ \A j \in DOMAIN list \ {i} : [list EXCEPT ![i] = x][j] = list[j]
    BY <1>1, ExceptList
  <2> QED BY <2>1
<1>5. SameDids(list, other)
  BY <1>4 DEF SameDids
<1>6. \A c \in Compared : TotalIn(other, c) = TotalIn(list, c) + more[c]
  <2> TAKE c \in Compared
  <2>1. list[i].n[c] \in Nat
    BY <1>1, ComparedNat
  <2>2. TotalIn(list, c) \in Nat /\ more[c] \in Nat
    BY ComparedTotals
  <2>3. c \in Counters
    BY ComparedCounters
  <2>4. a.n[c] = list[i].n[c] + more[c]
    OBVIOUS
  <2>5. TotalIn(other, c) = TotalIn(list, c) - list[i].n[c] + a.n[c]
    BY <1>3, <2>3
  <2> QED BY <2>1, <2>2, <2>4, <2>5
<1> QED BY <1>3, <1>4, <1>5, <1>6 DEF Moves

LEMMA Blaming ==
    ASSUME NEW list, AllSound(list), NEW i \in DOMAIN list,
           NEW other, other = [list EXCEPT ![i] = OtherAlert(@)]
    PROVE  Moves(list, other, Nothing)
<1>1. PICK b : b = OtherAlert(list[i])
  OBVIOUS
<1>2. Alike(b, list[i])
  <2>1. Alike(list[i], list[i])
    BY DEF Alike, AllSound
  <2> QED BY <1>1, <2>1, OtherAlertAlike
<1>3. Keeps(b, list[i]) /\ Sound(list[i])
  BY <1>2, AlikeKeeps DEF AllSound
<1>4. Nothing \in [Compared -> Nat] /\ \A c \in Compared : b.n[c] = list[i].n[c] + Nothing[c]
  BY <1>3, ComparedNat DEF Keeps, Nothing
<1>5. other = [list EXCEPT ![i] = b]
  BY <1>1
<1>6. Sound(b) /\ b.did = list[i].did
  BY <1>3 DEF Keeps
<1> HIDE DEF Nothing
<1> QED BY <1>4, <1>5, <1>6, Replacing

LEMMA MovesThen ==
    ASSUME NEW list, AllSound(list), NEW other, NEW more \in [Compared -> Nat],
           Moves(list, other, more), NEW last, Moves(other, last, Nothing)
    PROVE  Moves(list, last, more)
<1>1. \A c \in Compared : TotalIn(last, c) = TotalIn(list, c) + more[c]
  <2> TAKE c \in Compared
  <2>1. TotalIn(list, c) \in Nat /\ more[c] \in Nat
    BY ComparedTotals
  <2> QED BY <2>1 DEF Moves, Nothing
<1> QED BY <1>1 DEF Moves, SameDids

\* The recorder has an interaction in hand, with a subject left.
LEMMA SubjectInHand ==
    ASSUME RecorderTyped, recorder.pc = "interact",
           NEW e, e = recorder.event, NEW kind, kind = e.kind,
           NEW subject, subject = e.subjects[recorder.at]
    PROVE  /\ kind \in Interactions /\ e \in Interaction(kind)
           /\ Len(e.subjects) = Targets(kind) /\ Targets(kind) \in {1, 2}
           /\ recorder.at \in 1 .. Targets(kind)
           /\ subject.did \in Dids
           /\ kind \in ContentKinds => subject.rkey \in Rkeys
<1>1. e \in EventType /\ recorder.at \in DOMAIN e.subjects
  BY DEF RecorderTyped
<1>2. e.subjects # <<>>
  BY <1>1
<1>3. kind \in Interactions /\ e \in Interaction(kind)
  BY <1>1, <1>2, EventFacts
<1>4. Targets(kind) \in {1, 2}
  BY DEF Targets
<1>5. /\ DOMAIN e.subjects = 1 .. Targets(kind) /\ Len(e.subjects) = Targets(kind)
      /\ \A i \in DOMAIN e.subjects :
           /\ e.subjects[i].did \in Dids
           /\ kind \in ContentKinds => e.subjects[i].rkey \in Rkeys
  BY <1>3, InteractionTyped
<1> QED BY <1>1, <1>3, <1>4, <1>5

\* What an interaction counts for the account acted on.
ReceivedMore(kind) ==
    [c \in Compared |-> IF c = Received[kind] THEN ReceivedBy(kind) ELSE 0]

LEMMA ReceivedMoreTyped ==
    ASSUME NEW kind \in Interactions PROVE ReceivedMore(kind) \in [Compared -> Nat]
<1>1. ReceivedBy(kind) \in Nat
  BY DEF ReceivedBy
<1> QED BY <1>1 DEF ReceivedMore

\* An account as a whole is acted on.
LEMMA ReceivedAlone ==
    ASSUME NEW list, AllSound(list), NEW i \in DOMAIN list, NEW kind \in Interactions,
           NEW other,
           other = [list EXCEPT ![i] = Counted(@, Received[kind], ReceivedBy(kind))]
    PROVE  /\ Moves(list, other, ReceivedMore(kind))
           /\ other[i].content = list[i].content
<1>1. PICK b : b = Counted(list[i], Received[kind], ReceivedBy(kind))
  OBVIOUS
<1>2. Sound(list[i])
  BY DEF AllSound
<1>3. /\ Sound(b) /\ b.did = list[i].did /\ b.content = list[i].content
      /\ \A c \in Counters :
           b.n[c] = list[i].n[c] + (IF c = Received[kind] THEN ReceivedBy(kind) ELSE 0)
  <2>1. \A a : Sound(a) =>
          LET x == Counted(a, Received[kind], ReceivedBy(kind)) IN
          /\ Sound(x) /\ x.did = a.did /\ x.content = a.content
          /\ \A c \in Counters :
               x.n[c] = a.n[c] + (IF c = Received[kind] THEN ReceivedBy(kind) ELSE 0)
    BY ReceivedMoves
  <2> QED BY <1>1, <1>2, <2>1
<1>4. PICK more : more = ReceivedMore(kind)
  OBVIOUS
<1>5. more \in [Compared -> Nat]
  BY <1>4, ReceivedMoreTyped
<1>6. \A c \in Compared : b.n[c] = list[i].n[c] + more[c]
  BY <1>3, <1>4, ComparedFacts, CounterFacts DEF ReceivedMore
<1>7. other = [list EXCEPT ![i] = b]
  BY <1>1
<1>8. Moves(list, other, more)
  <2>1. Sound(b) /\ b.did = list[i].did
    BY <1>3
  <2> QED BY <1>5, <1>6, <1>7, <2>1, Replacing
<1>9. other[i].content = list[i].content
  BY <1>3, <1>7
<1> QED BY <1>4, <1>8, <1>9

\* Content of an account is acted on.
LEMMA ReceivedContent ==
    ASSUME NEW list, AllSound(list), NEW i \in DOMAIN list, NEW kind \in ContentKinds,
           NEW rkey \in Rkeys, NEW content \in WithContent(list[i].content, rkey),
           NEW other, other = [list EXCEPT ![i] = Credited(list[i], kind, content, rkey)]
    PROVE  Moves(list, other, ReceivedMore(kind))
<1>1. PICK x : x = Credited(list[i], kind, content, rkey)
  OBVIOUS
<1>2. Sound(list[i]) /\ kind \in Interactions
  BY CounterFacts DEF AllSound
<1>3. /\ Sound(x) /\ x.did = list[i].did
      /\ \A c \in Counters :
           x.n[c] = list[i].n[c] + (IF c = Received[kind] THEN ReceivedBy(kind) ELSE 0)
  <2>1. \A a : Sound(a) /\ content \in WithContent(a.content, rkey) =>
          LET y == Credited(a, kind, content, rkey) IN
          /\ Sound(y) /\ y.did = a.did
          /\ \A c \in Counters :
               y.n[c] = a.n[c] + (IF c = Received[kind] THEN ReceivedBy(kind) ELSE 0)
    BY CreditedSound
  <2> QED BY <1>1, <1>2, <2>1
<1>4. PICK more : more = ReceivedMore(kind)
  OBVIOUS
<1>5. more \in [Compared -> Nat]
  BY <1>2, <1>4, ReceivedMoreTyped
<1>6. \A c \in Compared : x.n[c] = list[i].n[c] + more[c]
  BY <1>3, <1>4, ComparedFacts, CounterFacts DEF ReceivedMore
<1>7. other = [list EXCEPT ![i] = x]
  BY <1>1
<1>8. Moves(list, other, more)
  <2>1. Sound(x) /\ x.did = list[i].did
    BY <1>3
  <2> QED BY <1>5, <1>6, <1>7, <2>1, Replacing
<1> QED BY <1>4, <1>8

\* What Interact makes of the accounts that its lookup found.
LEMMA InteractAccounts ==
    ASSUME AllSound(accounts), CacheTyped, RecorderTyped, Interact
    PROVE  \E found :
              /\ Found(found, recorder.event.subjects[recorder.at].did)
              /\ cached' = found.cached /\ used' = found.used
              /\ Moves(found.accounts, accounts', ReceivedMore(recorder.event.kind))
<1>1. PICK e, kind, subject :
         e = recorder.event /\ kind = e.kind /\ subject = e.subjects[recorder.at]
  OBVIOUS
<1>2. recorder.pc = "interact"
  BY DEF Interact
<1>3. /\ kind \in Interactions /\ subject.did \in Dids
      /\ kind \in ContentKinds => subject.rkey \in Rkeys
  BY <1>1, <1>2, SubjectInHand
<1> DEFINE countedOf(found) == [found.accounts EXCEPT
                ![found.id] = Counted(@, Received[kind], ReceivedBy(kind))]
           keptOf(found, content) == [countedOf(found) EXCEPT ![found.id].content =
                [content EXCEPT ![subject.rkey] =
                    ContentCounted(content[subject.rkey], Done[kind])]]
           blamedOf(found) == Blamed(kind, found.id, recorder.source)
<1>4. PICK found \in GetAccount(subject.did) :
        /\ IF kind \notin ContentKinds THEN accounts' = countedOf(found)
           ELSE \E content \in WithContent(countedOf(found)[found.id].content, subject.rkey) :
                   accounts' = IF ContentAlert(content[subject.rkey], Done[kind])
                     THEN [keptOf(found, content) EXCEPT ![blamedOf(found)] = OtherAlert(@)]
                     ELSE keptOf(found, content)
        /\ cached' = found.cached /\ used' = found.used
  BY <1>1, ZenonT(60) DEF Interact
<1>5. Found(found, subject.did)
  BY <1>3, GetAccountFinds
<1>6. PICK list, id, more, counted, blamed :
         /\ list = found.accounts /\ id = found.id /\ more = ReceivedMore(kind)
         /\ counted = countedOf(found) /\ blamed = blamedOf(found)
  OBVIOUS
<1>7. AllSound(list) /\ IsList(list) /\ id \in DOMAIN list
  BY <1>5, <1>6 DEF Found, AllSound
<1>8. more \in [Compared -> Nat]
  BY <1>3, <1>6, ReceivedMoreTyped
<1>9. Moves(list, counted, more) /\ counted[id].content = list[id].content
  <2>1. counted = [list EXCEPT ![id] = Counted(@, Received[kind], ReceivedBy(kind))]
    BY <1>6
  <2>2. Moves(list, counted, ReceivedMore(kind)) /\ counted[id].content = list[id].content
    <3>1. \A x : x = [list EXCEPT ![id] = Counted(@, Received[kind], ReceivedBy(kind))] =>
             Moves(list, x, ReceivedMore(kind)) /\ x[id].content = list[id].content
      BY <1>3, <1>7, ReceivedAlone
    <3> QED BY <2>1, <3>1
  <2> QED BY <1>6, <2>2
<1>10. Moves(list, accounts', more)
  <2>1. CASE kind \notin ContentKinds
    BY <1>4, <1>6, <1>9, <2>1
  <2>2. CASE kind \in ContentKinds
    <3>1. PICK content \in WithContent(list[id].content, subject.rkey) :
             accounts' = IF ContentAlert(content[subject.rkey], Done[kind])
                     THEN [keptOf(found, content) EXCEPT ![blamed] = OtherAlert(@)]
                     ELSE keptOf(found, content)
      BY <1>4, <1>6, <1>9, <2>2
    <3>2. PICK kept : kept = keptOf(found, content)
      OBVIOUS
    <3>3. kept = [list EXCEPT ![id] = Credited(list[id], kind, content, subject.rkey)]
      BY <1>6, <1>7, <3>2 DEF Credited
    <3>4. Moves(list, kept, more)
      BY <1>3, <1>6, <1>7, <2>2, <3>1, <3>3, ReceivedContent
    <3>5. blamed \in DOMAIN kept
      <4>1. recorder.source \in DOMAIN list
        BY <1>2, <1>5, <1>6 DEF RecorderTyped, Found
      <4> QED BY <1>6, <1>7, <3>4, <4>1 DEF Blamed, Moves
    <3>6. CASE accounts' = kept
      BY <3>4, <3>6
    <3>7. CASE accounts' = [kept EXCEPT ![blamed] = OtherAlert(@)]
      <4>1. AllSound(kept)
        BY <3>4 DEF Moves
      <4>2. Moves(kept, accounts', Nothing)
        BY <3>5, <3>7, <4>1, Blaming
      <4> QED BY <1>7, <1>8, <3>4, <4>2, MovesThen
    <3> QED BY <3>1, <3>2, <3>6, <3>7
  <2> QED BY <2>1, <2>2
<1> QED BY <1>1, <1>4, <1>5, <1>6, <1>10

\* What TakeEvent counts, and what FinishRecord does.
TakenMore(kind) ==
    [c \in Compared |-> IF kind \in OwnPartFirst /\ c = Done[kind] THEN 1 ELSE 0]

LEMMA TakenMoreTyped == \A kind : TakenMore(kind) \in [Compared -> Nat]
BY DEF TakenMore

LEMMA TakeEventAccounts ==
    ASSUME AllSound(accounts), CacheTyped, QueuesTyped, TakeEvent,
           NEW e, e = Head(queue)
    PROVE  \E found :
              /\ e \in EventType /\ Found(found, e.did)
              /\ cached' = found.cached /\ used' = found.used
              /\ Moves(found.accounts, accounts', TakenMore(e.kind))
              /\ recorder' = [pc |-> IF e.subjects = <<>> THEN "finish" ELSE "interact",
                              event |-> e, source |-> found.id, at |-> 1]
<1>1. e \in EventType
  BY DEF QueuesTyped, TakeEvent
<1>2. PICK found \in GetAccount(e.did) :
        /\ accounts' = [found.accounts EXCEPT ![found.id] =
                IF e.kind \in OwnPartFirst THEN Counted(@, Done[e.kind], 1) ELSE @]
        /\ cached' = found.cached /\ used' = found.used
        /\ recorder' = [pc |-> IF e.subjects = <<>> THEN "finish" ELSE "interact",
                        event |-> e, source |-> found.id, at |-> 1]
  BY DEF TakeEvent
<1>3. e.did \in Dids
  BY <1>1, EventFacts
<1>4. Found(found, e.did)
  BY <1>3, GetAccountFinds
<1>5. PICK list, id, more, kind :
         list = found.accounts /\ id = found.id /\ kind = e.kind /\ more = TakenMore(kind)
  OBVIOUS
<1>6. AllSound(list) /\ id \in DOMAIN list /\ Sound(list[id])
  BY <1>4, <1>5 DEF Found, AllSound
<1>7. more \in [Compared -> Nat]
  BY <1>5, TakenMoreTyped
<1>8. PICK a : a = IF kind \in OwnPartFirst THEN Counted(list[id], Done[kind], 1)
                   ELSE list[id]
  OBVIOUS
<1>9. /\ Sound(a) /\ a.did = list[id].did
      /\ \A c \in Compared : a.n[c] = list[id].n[c] + more[c]
  <2>1. CASE kind \in OwnPartFirst
    <3>1. PICK counter : counter = Done[kind]
      OBVIOUS
    <3>2. counter \in Doubling /\ counter # "reposted"
      BY <2>1, <3>1, InteractionFacts DEF OwnPartFirst, Interactions
    <3>3. a = Counted(list[id], counter, 1)
      BY <1>8, <2>1, <3>1
    <3>4. /\ Sound(a) /\ a.did = list[id].did
          /\ \A c \in Counters : a.n[c] = list[id].n[c] + (IF c = counter THEN 1 ELSE 0)
      <4>1. \A x : Sound(x) =>
              LET b == Counted(x, counter, 1) IN
              /\ Sound(b) /\ b.did = x.did
              /\ \A c \in Counters : b.n[c] = x.n[c] + (IF c = counter THEN 1 ELSE 0)
        BY <3>2, CountedMoves
      <4> QED BY <1>6, <3>3, <4>1
    <3>5. \A c \in Compared : more[c] = IF c = counter THEN 1 ELSE 0
      BY <1>5, <2>1, <3>1 DEF TakenMore
    <3> QED BY <3>4, <3>5, ComparedFacts, CounterFacts
  <2>2. CASE kind \notin OwnPartFirst
    <3>1. a = list[id]
      BY <1>8, <2>2
    <3>2. \A c \in Compared : more[c] = 0 /\ list[id].n[c] \in Nat
      BY <1>5, <1>6, <2>2, ComparedNat DEF TakenMore
    <3> QED BY <1>6, <3>1, <3>2
  <2> QED BY <2>1, <2>2
<1>10. accounts' = [list EXCEPT ![id] = a]
  BY <1>2, <1>5, <1>8
<1>11. Moves(list, accounts', more)
  BY <1>6, <1>7, <1>9, <1>10, Replacing
<1> QED BY <1>1, <1>2, <1>4, <1>5, <1>11

FinishedMore(e) == [c \in Compared |-> OwnCount(e, c)]

LEMMA FinishRecordAccounts ==
    ASSUME AllSound(accounts), RecorderTyped, FinishRecord, NEW e, e = recorder.event
    PROVE  e \in EventType /\ Moves(accounts, accounts', FinishedMore(e))
<1>1. PICK id, more : id = recorder.source /\ more = FinishedMore(e)
  OBVIOUS
<1>2. e \in EventType /\ id \in DOMAIN accounts /\ Sound(accounts[id])
  BY <1>1 DEF RecorderTyped, FinishRecord, AllSound
<1>3. PICK a : a = Counted(OwnPart(accounts[id], e), "events", 1)
  OBVIOUS
<1>4. accounts' = [accounts EXCEPT ![id] = a]
  BY <1>1, <1>3 DEF FinishRecord
<1>5. OwnPartAdded(a, accounts[id], e)
  BY <1>2, <1>3, RecordedSound
<1>6. more \in [Compared -> Nat]
  BY <1>1 DEF FinishedMore, OwnCount
<1>7. /\ Sound(a) /\ a.did = accounts[id].did
      /\ \A c \in Compared : a.n[c] = accounts[id].n[c] + more[c]
  BY <1>1, <1>5 DEF OwnPartAdded, FinishedMore
<1>8. Moves(accounts, accounts', more)
  BY <1>2, <1>4, <1>6, <1>7, Replacing
<1> QED BY <1>1, <1>2, <1>8

-----------------------------------------------------------------------------
(***************************************************************************)
(* Counting the events of a kind in sequences.                             *)
(***************************************************************************)
KindAt(kind, s) == {i \in DOMAIN s : s[i].kind = kind}

LEMMA CountIs == \A kind, s : CountIn(kind, s) = Cardinality(KindAt(kind, s))
BY DEF CountIn, KindAt

LEMMA CountFinite ==
    ASSUME NEW kind, NEW S, NEW s \in Seq(S)
    PROVE  IsFiniteSet(KindAt(kind, s)) /\ CountIn(kind, s) \in Nat
<1>1. DOMAIN s = 1 .. Len(s) /\ Len(s) \in Nat
  OBVIOUS
<1>2. IsFiniteSet(DOMAIN s) /\ KindAt(kind, s) \subseteq DOMAIN s
  BY <1>1, FS_Interval DEF KindAt
<1>3. IsFiniteSet(KindAt(kind, s))
  BY <1>2, FS_Subset
<1> QED BY <1>3, FS_CardinalityType, CountIs

LEMMA Shifted ==
    ASSUME NEW S \in SUBSET Nat, IsFiniteSet(S), NEW k \in Nat
    PROVE  LET T == {i + k : i \in S} IN IsFiniteSet(T) /\ Cardinality(T) = Cardinality(S)
<1> DEFINE T == {i + k : i \in S}
           f == [i \in S |-> i + k]
<1>1. f \in Bijection(S, T)
  BY DEF Bijection, Injection, Surjection, IsInjective
<1>2. ExistsBijection(S, T)
  BY <1>1 DEF ExistsBijection
<1> QED BY <1>2, FS_Bijection

LEMMA CountJoined ==
    ASSUME NEW kind, NEW S, NEW s \in Seq(S), NEW t \in Seq(S)
    PROVE  CountIn(kind, s \o t) = CountIn(kind, s) + CountIn(kind, t)
<1> DEFINE n == Len(s)
           T == {i + n : i \in KindAt(kind, t)}
<1>1. n \in Nat /\ KindAt(kind, t) \in SUBSET Nat /\ KindAt(kind, s) \subseteq 1 .. n
      /\ KindAt(kind, t) \subseteq 1 .. Len(t)
  BY DEF KindAt
<1>2. IsFiniteSet(T) /\ Cardinality(T) = Cardinality(KindAt(kind, t))
  BY <1>1, CountFinite, Shifted
<1>3. KindAt(kind, s \o t) = KindAt(kind, s) \cup T
  <2>1. ASSUME NEW i \in KindAt(kind, s \o t) PROVE i \in KindAt(kind, s) \cup T
    <3>1. i \in 1 .. (Len(s) + Len(t)) /\ (s \o t)[i].kind = kind
      BY DEF KindAt
    <3>2. CASE i <= Len(s)
      BY <3>1, <3>2 DEF KindAt
    <3>3. CASE i > Len(s)
      <4>1. PICK j \in 1 .. Len(t) : i = j + n
        BY <3>1, <3>3
      <4>2. (s \o t)[i] = t[j]
        BY <3>1, <3>3, <4>1
      <4>3. j \in KindAt(kind, t)
        BY <3>1, <4>1, <4>2 DEF KindAt
      <4> QED BY <4>1, <4>3
    <3> QED BY <1>1, <3>1, <3>2, <3>3
  <2>2. ASSUME NEW i \in KindAt(kind, s) PROVE i \in KindAt(kind, s \o t)
    <3>1. i \in 1 .. Len(s) /\ (s \o t)[i] = s[i] /\ i \in DOMAIN (s \o t)
      BY DEF KindAt
    <3> QED BY <3>1 DEF KindAt
  <2>3. ASSUME NEW j \in KindAt(kind, t) PROVE j + n \in KindAt(kind, s \o t)
    <3>1. j \in 1 .. Len(t) /\ t[j].kind = kind
      BY DEF KindAt
    <3>2. (s \o t)[j + n] = t[j] /\ j + n \in DOMAIN (s \o t)
      BY <3>1
    <3> QED BY <3>1, <3>2 DEF KindAt
  <2> QED BY <2>1, <2>2, <2>3
<1>4. KindAt(kind, s) \cap T = {}
  BY <1>1
<1>5. Cardinality(KindAt(kind, s \o t)) = Cardinality(KindAt(kind, s)) + Cardinality(T)
  <2>1. PICK A, B : A = KindAt(kind, s) /\ B = T
    OBVIOUS
  <2>2. IsFiniteSet(A) /\ IsFiniteSet(B) /\ A \cap B = {}
    BY <1>2, <1>4, <2>1, CountFinite
  <2>3. Cardinality(A \cup B) = Cardinality(A) + Cardinality(B) - Cardinality({})
    BY <2>2, FS_Union
  <2>4. Cardinality({}) = 0 /\ Cardinality(A) \in Nat /\ Cardinality(B) \in Nat
    BY <2>2, FS_EmptySet, FS_CardinalityType
  <2> QED BY <1>3, <2>1, <2>3, <2>4
<1> QED BY <1>2, <1>5, CountIs

\* How events are put together.
AllJoined(kind) ==
    \A s, t \in Seq(EventType) :
        /\ s \o t \in Seq(EventType)
        /\ CountIn(kind, s \o t) = CountIn(kind, s) + CountIn(kind, t)

LEMMA AllJoinedHolds == \A kind : AllJoined(kind)
BY CountJoined DEF AllJoined

LEMMA CountNone == \A kind : CountIn(kind, <<>>) = 0
<1>1. \A kind : KindAt(kind, <<>>) = {}
  BY DEF KindAt
<1> QED BY <1>1, CountIs, FS_EmptySet

LEMMA CountOne ==
    ASSUME NEW kind, NEW e
    PROVE  CountIn(kind, <<e>>) = IF e.kind = kind THEN 1 ELSE 0
<1>1. DOMAIN <<e>> = {1} /\ <<e>>[1] = e
  OBVIOUS
<1>2. KindAt(kind, <<e>>) = IF e.kind = kind THEN {1} ELSE {}
  BY <1>1 DEF KindAt
<1>3. Cardinality({1}) = 1 /\ Cardinality({}) = 0
  BY FS_Singleton, FS_EmptySet
<1> QED BY <1>2, <1>3, CountIs

LEMMA CountAppended ==
    ASSUME NEW kind, NEW S, NEW s \in Seq(S), NEW e \in S
    PROVE  CountIn(kind, Append(s, e)) = CountIn(kind, s) + (IF e.kind = kind THEN 1 ELSE 0)
<1>1. PICK t : t = <<e>>
  OBVIOUS
<1>2. t \in Seq(S) /\ Append(s, e) = s \o t
  BY <1>1
<1>3. CountIn(kind, s \o t) = CountIn(kind, s) + CountIn(kind, t)
  BY <1>2, CountJoined
<1>4. CountIn(kind, t) = IF e.kind = kind THEN 1 ELSE 0
  BY <1>1, CountOne
<1> QED BY <1>2, <1>3, <1>4

LEMMA CountRemoved ==
    ASSUME NEW kind, NEW S, NEW s \in Seq(S), s # <<>>
    PROVE  /\ CountIn(kind, s) = (IF Head(s).kind = kind THEN 1 ELSE 0) + CountIn(kind, Tail(s))
           /\ CountIn(kind, Tail(s)) \in Nat
<1>1. <<Head(s)>> \in Seq(S) /\ Tail(s) \in Seq(S) /\ s = <<Head(s)>> \o Tail(s)
  OBVIOUS
<1>2. CountIn(kind, s) = CountIn(kind, <<Head(s)>>) + CountIn(kind, Tail(s))
  BY <1>1, CountJoined
<1> QED BY <1>1, <1>2, CountOne, CountFinite

-----------------------------------------------------------------------------
(***************************************************************************)
(* FlattenSeq is defined by recursion as well: over the numbers, which are *)
(* taken for the intervals up to them.                                     *)
(***************************************************************************)
LEMMA MinimalNat ==
    ASSUME NEW Bad \in SUBSET Nat, Bad # {}
    PROVE  \E n \in Bad : \A m \in Bad : n <= m
<1>1. PICK b \in Bad : TRUE
  OBVIOUS
<1> DEFINE Low == {k \in Bad : k <= b}
           Sets == {1 .. k : k \in Low}
<1>2. PICK S : S = 1 .. b
  OBVIOUS
<1>3. PICK U \in Sets : \A V \in Sets : ~ (V \subseteq U /\ V # U)
  <2>1. IsFiniteSet(S)
    BY <1>1, <1>2, FS_Interval
  <2>2. \A k \in Low : 1 .. k \in SUBSET S
    BY <1>2
  <2>3. Sets \in SUBSET (SUBSET S)
    BY <2>2
  <2>4. b \in Low
    BY <1>1
  <2>5. Sets # {}
    BY <2>4
  <2> HIDE DEF Sets
  <2> QED BY <2>1, <2>3, <2>5, MinimalSet
<1>4. PICK n \in Low : U = 1 .. n
  OBVIOUS
<1>5. ASSUME NEW m \in Bad PROVE n <= m
  <2> SUFFICES ASSUME m < n PROVE FALSE
    OBVIOUS
  <2>1. m \in Low
    OBVIOUS
  <2>2. 1 .. m \in Sets /\ 1 .. m \subseteq 1 .. n /\ n \in 1 .. n /\ n \notin 1 .. m
    BY <2>1
  <2> QED BY <1>3, <1>4, <2>2
<1> QED BY <1>5

\* What the definition of FlattenSeq chooses.
Flat(h, s, n) == h = [i \in 1 .. n |-> IF i = 1 THEN s[i] ELSE h[i - 1] \o s[i]]

LEMMA FlattenUnfolds ==
    ASSUME NEW s, Len(s) # 0
    PROVE  FlattenSeq(s) = (CHOOSE h : Flat(h, s, Len(s)))[Len(s)]
BY DEF FlattenSeq, Flat

LEMMA FlatExists ==
    ASSUME NEW s, NEW n \in Nat PROVE \E h : Flat(h, s, n)
<1> DEFINE Bad == {m \in Nat : ~ \E h : Flat(h, s, m)}
<1> SUFFICES ASSUME Bad # {} PROVE FALSE
  OBVIOUS
<1>1. PICK m \in Bad : \A k \in Bad : m <= k
  <2> HIDE DEF Bad
  <2>1. Bad \in SUBSET Nat
    BY DEF Bad
  <2> QED BY <2>1, MinimalNat
<1>2. m # 0
  <2>1. Flat([i \in {} |-> 0], s, 0)
    BY DEF Flat
  <2> QED BY <2>1
<1>3. PICK h : Flat(h, s, m - 1)
  <2>1. m - 1 \in Nat /\ ~ (m <= m - 1)
    BY <1>2
  <2> QED BY <1>1, <2>1
<1> DEFINE H == [i \in 1 .. m |-> IF i = 1 THEN s[i] ELSE h[i - 1] \o s[i]]
<1>4. ASSUME NEW i \in 1 .. (m - 1) PROVE H[i] = h[i]
  <2>1. h[i] = IF i = 1 THEN s[i] ELSE h[i - 1] \o s[i]
    BY <1>3 DEF Flat
  <2>2. i \in 1 .. m
    BY <1>2
  <2> QED BY <2>1, <2>2
<1>5. ASSUME NEW i \in 1 .. m, i # 1 PROVE h[i - 1] = H[i - 1]
  <2>1. i - 1 \in 1 .. (m - 1)
    BY <1>5
  <2> QED BY <1>4, <2>1
<1>6. H = [i \in 1 .. m |-> IF i = 1 THEN s[i] ELSE H[i - 1] \o s[i]]
  BY <1>5
<1>7. Flat(H, s, m)
  BY <1>6 DEF Flat
<1> QED BY <1>7

\* The parts with an event of the kind, one each, are the ones in P.
OneEach(kind, s, n, P) == \A i \in 1 .. n : CountIn(kind, s[i]) = IF i \in P THEN 1 ELSE 0

LEMMA FlattenCounts ==
    ASSUME NEW kind, NEW S, NEW n \in Nat, NEW s \in [1 .. n -> Seq(S)], NEW P \in SUBSET (1 .. n),
           OneEach(kind, s, n, P)
    PROVE  FlattenSeq(s) \in Seq(S) /\ CountIn(kind, FlattenSeq(s)) = Cardinality(P)
<1>1. s \in Seq(Seq(S)) /\ Len(s) = n
  OBVIOUS
<1>2. CASE n = 0
  <2>1. FlattenSeq(s) = s /\ s = <<>> /\ P = {}
    BY <1>1, <1>2 DEF FlattenSeq
  <2> QED BY <2>1, CountNone, FS_EmptySet
<1>3. CASE n # 0
  <2> DEFINE h == CHOOSE h : Flat(h, s, n)
             Upto(i) == P \cap (1 .. i)
             Bad == {i \in 1 .. n :
                       ~ (h[i] \in Seq(S) /\ CountIn(kind, h[i]) = Cardinality(Upto(i)))}
  <2>1. Flat(h, s, n)
    BY FlatExists
  <2>2. FlattenSeq(s) = h[n]
    BY <1>1, <1>3, FlattenUnfolds
  <2> HIDE DEF h
  <2>3. \A i \in 1 .. n : h[i] = IF i = 1 THEN s[i] ELSE h[i - 1] \o s[i]
    BY <2>1 DEF Flat
  <2>4. \A i \in Nat : IsFiniteSet(Upto(i)) /\ Cardinality(Upto(i)) \in Nat
    <3> TAKE i \in Nat
    <3>1. IsFiniteSet(1 .. i)
      BY FS_Interval
    <3>2. IsFiniteSet(Upto(i))
      BY <3>1, FS_Subset
    <3> QED BY <3>2, FS_CardinalityType
  <2>5. ASSUME NEW i \in 1 .. n
        PROVE  Cardinality(Upto(i)) = Cardinality(Upto(i - 1)) + CountIn(kind, s[i])
    <3>1. i - 1 \in Nat /\ i \notin Upto(i - 1)
      OBVIOUS
    <3>2. Upto(i) = IF i \in P THEN Upto(i - 1) \cup {i} ELSE Upto(i - 1)
      OBVIOUS
    <3>3. IsFiniteSet(Upto(i - 1)) /\ Cardinality(Upto(i - 1)) \in Nat
      BY <2>4, <3>1
    <3> HIDE DEF Upto
    <3>4. Cardinality(Upto(i - 1) \cup {i}) = Cardinality(Upto(i - 1)) + 1
      BY <3>1, <3>3, FS_AddElement
    <3> QED BY <3>2, <3>3, <3>4 DEF OneEach
  <2>6. Bad = {}
    <3> HIDE DEF Upto
    <3> SUFFICES ASSUME Bad # {} PROVE FALSE
      OBVIOUS
    <3>1. PICK i \in Bad : \A k \in Bad : i <= k
      <4>1. Bad \in SUBSET Nat
        OBVIOUS
      <4> HIDE DEF Bad
      <4> QED BY <4>1, MinimalNat
    <3>2. i \in 1 .. n /\ s[i] \in Seq(S)
          /\ ~ (h[i] \in Seq(S) /\ CountIn(kind, h[i]) = Cardinality(Upto(i)))
      OBVIOUS
    <3>3. \A k \in 1 .. n : k < i => h[k] \in Seq(S) /\ CountIn(kind, h[k]) = Cardinality(Upto(k))
      BY <3>1, <3>2
    <3> HIDE DEF Bad
    <3>4. CASE i = 1
      <4>1. h[i] = s[i]
        BY <2>3, <3>2, <3>4
      <4>2. Cardinality(Upto(i - 1)) = 0 /\ CountIn(kind, s[i]) \in Nat
        <5>1. Upto(i - 1) = {}
          BY <3>4 DEF Upto
        <5> QED BY <3>2, <5>1, FS_EmptySet, CountFinite
      <4>3. Cardinality(Upto(i)) = CountIn(kind, s[i])
        BY <2>5, <3>2, <4>2
      <4> QED BY <3>2, <4>1, <4>3
    <3>5. CASE i # 1
      <4>1. h[i] = h[i - 1] \o s[i]
        BY <2>3, <3>2, <3>5
      <4>2. h[i - 1] \in Seq(S) /\ CountIn(kind, h[i - 1]) = Cardinality(Upto(i - 1))
        <5>1. i - 1 \in 1 .. n /\ i - 1 < i
          BY <3>2, <3>5
        <5> QED BY <3>3, <5>1
      <4>3. h[i] \in Seq(S) /\ CountIn(kind, h[i]) = CountIn(kind, h[i - 1]) + CountIn(kind, s[i])
        BY <3>2, <4>1, <4>2, CountJoined
      <4>4. CountIn(kind, h[i]) = Cardinality(Upto(i))
        BY <2>5, <3>2, <4>2, <4>3
      <4> QED BY <3>2, <4>3, <4>4
    <3> QED BY <3>4, <3>5
  <2>7. n \in 1 .. n /\ Upto(n) = P
    <3>1. n \in 1 .. n
      BY <1>3
    <3> QED BY <3>1
  <2>8. h[n] \in Seq(S) /\ CountIn(kind, h[n]) = Cardinality(P)
    BY <2>6, <2>7
  <2> QED BY <2>2, <2>8
<1> QED BY <1>2, <1>3

-----------------------------------------------------------------------------
(***************************************************************************)
(* The recordings of a message: they are events, and there is one reply    *)
(* for each record that is one, and one quote.                             *)
(***************************************************************************)
LEMMA InteractionEvent ==
    ASSUME NEW kind \in Interactions, NEW did \in Dids, NEW subjects \in SubjectsOf(kind)
    PROVE  /\ Recording(kind, did, subjects) \in EventType
           /\ Recording(kind, did, subjects).kind = kind
<1>1. Recording(kind, did, subjects) \in Interaction(kind)
  BY DEF Recording, Interaction
<1> QED BY <1>1 DEF Recording, EventType

LEMMA PlainEvent ==
    ASSUME NEW kind \in Updates \cup {"post", "deleted", "deleted_other"}, NEW did \in Dids
    PROVE  /\ Recording(kind, did, <<>>) \in EventType
           /\ Recording(kind, did, <<>>).kind = kind
<1>1. Recording(kind, did, <<>>) \in PlainEvents
  BY DEF Recording, PlainEvents
<1> QED BY <1>1 DEF Recording, EventType

RepliesAndQuotes == {"reply", "quote"}

LEMMA NoneTyped == <<>> \in Seq(EventType) /\ \A kind : CountIn(kind, <<>>) = 0
BY CountNone

LEMMA PostEvents ==
    ASSUME NEW kind \in RepliesAndQuotes, NEW did \in Dids,
           NEW post, RecordTyped(post), post.type = "post"
    PROVE  /\ PostRecordings(did, post) \in Seq(EventType)
           /\ CountIn(kind, PostRecordings(did, post)) = IF IsA(kind, post) THEN 1 ELSE 0
<1>1. PICK isReply, isQuote, isPost, facets :
         /\ isReply = When(post.reply # <<>>, Recording("reply", did, post.reply))
         /\ isQuote = When(post.embed \in QuoteEmbeds, Recording("quote", did, post.quoted))
         /\ isPost = When(post.reply = <<>>, Recording("post", did, <<>>))
         /\ facets = IF post.embed = "none" \/ post.facets = <<>> THEN <<>>
                     ELSE << [kind |-> "facets", did |-> did, subjects |-> <<>>,
                              count |-> post.facets[1]] >>
  OBVIOUS
<1>2. /\ isReply \in Seq(EventType)
      /\ CountIn(kind, isReply) = IF kind = "reply" /\ post.reply # <<>> THEN 1 ELSE 0
  <2>1. CASE post.reply # <<>>
    <3>1. PICK e : e = Recording("reply", did, post.reply)
      OBVIOUS
    <3>2. e \in EventType /\ e.kind = "reply"
      BY <2>1, <3>1, InteractionEvent DEF RecordTyped, Interactions
    <3>3. isReply = <<e>>
      BY <1>1, <2>1, <3>1 DEF When
    <3>4. isReply \in Seq(EventType)
      BY <3>2, <3>3
    <3> QED BY <2>1, <3>2, <3>3, <3>4, CountOne
  <2>2. CASE post.reply = <<>>
    BY <1>1, <2>2, NoneTyped DEF When
  <2> QED BY <2>1, <2>2
<1>3. /\ isQuote \in Seq(EventType)
      /\ CountIn(kind, isQuote)
            = IF kind = "quote" /\ post.embed \in QuoteEmbeds THEN 1 ELSE 0
  <2>1. CASE post.embed \in QuoteEmbeds
    <3>1. PICK e : e = Recording("quote", did, post.quoted)
      OBVIOUS
    <3>2. e \in EventType /\ e.kind = "quote"
      BY <2>1, <3>1, InteractionEvent DEF RecordTyped, Interactions
    <3>3. isQuote = <<e>>
      BY <1>1, <2>1, <3>1 DEF When
    <3>4. isQuote \in Seq(EventType)
      BY <3>2, <3>3
    <3> QED BY <2>1, <3>2, <3>3, <3>4, CountOne
  <2>2. CASE post.embed \notin QuoteEmbeds
    BY <1>1, <2>2, NoneTyped DEF When
  <2> QED BY <2>1, <2>2
<1>4. isPost \in Seq(EventType) /\ CountIn(kind, isPost) = 0
  <2>1. CASE post.reply = <<>>
    <3>1. PICK e : e = Recording("post", did, <<>>)
      OBVIOUS
    <3>2. e \in EventType /\ e.kind # kind
      BY <3>1, PlainEvent DEF RepliesAndQuotes
    <3>3. isPost = <<e>>
      BY <1>1, <2>1, <3>1 DEF When
    <3>4. isPost \in Seq(EventType)
      BY <3>2, <3>3
    <3> QED BY <3>2, <3>3, <3>4, CountOne
  <2>2. CASE post.reply # <<>>
    BY <1>1, <2>2, NoneTyped DEF When
  <2> QED BY <2>1, <2>2
<1>5. facets \in Seq(EventType) /\ CountIn(kind, facets) = 0
  <2>1. CASE post.embed = "none" \/ post.facets = <<>>
    BY <1>1, <2>1, NoneTyped
  <2>2. CASE ~ (post.embed = "none" \/ post.facets = <<>>)
    <3>1. PICK e : e = [kind |-> "facets", did |-> did, subjects |-> <<>>,
                        count |-> post.facets[1]]
      OBVIOUS
    <3>2. e \in FacetEvents /\ e.kind # kind
      BY <2>2, <3>1 DEF RecordTyped, FacetEvents, RepliesAndQuotes
    <3>3. facets = <<e>> /\ e \in EventType
      BY <1>1, <2>2, <3>1, <3>2 DEF EventType
    <3>4. facets \in Seq(EventType)
      BY <3>3
    <3> QED BY <3>2, <3>3, <3>4, CountOne
  <2> QED BY <2>1, <2>2
<1>6. PostRecordings(did, post) = ((isReply \o isQuote) \o facets) \o isPost
  BY <1>1 DEF PostRecordings
<1>7. AllJoined(kind)
  BY AllJoinedHolds
<1>8. PICK two : two = isReply \o isQuote
  OBVIOUS
<1>9. two \in Seq(EventType) /\ CountIn(kind, two) = CountIn(kind, isReply) + CountIn(kind, isQuote)
  BY <1>2, <1>3, <1>7, <1>8, Zenon DEF AllJoined
<1>10. PICK three : three = two \o facets
  OBVIOUS
<1>11. three \in Seq(EventType) /\ CountIn(kind, three) = CountIn(kind, two) + CountIn(kind, facets)
  BY <1>5, <1>7, <1>9, <1>10, Zenon DEF AllJoined
<1>12. PICK four : four = three \o isPost
  OBVIOUS
<1>13. four \in Seq(EventType) /\ CountIn(kind, four) = CountIn(kind, three) + CountIn(kind, isPost)
  BY <1>4, <1>7, <1>11, <1>12, Zenon DEF AllJoined
<1>14. CountIn(kind, four) = IF IsA(kind, post) THEN 1 ELSE 0
  BY <1>2, <1>3, <1>4, <1>5, <1>9, <1>11, <1>13 DEF IsA, RepliesAndQuotes
<1> QED BY <1>6, <1>8, <1>10, <1>12, <1>13, <1>14

LEMMA RecordEvents ==
    ASSUME NEW kind \in RepliesAndQuotes, NEW did \in Dids, NEW record, RecordTyped(record)
    PROVE  /\ RecordRecordings(did, record) \in Seq(EventType)
           /\ CountIn(kind, RecordRecordings(did, record))
                 = IF IsA(kind, record) THEN 1 ELSE 0
<1>1. CASE record.type = "post"
  BY <1>1, PostEvents DEF RecordRecordings
<1>5. record.type # "post" => ~ IsA(kind, record)
  BY DEF IsA
<1>2. CASE record.type \in {"block", "follow", "like", "repost"}
  <2>1. PICK e : e = Recording(record.type, did, record.subjects)
    OBVIOUS
  <2>2. e \in EventType /\ e.kind # kind
    BY <1>2, <2>1, InteractionEvent DEF RecordTyped, Interactions, RepliesAndQuotes
  <2>3. RecordRecordings(did, record) = <<e>>
    BY <1>2, <2>1 DEF RecordRecordings
  <2>4. <<e>> \in Seq(EventType)
    BY <2>2
  <2> QED BY <1>2, <1>5, <2>2, <2>3, <2>4, CountOne
<1>3. CASE record.type = "profile"
  <2>1. PICK e : e = Recording("profile", did, <<>>)
    OBVIOUS
  <2>2. e \in EventType /\ e.kind # kind
    BY <2>1, PlainEvent DEF RepliesAndQuotes, Updates
  <2>3. RecordRecordings(did, record) = <<e>>
    BY <1>3, <2>1 DEF RecordRecordings
  <2>4. <<e>> \in Seq(EventType)
    BY <2>2
  <2> QED BY <1>3, <1>5, <2>2, <2>3, <2>4, CountOne
<1>4. CASE record.type \notin {"post", "block", "follow", "like", "repost", "profile"}
  <2>1. RecordRecordings(did, record) = <<>>
    BY <1>4 DEF RecordRecordings
  <2> QED BY <1>4, <1>5, <2>1, NoneTyped
<1> QED BY <1>1, <1>2, <1>3, <1>4

\* The events of a commit.
LEMMA CommitEvents ==
    ASSUME NEW kind \in RepliesAndQuotes, NEW message, MessageTyped(message), message.op = "commit"
    PROVE  Changes(message) \in Seq(EventType)
           /\ CountIn(kind, Changes(message)) = PostRecords(kind, message)
<1>1. PICK did, records, n :
         did = message.did /\ records = Handled(message) /\ n = Len(records)
  OBVIOUS
<1>2. /\ did \in Dids /\ n \in Nat /\ DOMAIN records = 1 .. n
      /\ \A i \in 1 .. n : RecordTyped(records[i])
  BY <1>1 DEF MessageTyped
<1>3. PICK s : s = [i \in DOMAIN records |-> RecordRecordings(did, records[i])]
  OBVIOUS
<1>4. PICK P : P = {i \in 1 .. n : IsA(kind, records[i])}
  OBVIOUS
<1>5. \A i \in 1 .. n : s[i] \in Seq(EventType)
                        /\ CountIn(kind, s[i]) = IF i \in P THEN 1 ELSE 0
  BY <1>2, <1>3, <1>4, RecordEvents
<1>6. s \in [1 .. n -> Seq(EventType)] /\ P \in SUBSET (1 .. n)
  BY <1>2, <1>3, <1>4, <1>5
<1>7. FlattenSeq(s) \in Seq(EventType) /\ CountIn(kind, FlattenSeq(s)) = Cardinality(P)
  <2>1. PICK S : S = EventType
    OBVIOUS
  <2>2. s \in [1 .. n -> Seq(S)] /\ n \in Nat
    BY <1>2, <1>6, <2>1
  <2>3. OneEach(kind, s, n, P)
    BY <1>5 DEF OneEach
  <2>4. FlattenSeq(s) \in Seq(S) /\ CountIn(kind, FlattenSeq(s)) = Cardinality(P)
    BY <1>6, <2>2, <2>3, FlattenCounts
  <2> QED BY <2>1, <2>4
<1>8. Deletions(message) \in Seq(EventType) /\ CountIn(kind, Deletions(message)) = 0
  <2>1. PICK d, k :
           /\ d = SelectSeq(message.ops, LAMBDA op : op.action = "delete")
           /\ k = Len(d)
    OBVIOUS
  <2>2. k \in Nat /\ DOMAIN d = 1 .. k
    BY <2>1 DEF MessageTyped
  <2>3. Deletions(message) =
          [i \in 1 .. k |->
             Recording(IF d[i].type \in Deletes THEN "deleted" ELSE "deleted_other",
                       did, <<>>)]
    BY <1>1, <2>1, <2>2 DEF Deletions
  <2>4. ASSUME NEW i \in 1 .. k
        PROVE  Deletions(message)[i] \in EventType /\ Deletions(message)[i].kind # kind
    <3>1. PICK other \in {"deleted", "deleted_other"} :
             Deletions(message)[i] = Recording(other, did, <<>>)
      BY <2>3
    <3> QED BY <1>2, <3>1, PlainEvent DEF RepliesAndQuotes
  <2>5. Deletions(message) \in Seq(EventType)
    <3>1. PICK f : f = Deletions(message)
      OBVIOUS
    <3>2. f \in [1 .. k -> EventType]
      BY <2>3, <2>4, <3>1
    <3> QED BY <2>2, <3>1, <3>2
  <2>6. KindAt(kind, Deletions(message)) = {}
    BY <2>3, <2>4 DEF KindAt
  <2> QED BY <2>5, <2>6, CountIs, FS_EmptySet
<1>9. Changes(message) = Deletions(message) \o FlattenSeq(s)
  BY <1>1, <1>3 DEF Changes
<1>10. PostRecords(kind, message) = Cardinality(P)
  BY <1>1, <1>2, <1>4 DEF PostRecords
<1>11. Cardinality(P) \in Nat
  <2>1. IsFiniteSet(1 .. n)
    BY <1>2, FS_Interval
  <2> QED BY <1>6, <2>1, FS_Subset, FS_CardinalityType
<1> QED BY <1>7, <1>8, <1>9, <1>10, <1>11, CountJoined

Steps == EventType \cup Lookups

LEMMA LoadingStep ==
    ASSUME NEW kind \in RepliesAndQuotes, NEW did \in Dids
    PROVE  Loading(did) \in Steps /\ Loading(did).kind # kind
BY DEF Loading, Recording, Lookups, Steps, RepliesAndQuotes

LEMMA TwoSteps ==
    ASSUME NEW kind, NEW d \in Steps, NEW e \in Steps, d.kind # kind, e.kind # kind
    PROVE  <<d, e>> \in Seq(Steps) /\ CountIn(kind, <<d, e>>) = 0
<1>1. <<d, e>> \in Seq(Steps)
  OBVIOUS
<1>2. KindAt(kind, <<d, e>>) = {}
  BY DEF KindAt
<1> QED BY <1>1, <1>2, CountIs, FS_EmptySet

LEMMA ChangesEvents ==
    ASSUME NEW kind \in RepliesAndQuotes, NEW message, MessageTyped(message)
    PROVE  /\ Changes(message) \in Seq(Steps)
           /\ CountIn(kind, Changes(message)) = PostRecords(kind, message)
<1>1. message.did \in Dids
  BY DEF MessageTyped
<1>2. CASE message.op = "commit"
  <2>1. Changes(message) \in Seq(EventType) /\ EventType \subseteq Steps
    BY <1>2, CommitEvents DEF Steps
  <2> QED BY <1>2, <2>1, CommitEvents
<1>3. CASE message.op # "commit"
  <2>1. PostRecords(kind, message) = 0
    BY <1>3 DEF PostRecords
  <2>2. <<>> \in Seq(Steps) /\ CountIn(kind, <<>>) = 0
    BY CountNone
  <2>3. CASE message.op = "identity"
    <3>1. PICK e, l : e = Recording("handle", message.did, <<>>) /\ l = Loading(message.did)
      OBVIOUS
    <3>2. e \in Steps /\ e.kind # kind /\ l \in Steps /\ l.kind # kind
      BY <1>1, <3>1, PlainEvent, LoadingStep DEF RepliesAndQuotes, Updates, Steps
    <3>3. <<e, l>> \in Seq(Steps) /\ CountIn(kind, <<e, l>>) = 0
      BY <3>2, TwoSteps
    <3>4. Changes(message) = IF message.handle THEN <<e, l>> ELSE <<>>
      BY <1>3, <2>3, <3>1 DEF Changes
    <3>5. Changes(message) \in {<<e, l>>, <<>>}
      BY <3>4
    <3> QED BY <2>1, <2>2, <3>3, <3>5
  <2>4. CASE message.op = "account"
    <3>1. PICK change : change = IF message.active THEN "active" ELSE "inactive"
      OBVIOUS
    <3>2. change \in Updates /\ change \notin RepliesAndQuotes
      BY <3>1 DEF Updates, RepliesAndQuotes
    <3>3. PICK e : e = Recording(change, message.did, <<>>)
      OBVIOUS
    <3>4. e \in Steps /\ e.kind # kind
      BY <1>1, <3>2, <3>3, PlainEvent DEF Steps
    <3>5. Changes(message) = <<e>>
      BY <1>3, <2>4, <3>1, <3>3 DEF Changes
    <3>6. <<e>> \in Seq(Steps)
      BY <3>4
    <3> QED BY <2>1, <3>4, <3>5, <3>6, CountOne
  <2>5. CASE message.op \notin {"identity", "account"}
    <3>1. Changes(message) = <<>>
      BY <1>3, <2>5 DEF Changes
    <3> QED BY <2>1, <2>2, <3>1
  <2> QED BY <2>3, <2>4, <2>5
<1> QED BY <1>2, <1>3

LEMMA HitsTyped ==
    ASSUME NEW message, MessageTyped(message) PROVE Hits(message) \in Nat
<1>1. CASE message.op = "commit"
  <2>1. PICK records, n, f :
          /\ records = Handled(message) /\ n = Len(records)
          /\ f = [i \in DOMAIN records |->
                    IF Matchable(records[i]) THEN records[i].hits ELSE 0]
    OBVIOUS
  <2>2. /\ n \in Nat /\ DOMAIN records = 1 .. n
        /\ \A i \in 1 .. n : RecordTyped(records[i])
    BY <1>1, <2>1 DEF MessageTyped
  <2>3. f \in [1 .. n -> Nat]
    BY <2>1, <2>2 DEF RecordTyped
  <2>4. IsFiniteSet(1 .. n)
    BY <2>2, FS_Interval
  <2>5. SumFunction(f) \in Nat
    BY <2>3, <2>4, SumIsNat
  <2> QED BY <1>1, <2>1, <2>5 DEF Hits
<1>2. CASE message.op = "identity"
  BY <1>2 DEF Hits, MessageTyped
<1>3. CASE message.op \notin {"commit", "identity"}
  BY <1>3 DEF Hits
<1> QED BY <1>1, <1>2, <1>3

LEMMA WorkEvents ==
    ASSUME NEW kind \in RepliesAndQuotes, NEW message \in Messages
    PROVE  /\ Work(message, UnsignedShort) \in Seq(EventType \cup Lookups)
           /\ CountIn(kind, Work(message, UnsignedShort)) = PostRecords(kind, message)
<1>1. MessageTyped(message) /\ UnsignedShort \in Nat \ {0}
  BY ActivityAssumption
<1>2. message.did \in Dids /\ Hits(message) \in Nat
  BY <1>1, HitsTyped DEF MessageTyped
<1>3. PICK l, m, matches :
         /\ l = Loading(message.did)
         /\ m = [kind |-> "matches", did |-> message.did, subjects |-> <<>>,
                 count |-> Hits(message) % UnsignedShort]
         /\ matches = IF Hits(message) = 0 THEN <<>> ELSE <<l, m>>
  OBVIOUS
<1>4. m \in Steps /\ m.kind # kind
  <2>1. Hits(message) % UnsignedShort \in 0 .. (UnsignedShort - 1)
    BY <1>1, <1>2
  <2>2. m \in MatchEvents /\ m.kind # kind
    BY <1>2, <1>3, <2>1 DEF MatchEvents, RepliesAndQuotes
  <2> QED BY <2>2 DEF EventType, Steps
<1>5. matches \in Seq(Steps) /\ CountIn(kind, matches) = 0
  <2>1. l \in Steps /\ l.kind # kind
    BY <1>2, <1>3, LoadingStep
  <2>2. <<l, m>> \in Seq(Steps) /\ CountIn(kind, <<l, m>>) = 0
    BY <1>4, <2>1, TwoSteps
  <2>3. <<>> \in Seq(Steps) /\ CountIn(kind, <<>>) = 0
    BY CountNone
  <2> QED BY <1>3, <2>2, <2>3
<1>6. PICK changes : changes = Changes(message)
  OBVIOUS
<1>7. changes \in Seq(Steps) /\ CountIn(kind, changes) = PostRecords(kind, message)
  BY <1>1, <1>6, ChangesEvents
<1>8. PICK work : work = changes \o matches
  OBVIOUS
<1>9. work \in Seq(Steps) /\ CountIn(kind, work) = CountIn(kind, changes) + CountIn(kind, matches)
  <2>1. changes \in Seq(Steps) /\ matches \in Seq(Steps)
    BY <1>5, <1>7
  <2> QED BY <1>8, <2>1, CountJoined
<1>10. CountIn(kind, changes) \in Nat
  BY <1>7, CountFinite
<1>11. CountIn(kind, work) = PostRecords(kind, message)
  BY <1>5, <1>7, <1>9, <1>10
<1>12. Work(message, UnsignedShort) = work
  BY <1>3, <1>6, <1>8 DEF Work
<1> QED BY <1>9, <1>11, <1>12 DEF Steps

LEMMA WorkTyped ==
    ASSUME NEW message \in Messages
    PROVE  Work(message, UnsignedShort) \in Seq(EventType \cup Lookups)
<1>1. PICK kind \in RepliesAndQuotes : TRUE
  BY DEF RepliesAndQuotes
<1> QED BY <1>1, WorkEvents

-----------------------------------------------------------------------------
(***************************************************************************)
(* The inductive invariant without the histories, action by action.        *)
(***************************************************************************)
Extends(list, other) ==
    \A i \in DOMAIN list : i \in DOMAIN other /\ other[i].did = list[i].did

\* What a step makes of the accounts and of the cache.
Counts(more) ==
    /\ AllSound(accounts)' /\ CacheTyped' /\ Extends(accounts, accounts')
    /\ \A c \in Compared : Total(c) \in Nat /\ Total(c)' = Total(c) + more[c]

LEMMA TotalIs ==
    /\ \A c : Total(c) = TotalIn(accounts, c)
    /\ \A c : Total(c)' = TotalIn(accounts', c)
BY DEF Total, TotalIn

LEMMA FoundCounts ==
    ASSUME AllSound(accounts), NEW found, NEW did, Found(found, did),
           NEW more \in [Compared -> Nat], Moves(found.accounts, accounts', more),
           cached' = found.cached, used' = found.used
    PROVE  Counts(more) /\ found.id \in DOMAIN accounts' /\ accounts'[found.id].did = did
<1>1. AllSound(accounts') /\ AllSound(accounts)'
  BY DEF Moves, AllSound, IsList
<1>2. CacheTyped'
  <2>1. CacheFits(accounts', cached', used')
    BY CacheStays DEF Found, Moves, AllSound, SameDids
  <2> QED BY <2>1 DEF CacheTyped, CacheFits, Held
<1>3. Extends(accounts, accounts')
  BY DEF Found, Moves, SameDids, Extends
<1>4. ASSUME NEW c \in Compared
      PROVE  Total(c) \in Nat /\ Total(c)' = Total(c) + more[c]
  <2>1. TotalIn(accounts', c) = TotalIn(found.accounts, c) + more[c]
    BY DEF Moves
  <2>2. TotalIn(found.accounts, c) = TotalIn(accounts, c)
    BY ComparedCounters DEF Found
  <2> QED BY <2>1, <2>2, TotalIs, ComparedTotals
<1>5. found.id \in DOMAIN accounts' /\ accounts'[found.id].did = did
  BY DEF Found, Moves, SameDids
<1> QED BY <1>1, <1>2, <1>3, <1>4, <1>5 DEF Counts

LEMMA UnchangedCounts ==
    ASSUME AllSound(accounts), CacheTyped, UNCHANGED cache PROVE Counts(Nothing)
<1>1. accounts' = accounts /\ cached' = cached /\ used' = used
  BY DEF cache
<1>2. AllSound(accounts)'
  BY <1>1
<1>3. CacheTyped'
  BY <1>1 DEF CacheTyped
<1>4. \A c \in Compared : Total(c) \in Nat /\ Total(c)' = Total(c) + Nothing[c]
  BY <1>1, TotalIs, ComparedTotals DEF Nothing
<1> QED BY <1>1, <1>2, <1>3, <1>4 DEF Counts, Extends

\* A lookup on behalf of anyone.
LEMMA LookedUpCounts ==
    ASSUME AllSound(accounts), CacheTyped, NEW did \in Dids,
           \E found \in GetAccount(did) :
              accounts' = found.accounts /\ cached' = found.cached /\ used' = found.used
    PROVE  Counts(Nothing)
<1>1. PICK found \in GetAccount(did) :
         accounts' = found.accounts /\ cached' = found.cached /\ used' = found.used
  OBVIOUS
<1>2. Found(found, did)
  BY GetAccountFinds
<1>3. Moves(found.accounts, accounts', Nothing)
  <2>1. \A c \in Compared : TotalIn(accounts', c) = TotalIn(found.accounts, c) + Nothing[c]
    BY <1>1, <1>2, ComparedTotals DEF Nothing, Found
  <2> QED BY <1>1, <1>2, <2>1 DEF Moves, Found, SameDids
<1>4. Nothing \in [Compared -> Nat]
  BY DEF Nothing
<1> QED BY <1>1, <1>2, <1>3, <1>4, FoundCounts

LEMMA RecorderStays ==
    ASSUME RecorderTyped, UNCHANGED recorder, Extends(accounts, accounts')
    PROVE  RecorderTyped'
BY DEF RecorderTyped, Extends

LEMMA BalanceStays ==
    ASSUME InteractionsBalance, UNCHANGED recorder, Counts(Nothing)
    PROVE  InteractionsBalance'
<1> SUFFICES ASSUME NEW kind \in Interactions PROVE Balanced(kind)'
  BY DEF InteractionsBalance
<1>1. Total(Done[kind])' = Total(Done[kind]) /\ Total(Received[kind])' = Total(Received[kind])
  BY ComparedFacts DEF Counts, Nothing
<1>2. SubjectsCounted(kind)' = SubjectsCounted(kind)
      /\ OwnPartCounted(kind)' = OwnPartCounted(kind)
  BY DEF SubjectsCounted, OwnPartCounted, InHand
<1>3. Balanced(kind)
  BY DEF InteractionsBalance
<1> QED BY <1>1, <1>2, <1>3 DEF Balanced

\* The invariant without the posts, and without what the accounts are.
RecordsInvariant ==
    /\ QueuesTyped /\ RecorderTyped /\ CacheTyped /\ AllSound(accounts)
    /\ InteractionsBalance

LEMMA OthersKeep ==
    ASSUME RecordsInvariant, QueuesTyped', UNCHANGED recorder, Counts(Nothing)
    PROVE  RecordsInvariant'
<1>1. RecorderTyped' /\ InteractionsBalance'
  BY RecorderStays, BalanceStays DEF RecordsInvariant, Counts
<1> QED BY <1>1 DEF RecordsInvariant, Counts

LEMMA QueueFacts ==
    ASSUME QueuesTyped
    PROVE  /\ handling # <<>> => /\ Head(handling) \in EventType \cup Lookups
                                 /\ Tail(handling) \in Seq(EventType \cup Lookups)
           /\ queue # <<>> => Head(queue) \in EventType /\ Tail(queue) \in Seq(EventType)
BY DEF QueuesTyped

LEMMA LookupKind ==
    /\ \A e \in EventType : e.kind # "lookup"
    /\ \A e \in Lookups : e.kind = "lookup" /\ e.did \in Dids
<1>1. ASSUME NEW e \in EventType PROVE e.kind # "lookup"
  BY EventFacts DEF Interactions, Updates
<1> QED BY <1>1 DEF Lookups

LEMMA HandleKeeps ==
    ASSUME RecordsInvariant, NEW message \in Messages, Handle(message)
    PROVE  RecordsInvariant'
<1>1. Work(message, UnsignedShort) \in Seq(EventType \cup Lookups) /\ MaxMessages \in Nat
  BY WorkTyped, ActivityAssumption
<1>2. QueuesTyped'
  BY <1>1 DEF Handle, RecordsInvariant, QueuesTyped
<1> QED BY <1>2, UnchangedCounts, OthersKeep DEF Handle, RecordsInvariant

LEMMA RequestRecordingKeeps ==
    ASSUME RecordsInvariant, RequestRecording PROVE RecordsInvariant'
<1>1. Head(handling) \in EventType /\ Tail(handling) \in Seq(EventType \cup Lookups)
  BY QueueFacts, LookupKind DEF RequestRecording, RecordsInvariant
<1>2. QueuesTyped'
  BY <1>1 DEF RequestRecording, RecordsInvariant, QueuesTyped
<1> QED BY <1>2, UnchangedCounts, OthersKeep DEF RequestRecording, RecordsInvariant

LEMMA LoadAccountKeeps ==
    ASSUME RecordsInvariant, LoadAccount PROVE RecordsInvariant'
<1>1. PICK did : did = Head(handling).did
  OBVIOUS
<1>2. did \in Dids /\ Tail(handling) \in Seq(EventType \cup Lookups)
  BY <1>1, QueueFacts, LookupKind DEF LoadAccount, RecordsInvariant
<1>3. QueuesTyped'
  BY <1>2 DEF LoadAccount, RecordsInvariant, QueuesTyped
<1>4. \E found \in GetAccount(did) :
         accounts' = found.accounts /\ cached' = found.cached /\ used' = found.used
  BY <1>1 DEF LoadAccount
<1>5. Counts(Nothing)
  BY <1>2, <1>4, LookedUpCounts DEF RecordsInvariant
<1> QED BY <1>3, <1>5, OthersKeep DEF LoadAccount

LEMMA MalformedKeeps ==
    ASSUME RecordsInvariant, Malformed PROVE RecordsInvariant'
<1>1. QueuesTyped'
  BY DEF Malformed, RecordsInvariant, QueuesTyped
<1> QED BY <1>1, UnchangedCounts, OthersKeep DEF Malformed, RecordsInvariant

LEMMA LookUpKeeps ==
    ASSUME RecordsInvariant, NEW did \in Dids, LookUp(did) PROVE RecordsInvariant'
<1>1. QueuesTyped'
  <2>1. MaxLookups \in Nat
    BY ActivityAssumption
  <2> QED BY <2>1 DEF LookUp, RecordsInvariant, QueuesTyped
<1>2. \E found \in GetAccount(did) :
         accounts' = found.accounts /\ cached' = found.cached /\ used' = found.used
  BY DEF LookUp
<1>3. Counts(Nothing)
  BY <1>2, LookedUpCounts DEF RecordsInvariant
<1> QED BY <1>1, <1>3, OthersKeep DEF LookUp

LEMMA ForceStopKeeps ==
    ASSUME RecordsInvariant, ForceStop PROVE RecordsInvariant'
<1>1. QueuesTyped'
  BY DEF ForceStop, RecordsInvariant, QueuesTyped
<1> QED BY <1>1, UnchangedCounts, OthersKeep DEF ForceStop, RecordsInvariant

LEMMA StutteringKeeps ==
    ASSUME RecordsInvariant, UNCHANGED vars PROVE RecordsInvariant'
<1>1. QueuesTyped'
  BY DEF vars, RecordsInvariant, QueuesTyped
<1> QED BY <1>1, UnchangedCounts, OthersKeep DEF vars, RecordsInvariant

\* The arithmetic of a balance: r and t are what one interaction counts for
\* whom it is with, and how many those are; own, some are what is counted
\* of the event in hand.
LEMMA BalanceMoves ==
    ASSUME NEW r \in {1, 2}, NEW t \in {1, 2},
           NEW received \in Nat, NEW done \in Nat, NEW own \in Nat, NEW some \in Nat,
           NEW received2 \in Nat, NEW done2 \in Nat, NEW own2 \in Nat, NEW some2 \in Nat,
           received = r * (t * (done - own) + some),
           \/ received2 = received /\ done2 - own2 = done - own /\ some2 = some
           \/ received2 = received + r /\ done2 - own2 = done - own /\ some2 = some + 1
           \/ /\ received2 = received /\ done2 - own2 = done - own + 1
              /\ some = t /\ some2 = 0
    PROVE  received2 = r * (t * (done2 - own2) + some2)
<1>1. PICK x \in Int, y \in Int : x = done - own /\ y = done2 - own2
  OBVIOUS
<1>2. received = r * (t * x + some)
  BY <1>1
<1>3. CASE t = 1
  <2>1. CASE r = 1
    BY <1>1, <1>2, <1>3, <2>1
  <2>2. CASE r = 2
    BY <1>1, <1>2, <1>3, <2>2
  <2> QED BY <2>1, <2>2
<1>4. CASE t = 2
  <2>1. CASE r = 1
    BY <1>1, <1>2, <1>4, <2>1
  <2>2. CASE r = 2
    BY <1>1, <1>2, <1>4, <2>2
  <2> QED BY <2>1, <2>2
<1> QED BY <1>3, <1>4

Balances(by, t, received, done, own, some) == received = by * (t * (done - own) + some)

\* Either nothing is counted, or a subject, or what ends an interaction.
Together(by, t, r, d, own, some, own2, some2) ==
    \/ r = 0 /\ d - own2 = 0 - own /\ some2 = some
    \/ r = by /\ d - own2 = 0 - own /\ some2 = some + 1
    \/ r = 0 /\ d - own2 = 1 - own /\ some = t /\ some2 = 0

LEMMA BalanceMovesBy ==
    ASSUME NEW by \in {1, 2}, NEW t \in {1, 2},
           NEW received \in Nat, NEW done \in Nat, NEW own \in Nat, NEW some \in Nat,
           NEW r \in Nat, NEW d \in Nat, NEW own2 \in Nat, NEW some2 \in Nat,
           Balances(by, t, received, done, own, some),
           Together(by, t, r, d, own, some, own2, some2)
    PROVE  Balances(by, t, received + r, done + d, own2, some2)
<1>1. PICK received2, done2 : received2 = received + r /\ done2 = done + d
  OBVIOUS
<1>2. received2 \in Nat /\ done2 \in Nat
  BY <1>1
<1>3. \/ received2 = received /\ done2 - own2 = done - own /\ some2 = some
      \/ received2 = received + by /\ done2 - own2 = done - own /\ some2 = some + 1
      \/ received2 = received /\ done2 - own2 = done - own + 1 /\ some = t /\ some2 = 0
  BY <1>1 DEF Together
<1>4. received2 = by * (t * (done2 - own2) + some2)
  BY <1>2, <1>3, BalanceMoves DEF Balances
<1> QED BY <1>1, <1>4 DEF Balances

LEMMA HandTyped ==
    ASSUME RecorderTyped, NEW kind \in Interactions
    PROVE  SubjectsCounted(kind) \in Nat /\ OwnPartCounted(kind) \in Nat
<1>1. Targets(kind) \in Nat
  BY DEF Targets
<1>2. recorder.pc = "interact" => recorder.at - 1 \in Nat
  <2> HAVE recorder.pc = "interact"
  <2>1. PICK e : e = recorder.event
    OBVIOUS
  <2>2. recorder.at \in 1 .. Targets(e.kind) /\ Targets(e.kind) \in {1, 2}
    BY <2>1, SubjectInHand
  <2> QED BY <2>2
<1> QED BY <1>1, <1>2 DEF SubjectsCounted, OwnPartCounted

\* A balance is kept when its sides move together.
LEMMA BalanceKept ==
    ASSUME NEW more \in [Compared -> Nat], Counts(more), RecorderTyped, RecorderTyped',
           NEW kind \in Interactions, Balanced(kind),
           Together(ReceivedBy(kind), Targets(kind), more[Received[kind]],
                    more[Done[kind]], OwnPartCounted(kind), SubjectsCounted(kind),
                    OwnPartCounted(kind)', SubjectsCounted(kind)')
    PROVE  Balanced(kind)'
<1>1. PICK received, done, own, some, by, t :
         /\ received = Total(Received[kind]) /\ done = Total(Done[kind])
         /\ own = OwnPartCounted(kind) /\ some = SubjectsCounted(kind)
         /\ by = ReceivedBy(kind) /\ t = Targets(kind)
  OBVIOUS
<1>2. PICK received2, done2, own2, some2 :
         /\ received2 = Total(Received[kind])' /\ done2 = Total(Done[kind])'
         /\ own2 = OwnPartCounted(kind)' /\ some2 = SubjectsCounted(kind)'
  OBVIOUS
<1> DEFINE r == more[Received[kind]]
           d == more[Done[kind]]
<1>3. own \in Nat /\ some \in Nat
  BY <1>1, HandTyped
<1>4. own2 \in Nat /\ some2 \in Nat
  <2>1. OwnPartCounted(kind)' \in Nat
    BY DEF OwnPartCounted
  <2>2. SubjectsCounted(kind) \in Nat
    BY HandTyped
  <2>3. SubjectsCounted(kind)' \in Nat
    BY <2>2 DEF Together
  <2> QED BY <1>2, <2>1, <2>3
<1>5. /\ received \in Nat /\ done \in Nat /\ r \in Nat /\ d \in Nat
      /\ received2 = received + r /\ done2 = done + d
  BY <1>1, <1>2, ComparedFacts DEF Counts
<1>6. Balances(by, t, received, done, own, some)
  BY <1>1 DEF Balanced, Balances
<1>7. by \in {1, 2} /\ t \in {1, 2}
  BY <1>1 DEF ReceivedBy, Targets
<1>8. Together(by, t, r, d, own, some, own2, some2)
  BY <1>1, <1>2
<1> HIDE DEF r, d
<1>9. received2 = by * (t * (done2 - own2) + some2)
  <2>1. Balances(by, t, received + r, done + d, own2, some2)
    BY <1>3, <1>4, <1>5, <1>6, <1>7, <1>8, BalanceMovesBy
  <2> QED BY <1>5, <2>1 DEF Balances
<1>10. Balanced(kind)' <=> Total(Received[kind])' = ReceivedBy(kind) *
        (Targets(kind) * (Total(Done[kind])' - OwnPartCounted(kind)')
           + SubjectsCounted(kind)')
  BY DEF Balanced
<1> QED BY <1>1, <1>2, <1>9, <1>10

LEMMA TakeEventKeeps ==
    ASSUME RecordsInvariant, TakeEvent PROVE RecordsInvariant'
<1>1. PICK e : e = Head(queue)
  OBVIOUS
<1>2. PICK found :
         /\ e \in EventType /\ Found(found, e.did)
         /\ cached' = found.cached /\ used' = found.used
         /\ Moves(found.accounts, accounts', TakenMore(e.kind))
         /\ recorder' = [pc |-> IF e.subjects = <<>> THEN "finish" ELSE "interact",
                         event |-> e, source |-> found.id, at |-> 1]
  BY <1>1, TakeEventAccounts DEF RecordsInvariant
<1>3. PICK more : more = TakenMore(e.kind)
  OBVIOUS
<1>4. more \in [Compared -> Nat]
  BY <1>3, TakenMoreTyped
<1>5. Counts(more) /\ found.id \in DOMAIN accounts' /\ accounts'[found.id].did = e.did
  BY <1>2, <1>3, <1>4, FoundCounts DEF RecordsInvariant
<1>6. QueuesTyped'
  BY QueueFacts DEF RecordsInvariant, TakeEvent, QueuesTyped
<1>7. /\ recorder'.pc = IF e.subjects = <<>> THEN "finish" ELSE "interact"
      /\ recorder'.event = e /\ recorder'.source = found.id /\ recorder'.at = 1
  BY <1>2
<1>8. e.kind \in Interactions =>
         e.subjects # <<>> /\ DOMAIN e.subjects = 1 .. Targets(e.kind)
         /\ Targets(e.kind) \in {1, 2}
  BY <1>2, EventFacts, InteractionTyped DEF Targets
<1>9. RecorderTyped'
  <2>1. recorder' \in [pc : {"wait", "interact", "finish", "ended"},
                       event : EventType \cup {<<>>}, source : Nat, at : Nat]
    <3>1. found.id \in Nat
      <4>1. IsList(accounts')
        BY <1>5 DEF Counts, AllSound, IsList
      <4> QED BY <1>5, <4>1, ListFacts
    <3> QED BY <1>2, <3>1
  <2>2. e.subjects # <<>> => 1 \in DOMAIN e.subjects
    <3>1. e.kind \notin Interactions => e.subjects = <<>>
      BY <1>2, EventFacts
    <3> QED BY <1>8, <3>1
  <2> QED BY <1>2, <1>5, <1>7, <2>1, <2>2 DEF RecorderTyped
<1>10. ASSUME NEW kind \in Interactions PROVE Balanced(kind)'
  <2>1. /\ Done[e.kind] = Done[kind] /\ e.kind \in Interactions => e.kind = kind
        /\ \A other \in Interactions : Received[kind] # Done[other]
    BY InteractionsApart
  <2>2. more[Received[kind]] = 0
        /\ more[Done[kind]] = IF e.kind = kind /\ kind \in OwnPartFirst THEN 1 ELSE 0
    BY <1>3, <2>1, ComparedFacts DEF TakenMore, OwnPartFirst, Interactions
  <2>3. SubjectsCounted(kind) = 0 /\ OwnPartCounted(kind) = 0
    BY DEF TakeEvent, SubjectsCounted, OwnPartCounted, InHand
  <2>4. SubjectsCounted(kind)' = 0
        /\ OwnPartCounted(kind)' = IF e.kind = kind /\ kind \in OwnPartFirst THEN 1 ELSE 0
    <3>1. InHand(kind)' <=> e.kind = kind
      BY <1>7 DEF InHand
    <3>2. e.kind = kind => recorder'.pc = "interact" /\ recorder'.at - 1 = 0
      BY <1>7, <1>8
    <3> QED BY <3>1, <3>2 DEF SubjectsCounted, OwnPartCounted
  <2>5. Together(ReceivedBy(kind), Targets(kind), more[Received[kind]],
                 more[Done[kind]], OwnPartCounted(kind), SubjectsCounted(kind),
                 OwnPartCounted(kind)', SubjectsCounted(kind)')
    BY <2>2, <2>3, <2>4 DEF Together
  <2> QED BY <1>4, <1>5, <1>9, <2>5, BalanceKept DEF RecordsInvariant, InteractionsBalance
<1>11. InteractionsBalance'
  BY <1>10 DEF InteractionsBalance
<1> QED BY <1>5, <1>6, <1>9, <1>11 DEF RecordsInvariant, Counts

LEMMA InteractKeeps ==
    ASSUME RecordsInvariant, Interact PROVE RecordsInvariant'
<1>1. PICK e, own, subject :
         e = recorder.event /\ own = e.kind /\ subject = e.subjects[recorder.at]
  OBVIOUS
<1>2. recorder.pc = "interact" /\ RecorderTyped
  BY DEF Interact, RecordsInvariant
<1>3. /\ own \in Interactions /\ e \in Interaction(own)
      /\ Len(e.subjects) = Targets(own) /\ Targets(own) \in {1, 2}
      /\ recorder.at \in 1 .. Targets(own)
  BY <1>1, <1>2, SubjectInHand
<1>4. PICK found :
         /\ Found(found, subject.did)
         /\ cached' = found.cached /\ used' = found.used
         /\ Moves(found.accounts, accounts', ReceivedMore(own))
  BY <1>1, InteractAccounts DEF RecordsInvariant
<1>5. PICK more : more = ReceivedMore(own)
  OBVIOUS
<1>6. more \in [Compared -> Nat]
  BY <1>3, <1>5, ReceivedMoreTyped
<1>7. Counts(more)
  BY <1>4, <1>5, <1>6, FoundCounts DEF RecordsInvariant
<1>8. QueuesTyped'
  BY DEF RecordsInvariant, Interact, QueuesTyped
<1>9. recorder' = IF recorder.at = Targets(own)
                    THEN [recorder EXCEPT !.pc = "finish"]
                    ELSE [recorder EXCEPT !.at = @ + 1]
  BY <1>1, <1>3 DEF Interact
<1>10. /\ recorder'.event = e /\ recorder'.source = recorder.source
       /\ recorder.at = Targets(own) => recorder'.pc = "finish"
       /\ recorder.at # Targets(own) =>
            recorder'.pc = "interact" /\ recorder'.at = recorder.at + 1
  BY <1>1, <1>2, <1>9 DEF RecorderTyped
<1>11. RecorderTyped'
  <2>1. recorder' \in [pc : {"wait", "interact", "finish", "ended"},
                       event : EventType \cup {<<>>}, source : Nat, at : Nat]
    BY <1>2, <1>9 DEF RecorderTyped
  <2>2. recorder.at # Targets(own) => recorder.at + 1 \in DOMAIN e.subjects
    <3>1. DOMAIN e.subjects = 1 .. Targets(own)
      BY <1>3, InteractionTyped
    <3> QED BY <1>3, <3>1
  <2>3. e \in EventType /\ recorder.source \in DOMAIN accounts
        /\ accounts[recorder.source].did = e.did
    BY <1>1, <1>2 DEF RecorderTyped
  <2>4. recorder.source \in DOMAIN accounts' /\ accounts'[recorder.source].did = e.did
    BY <1>7, <2>3 DEF Counts, Extends
  <2> QED BY <1>10, <2>1, <2>2, <2>3, <2>4 DEF RecorderTyped
<1>12. ASSUME NEW kind \in Interactions PROVE Balanced(kind)'
  <2>1. Received[kind] = Received[own] <=> kind = own
    BY <1>3, InteractionsApart
  <2>2. Done[kind] # Received[own]
    BY <1>3, InteractionsApart
  <2>3. more[Received[kind]] = (IF kind = own THEN ReceivedBy(kind) ELSE 0)
        /\ more[Done[kind]] = 0
    BY <1>5, <2>1, <2>2, ComparedFacts DEF ReceivedMore
  <2>4. recorder'.pc \in {"interact", "finish"}
    BY <1>10
  <2>5. (InHand(kind) <=> kind = own) /\ (InHand(kind)' <=> kind = own)
    BY <1>1, <1>2, <1>10, <2>4 DEF InHand
  <2>6. OwnPartCounted(kind)' = OwnPartCounted(kind) /\ OwnPartCounted(kind) \in Nat
    BY <2>5 DEF OwnPartCounted
  <2>7. CASE kind = own
    <3>1. SubjectsCounted(kind) = recorder.at - 1 /\ recorder.at - 1 \in Nat
      BY <1>2, <1>3, <2>5, <2>7 DEF SubjectsCounted
    <3>2. SubjectsCounted(kind)' = recorder.at
      <4>1. CASE recorder.at = Targets(own)
        BY <1>10, <2>5, <2>7, <4>1 DEF SubjectsCounted
      <4>2. CASE recorder.at # Targets(own)
        <5>1. recorder'.at - 1 = recorder.at
          BY <1>3, <1>10, <4>2
        <5> QED BY <1>10, <2>5, <2>7, <4>2, <5>1 DEF SubjectsCounted
      <4> QED BY <4>1, <4>2
    <3>3. SubjectsCounted(kind)' = SubjectsCounted(kind) + 1
      BY <1>3, <3>1, <3>2
    <3>4. Together(ReceivedBy(kind), Targets(kind), more[Received[kind]],
                   more[Done[kind]], OwnPartCounted(kind), SubjectsCounted(kind),
                   OwnPartCounted(kind)', SubjectsCounted(kind)')
      BY <2>3, <2>6, <2>7, <3>3 DEF Together
    <3> QED BY <1>6, <1>7, <1>11, <3>4, BalanceKept
            DEF RecordsInvariant, InteractionsBalance
  <2>8. CASE kind # own
    <3>1. SubjectsCounted(kind) = 0 /\ SubjectsCounted(kind)' = 0
      BY <2>5, <2>8 DEF SubjectsCounted
    <3>2. Together(ReceivedBy(kind), Targets(kind), more[Received[kind]],
                   more[Done[kind]], OwnPartCounted(kind), SubjectsCounted(kind),
                   OwnPartCounted(kind)', SubjectsCounted(kind)')
      BY <2>3, <2>6, <2>8, <3>1 DEF Together
    <3> QED BY <1>6, <1>7, <1>11, <3>2, BalanceKept
            DEF RecordsInvariant, InteractionsBalance
  <2> QED BY <2>7, <2>8
<1>13. InteractionsBalance'
  BY <1>12 DEF InteractionsBalance
<1> QED BY <1>7, <1>8, <1>11, <1>13 DEF RecordsInvariant, Counts

LEMMA FinishRecordCounts ==
    ASSUME AllSound(accounts), RecorderTyped, CacheTyped, FinishRecord,
           NEW e, e = recorder.event
    PROVE  Counts(FinishedMore(e))
<1>1. Moves(accounts, accounts', FinishedMore(e))
  BY FinishRecordAccounts
<1>2. PICK more : more = FinishedMore(e)
  OBVIOUS
<1>3. AllSound(accounts)'
  BY <1>1 DEF Moves
<1>4. CacheTyped'
  <2>1. cached' = cached /\ used' = used
    BY DEF FinishRecord
  <2>2. CacheFits(accounts, cached, used) /\ IsList(accounts)
    BY CacheTypedIs DEF AllSound
  <2>3. CacheFits(accounts', cached', used')
    BY <1>1, <2>1, <2>2, CacheStays DEF Moves, SameDids
  <2> QED BY <2>3 DEF CacheTyped, CacheFits, Held
<1>5. Extends(accounts, accounts')
  BY <1>1 DEF Moves, SameDids, Extends
<1>6. \A c \in Compared : Total(c) \in Nat /\ Total(c)' = Total(c) + more[c]
  BY <1>1, <1>2, TotalIs, ComparedTotals DEF Moves
<1> QED BY <1>2, <1>3, <1>4, <1>5, <1>6 DEF Counts

LEMMA FinishRecordKeeps ==
    ASSUME RecordsInvariant, FinishRecord PROVE RecordsInvariant'
<1>1. PICK e : e = recorder.event
  OBVIOUS
<1>2. AllSound(accounts) /\ RecorderTyped /\ CacheTyped /\ QueuesTyped
  BY DEF RecordsInvariant
<1>3. e \in EventType
  BY <1>1, <1>2, FinishRecordAccounts
<1>4. PICK more : more = FinishedMore(e)
  OBVIOUS
<1>5. more \in [Compared -> Nat]
  BY <1>4 DEF FinishedMore, OwnCount
<1>6. Counts(more)
  BY <1>1, <1>2, <1>4, FinishRecordCounts
<1>7. QueuesTyped'
  BY <1>2 DEF FinishRecord, QueuesTyped
<1>8. recorder.pc = "finish" /\ recorder'.pc \in {"wait", "ended"}
      /\ recorder' \in [pc : {"wait", "interact", "finish", "ended"},
                        event : EventType \cup {<<>>}, source : Nat, at : Nat]
  BY DEF FinishRecord, Quiet
<1>9. RecorderTyped'
  BY <1>8 DEF RecorderTyped
<1>10. ASSUME NEW kind \in Interactions PROVE Balanced(kind)'
  <2>1. more[Received[kind]] = 0
    <3>1. \A other \in Interactions : Received[kind] # Done[other]
      BY InteractionsApart
    <3>2. Received[kind] # "posts" /\ Received[kind] \in Compared
      BY InteractionFacts, ComparedFacts
    <3> QED BY <1>4, <3>1, <3>2 DEF FinishedMore, OwnCount
  <2>2. more[Done[kind]] = IF e.kind = kind /\ kind \notin OwnPartFirst THEN 1 ELSE 0
    <3>1. e.kind \in Interactions /\ Done[e.kind] = Done[kind] => e.kind = kind
      BY InteractionsApart
    <3>2. Done[kind] # "posts" /\ Done[kind] \in Compared
      BY InteractionFacts, ComparedFacts
    <3> QED BY <1>4, <3>1, <3>2 DEF FinishedMore, OwnCount
  <2>3. SubjectsCounted(kind)' = 0 /\ OwnPartCounted(kind)' = 0
    BY <1>8 DEF SubjectsCounted, OwnPartCounted, InHand
  <2>4. SubjectsCounted(kind) = (IF e.kind = kind THEN Targets(kind) ELSE 0)
        /\ OwnPartCounted(kind) = (IF e.kind = kind /\ kind \in OwnPartFirst THEN 1 ELSE 0)
    BY <1>1, <1>8 DEF SubjectsCounted, OwnPartCounted, InHand
  <2>5. Together(ReceivedBy(kind), Targets(kind), more[Received[kind]],
                 more[Done[kind]], OwnPartCounted(kind), SubjectsCounted(kind),
                 OwnPartCounted(kind)', SubjectsCounted(kind)')
    BY <2>1, <2>2, <2>3, <2>4 DEF Together
  <2> QED BY <1>2, <1>5, <1>6, <1>9, <2>5, BalanceKept
          DEF RecordsInvariant, InteractionsBalance
<1>11. InteractionsBalance'
  BY <1>10 DEF InteractionsBalance
<1> QED BY <1>6, <1>7, <1>9, <1>11 DEF RecordsInvariant, Counts

-----------------------------------------------------------------------------
LEMMA InitTotals == ASSUME Init, NEW c PROVE Total(c) = 0
<1> DEFINE f == [i \in DOMAIN accounts |-> accounts[i].n[c]]
<1>1. f \in [{} -> {0}] /\ IsFiniteSet({})
  BY FS_EmptySet DEF Init
<1>2. Total(c) = SumFunction(f)
  BY DEF Total
<1> HIDE DEF f
<1> QED BY <1>1, <1>2, SumOfZeros

LEMMA RecordsInit == ASSUME Init PROVE RecordsInvariant
<1>1. IsList(accounts) /\ DOMAIN accounts = {} /\ Len(accounts) = 0
  BY DEF Init, IsList
<1>2. AllSound(accounts)
  BY <1>1 DEF AllSound
<1>3. QueuesTyped
  <2>1. MaxMessages \in Nat /\ MaxLookups \in Nat
    BY ActivityAssumption
  <2> QED BY <2>1 DEF Init, QueuesTyped
<1>4. RecorderTyped
  BY DEF Init, Quiet, RecorderTyped
<1>5. CacheTyped
  <2>1. Held(cached) = {} /\ cached \in [Dids -> 0 .. Len(accounts)]
        /\ used \in [Dids -> Nat]
    BY <1>1 DEF Init, Held
  <2>2. IsFiniteSet({}) /\ Cardinality({}) <= MaxAccounts
    <3>1. MaxAccounts \in Nat
      BY ActivityAssumption
    <3> QED BY <3>1, FS_EmptySet
  <2>3. CacheFits(accounts, cached, used)
    BY <2>1, <2>2 DEF CacheFits
  <2> QED BY <2>3, CacheTypedIs
<1>6. ASSUME NEW kind \in Interactions PROVE Balanced(kind)
  <2>1. \A c \in Compared : Total(c) = 0
    BY InitTotals
  <2>2. SubjectsCounted(kind) = 0 /\ OwnPartCounted(kind) = 0
    BY DEF Init, Quiet, SubjectsCounted, OwnPartCounted, InHand
  <2>3. Total(Received[kind]) = 0 /\ Total(Done[kind]) = 0
    BY <2>1, ComparedFacts
  <2>4. ReceivedBy(kind) \in {1, 2} /\ Targets(kind) \in {1, 2}
    BY DEF ReceivedBy, Targets
  <2> QED BY <2>2, <2>3, <2>4 DEF Balanced
<1> QED BY <1>2, <1>3, <1>4, <1>5, <1>6 DEF RecordsInvariant, InteractionsBalance

LEMMA RecordsStep == ASSUME RecordsInvariant, [Next]_vars PROVE RecordsInvariant'
<1>1. CASE \E message \in Messages : Handle(message)
  BY <1>1, HandleKeeps
<1>2. CASE RequestRecording
  BY <1>2, RequestRecordingKeeps
<1>3. CASE LoadAccount
  BY <1>3, LoadAccountKeeps
<1>4. CASE Malformed
  BY <1>4, MalformedKeeps
<1>5. CASE \E did \in Dids : LookUp(did)
  BY <1>5, LookUpKeeps
<1>6. CASE TakeEvent
  BY <1>6, TakeEventKeeps
<1>7. CASE Interact
  BY <1>7, InteractKeeps
<1>8. CASE FinishRecord
  BY <1>8, FinishRecordKeeps
<1>9. CASE ForceStop
  BY <1>9, ForceStopKeeps
<1>10. CASE UNCHANGED vars
  BY <1>10, StutteringKeeps
<1> QED BY <1>1, <1>2, <1>3, <1>4, <1>5, <1>6, <1>7, <1>8, <1>9, <1>10 DEF Next

LEMMA RecordsHold == Spec => []RecordsInvariant
BY RecordsInit, RecordsStep, PTL DEF Spec

-----------------------------------------------------------------------------
(***************************************************************************)
(* The replies and the quotes: they are still to be requested, in the      *)
(* queue, in hand, counted or given up.                                    *)
(***************************************************************************)
KindInHand(kind) == IF InHand(kind) THEN 1 ELSE 0

KindTotal(kind) == Total(Done[kind])

LEMMA RecordedIs ==
    \A kind :
      /\ Recorded(kind) <=>
            written[kind] = KindTotal(kind) + CountIn(kind, handling)
                              + CountIn(kind, queue) + KindInHand(kind) + abandoned[kind]
      /\ Recorded(kind)' <=>
            written'[kind] = KindTotal(kind)' + CountIn(kind, handling')
                               + CountIn(kind, queue') + KindInHand(kind)'
                               + abandoned'[kind]
BY DEF Recorded, KindTotal, KindInHand, CountIn

HistoriesTyped ==
    written \in [PostKinds -> Nat] /\ abandoned \in [PostKinds -> Nat]

LEMMA KindsTyped ==
    ASSUME RecordsInvariant, HistoriesTyped, NEW kind \in RepliesAndQuotes
    PROVE  /\ KindTotal(kind) \in Nat /\ KindInHand(kind) \in {0, 1}
           /\ CountIn(kind, handling) \in Nat /\ CountIn(kind, queue) \in Nat
           /\ written[kind] \in Nat /\ abandoned[kind] \in Nat
<1>1. KindTotal(kind) \in Nat
  <2>1. Done[kind] \in Compared
    BY ComparedFacts DEF RepliesAndQuotes, Interactions
  <2>2. Total(Done[kind]) \in Nat
    BY <2>1, ComparedTotals, TotalIs DEF RecordsInvariant
  <2> QED BY <2>2 DEF KindTotal
<1>2. CountIn(kind, handling) \in Nat /\ CountIn(kind, queue) \in Nat
  BY CountFinite DEF RecordsInvariant, QueuesTyped
<1>3. kind \in PostKinds
  BY DEF RepliesAndQuotes, PostKinds
<1> QED BY <1>1, <1>2, <1>3 DEF KindInHand, HistoriesTyped

LEMMA TotalMoves ==
    ASSUME NEW more \in [Compared -> Nat], Counts(more), NEW kind \in RepliesAndQuotes
    PROVE  KindTotal(kind)' = KindTotal(kind) + more[Done[kind]]
<1>1. Done[kind] \in Compared
  BY ComparedFacts DEF RepliesAndQuotes, Interactions
<1> QED BY <1>1 DEF KindTotal, Counts

LEMMA TotalStays ==
    ASSUME Counts(Nothing), NEW kind \in RepliesAndQuotes
    PROVE  KindTotal(kind)' = KindTotal(kind)
<1>1. Done[kind] \in Compared
  BY ComparedFacts DEF RepliesAndQuotes, Interactions
<1>2. Nothing \in [Compared -> Nat] /\ Nothing[Done[kind]] = 0
  BY <1>1 DEF Nothing
<1>3. KindTotal(kind)' = KindTotal(kind) + Nothing[Done[kind]]
  BY <1>2, TotalMoves
<1>4. KindTotal(kind) \in Nat
  BY <1>1 DEF Counts, KindTotal
<1> QED BY <1>2, <1>3, <1>4

LEMMA PostRecordsNat ==
    ASSUME NEW message \in Messages, NEW kind
    PROVE  PostRecords(kind, message) \in Nat
<1>1. CASE message.op # "commit"
  BY <1>1 DEF PostRecords
<1>2. CASE message.op = "commit"
  <2>1. PICK records, n : records = Handled(message) /\ n = Len(records)
    OBVIOUS
  <2>2. n \in Nat /\ DOMAIN records = 1 .. n
    BY <1>2, <2>1, ActivityAssumption DEF MessageTyped
  <2>3. IsFiniteSet({i \in DOMAIN records : IsA(kind, records[i])})
    BY <2>2, FS_Interval, FS_Subset
  <2> QED BY <1>2, <2>1, <2>3, FS_CardinalityType DEF PostRecords
<1> QED BY <1>1, <1>2

LEMMA HistoriesStep ==
    ASSUME RecordsInvariant, HistoriesTyped, [Next]_vars PROVE HistoriesTyped'
<1>1. ASSUME NEW message \in Messages, Handle(message) PROVE HistoriesTyped'
  <2>1. \A kind \in PostKinds : written[kind] + PostRecords(kind, message) \in Nat
    BY PostRecordsNat DEF HistoriesTyped
  <2> QED BY <1>1, <2>1 DEF Handle, HistoriesTyped
<1>2. CASE Malformed
  <2>1. \A kind \in PostKinds : CountIn(kind, handling) \in Nat
    BY CountFinite DEF RecordsInvariant, QueuesTyped
  <2>2. \A kind \in PostKinds : abandoned[kind] + CountIn(kind, handling) \in Nat
    BY <2>1 DEF HistoriesTyped
  <2> QED BY <1>2, <2>2 DEF Malformed, HistoriesTyped
<1>3. CASE UNCHANGED histories
  BY <1>3 DEF histories, HistoriesTyped
<1>4. CASE RequestRecording \/ LoadAccount \/ \E did \in Dids : LookUp(did)
  BY <1>3, <1>4 DEF RequestRecording, LoadAccount, LookUp
<1>5. CASE TakeEvent \/ Interact \/ FinishRecord \/ ForceStop
  BY <1>3, <1>5 DEF TakeEvent, Interact, FinishRecord, ForceStop
<1>6. CASE UNCHANGED vars
  BY <1>3, <1>6 DEF vars
<1> QED BY <1>1, <1>2, <1>4, <1>5, <1>6 DEF Next

LEMMA RecordedAfterHandle ==
    ASSUME RecordsInvariant, HistoriesTyped, NEW kind \in RepliesAndQuotes,
           Recorded(kind), NEW message \in Messages, Handle(message)
    PROVE  Recorded(kind)'
<1>1. KindTotal(kind)' = KindTotal(kind)
  BY UnchangedCounts, TotalStays DEF RecordsInvariant, Handle
<1>2. KindInHand(kind)' = KindInHand(kind) /\ queue' = queue /\ abandoned' = abandoned
  BY DEF Handle, KindInHand, InHand
<1>3. CountIn(kind, handling) = 0
  BY CountNone DEF Handle
<1>4. CountIn(kind, handling') = PostRecords(kind, message)
  BY WorkEvents DEF Handle
<1>5. kind \in PostKinds
  BY DEF RepliesAndQuotes, PostKinds
<1>6. written'[kind] = written[kind] + PostRecords(kind, message)
      /\ PostRecords(kind, message) \in Nat
  BY <1>5, PostRecordsNat DEF Handle
<1> QED BY <1>1, <1>2, <1>3, <1>4, <1>6, KindsTyped, RecordedIs

LEMMA RecordedAfterRequest ==
    ASSUME RecordsInvariant, HistoriesTyped, NEW kind \in RepliesAndQuotes,
           Recorded(kind), RequestRecording
    PROVE  Recorded(kind)'
<1>1. KindTotal(kind)' = KindTotal(kind)
  BY UnchangedCounts, TotalStays DEF RecordsInvariant, RequestRecording
<1>2. KindInHand(kind)' = KindInHand(kind) /\ UNCHANGED <<written, abandoned>>
  BY DEF RequestRecording, KindInHand, InHand, histories
<1>3. PICK e, p : e = Head(handling) /\ p = IF e.kind = kind THEN 1 ELSE 0
  OBVIOUS
<1>4. e \in EventType /\ queue \in Seq(EventType) /\ handling # <<>>
      /\ handling \in Seq(EventType \cup Lookups)
  BY <1>3, QueueFacts, LookupKind DEF RequestRecording, RecordsInvariant, QueuesTyped
<1>5. CountIn(kind, queue') = CountIn(kind, queue) + p
  BY <1>3, <1>4, CountAppended DEF RequestRecording
<1>6. CountIn(kind, handling) = p + CountIn(kind, handling')
      /\ CountIn(kind, handling') \in Nat
  BY <1>3, <1>4, CountRemoved DEF RequestRecording
<1>7. p \in Nat
  BY <1>3
<1> QED BY <1>1, <1>2, <1>5, <1>6, <1>7, KindsTyped, RecordedIs

LEMMA RecordedAfterLoad ==
    ASSUME RecordsInvariant, HistoriesTyped, NEW kind \in RepliesAndQuotes,
           Recorded(kind), LoadAccount
    PROVE  Recorded(kind)'
<1>1. handling # <<>> /\ handling \in Seq(EventType \cup Lookups)
      /\ Head(handling).kind # kind /\ Head(handling).did \in Dids
  BY QueueFacts, LookupKind
     DEF LoadAccount, RecordsInvariant, QueuesTyped, RepliesAndQuotes
<1>2. KindTotal(kind)' = KindTotal(kind)
  <2>1. PICK did : did = Head(handling).did
    OBVIOUS
  <2>2. \E found \in GetAccount(did) :
           accounts' = found.accounts /\ cached' = found.cached /\ used' = found.used
    BY <2>1 DEF LoadAccount
  <2> QED BY <1>1, <2>1, <2>2, LookedUpCounts, TotalStays DEF RecordsInvariant
<1>3. KindInHand(kind)' = KindInHand(kind) /\ UNCHANGED <<written, abandoned, queue>>
  BY DEF LoadAccount, KindInHand, InHand, histories
<1>4. CountIn(kind, handling) = CountIn(kind, handling')
      /\ CountIn(kind, handling') \in Nat
  BY <1>1, CountRemoved DEF LoadAccount
<1> QED BY <1>2, <1>3, <1>4, KindsTyped, RecordedIs

LEMMA RecordedAfterMalformed ==
    ASSUME RecordsInvariant, HistoriesTyped, NEW kind \in RepliesAndQuotes,
           Recorded(kind), Malformed
    PROVE  Recorded(kind)'
<1>1. KindTotal(kind)' = KindTotal(kind)
  BY UnchangedCounts, TotalStays DEF RecordsInvariant, Malformed
<1>2. KindInHand(kind)' = KindInHand(kind) /\ UNCHANGED <<queue, written>>
  BY DEF Malformed, KindInHand, InHand
<1>3. kind \in PostKinds
  BY DEF RepliesAndQuotes, PostKinds
<1>4. abandoned'[kind] = abandoned[kind] + CountIn(kind, handling)
      /\ CountIn(kind, handling') = 0
  BY <1>3, CountNone DEF Malformed
<1> QED BY <1>1, <1>2, <1>4, KindsTyped, RecordedIs

\* Lookups, a stop, and steps of others.
LEMMA RecordedAfterOthers ==
    ASSUME RecordsInvariant, HistoriesTyped, NEW kind \in RepliesAndQuotes,
           Recorded(kind), Counts(Nothing),
           UNCHANGED <<handling, queue, recorder, written, abandoned>>
    PROVE  Recorded(kind)'
<1>1. KindTotal(kind)' = KindTotal(kind)
  BY TotalStays
<1>2. KindInHand(kind)' = KindInHand(kind)
  BY DEF KindInHand, InHand
<1> QED BY <1>1, <1>2, KindsTyped, RecordedIs

LEMMA RecordedAfterLookUp ==
    ASSUME RecordsInvariant, HistoriesTyped, NEW kind \in RepliesAndQuotes,
           Recorded(kind), NEW did \in Dids, LookUp(did)
    PROVE  Recorded(kind)'
<1>1. \E found \in GetAccount(did) :
         accounts' = found.accounts /\ cached' = found.cached /\ used' = found.used
  BY DEF LookUp
<1>2. Counts(Nothing)
  BY <1>1, LookedUpCounts DEF RecordsInvariant
<1> QED BY <1>2, RecordedAfterOthers DEF LookUp, histories

LEMMA RecordedAfterTake ==
    ASSUME RecordsInvariant, HistoriesTyped, NEW kind \in RepliesAndQuotes,
           Recorded(kind), TakeEvent
    PROVE  Recorded(kind)'
<1>1. PICK e, more : e = Head(queue) /\ more = TakenMore(e.kind)
  OBVIOUS
<1>2. PICK found :
         /\ Found(found, e.did) /\ cached' = found.cached /\ used' = found.used
         /\ Moves(found.accounts, accounts', more)
         /\ recorder' = [pc |-> IF e.subjects = <<>> THEN "finish" ELSE "interact",
                         event |-> e, source |-> found.id, at |-> 1]
  BY <1>1, TakeEventAccounts DEF RecordsInvariant
<1>3. more \in [Compared -> Nat] /\ more[Done[kind]] = 0
  <2>1. Done[kind] \in Compared
    BY ComparedFacts DEF RepliesAndQuotes, Interactions
  <2> QED BY <1>1, <2>1, TakenMoreTyped
          DEF TakenMore, OwnPartFirst, Done, RepliesAndQuotes
<1>4. Counts(more)
  BY <1>2, <1>3, FoundCounts DEF RecordsInvariant
<1>5. KindTotal(kind)' = KindTotal(kind)
  BY <1>3, <1>4, TotalMoves, KindsTyped
<1>6. KindInHand(kind) = 0
  BY DEF TakeEvent, KindInHand, InHand
<1>7. KindInHand(kind)' = IF e.kind = kind THEN 1 ELSE 0
  BY <1>2 DEF KindInHand, InHand
<1>8. CountIn(kind, queue) = (IF e.kind = kind THEN 1 ELSE 0) + CountIn(kind, queue')
      /\ CountIn(kind, queue') \in Nat
  BY <1>1, CountRemoved DEF TakeEvent, RecordsInvariant, QueuesTyped
<1>9. UNCHANGED <<written, abandoned, handling>>
  BY DEF TakeEvent, histories
<1> QED BY <1>5, <1>6, <1>7, <1>8, <1>9, KindsTyped, RecordedIs

LEMMA RecordedAfterInteract ==
    ASSUME RecordsInvariant, HistoriesTyped, NEW kind \in RepliesAndQuotes,
           Recorded(kind), Interact
    PROVE  Recorded(kind)'
<1>1. PICK other, more : other = recorder.event.kind /\ more = ReceivedMore(other)
  OBVIOUS
<1>2. RecorderTyped /\ recorder.pc = "interact"
  BY DEF RecordsInvariant, Interact
<1>3. other \in Interactions
  BY <1>1, <1>2, SubjectInHand
<1>4. PICK found, did :
         /\ Found(found, did) /\ cached' = found.cached /\ used' = found.used
         /\ Moves(found.accounts, accounts', more)
  BY <1>1, InteractAccounts DEF RecordsInvariant
<1>5. more \in [Compared -> Nat] /\ more[Done[kind]] = 0
  <2>1. Done[kind] \in Compared
    BY ComparedFacts DEF RepliesAndQuotes, Interactions
  <2>2. Done[kind] # Received[other]
    BY <1>3 DEF Done, Received, Interactions, RepliesAndQuotes
  <2> QED BY <1>1, <1>3, <2>1, <2>2, ReceivedMoreTyped DEF ReceivedMore
<1>6. Counts(more)
  BY <1>4, <1>5, FoundCounts DEF RecordsInvariant
<1>7. KindTotal(kind)' = KindTotal(kind)
  BY <1>5, <1>6, TotalMoves, KindsTyped
<1>8. recorder'.event = recorder.event /\ recorder'.pc \in {"interact", "finish"}
  BY <1>2 DEF Interact, RecorderTyped
<1>9. KindInHand(kind)' = KindInHand(kind)
  BY <1>2, <1>8 DEF KindInHand, InHand
<1>10. UNCHANGED <<written, abandoned, handling, queue>>
  BY DEF Interact, histories
<1> QED BY <1>7, <1>9, <1>10, KindsTyped, RecordedIs

LEMMA RecordedAfterFinish ==
    ASSUME RecordsInvariant, HistoriesTyped, NEW kind \in RepliesAndQuotes,
           Recorded(kind), FinishRecord
    PROVE  Recorded(kind)'
<1>1. PICK e, more : e = recorder.event /\ more = FinishedMore(e)
  OBVIOUS
<1>2. AllSound(accounts) /\ RecorderTyped /\ CacheTyped
  BY DEF RecordsInvariant
<1>3. e \in EventType /\ Counts(more)
  BY <1>1, <1>2, FinishRecordAccounts, FinishRecordCounts
<1>4. more \in [Compared -> Nat]
  BY <1>1 DEF FinishedMore, OwnCount
<1>5. more[Done[kind]] = IF e.kind = kind THEN 1 ELSE 0
  <2>1. Done[kind] \in Compared /\ kind \in Interactions \ OwnPartFirst
        /\ Done[kind] # "posts"
    BY ComparedFacts DEF RepliesAndQuotes, Interactions, OwnPartFirst, Done
  <2>2. e.kind \in Interactions => (Done[e.kind] = Done[kind] <=> e.kind = kind)
    BY DEF RepliesAndQuotes, Interactions, Done
  <2> QED BY <1>1, <2>1, <2>2 DEF FinishedMore, OwnCount
<1>6. KindTotal(kind)' = KindTotal(kind) + more[Done[kind]]
  BY <1>3, <1>4, TotalMoves
<1>7. KindInHand(kind) = (IF e.kind = kind THEN 1 ELSE 0) /\ KindInHand(kind)' = 0
  BY <1>1 DEF FinishRecord, KindInHand, InHand, Quiet
<1>8. UNCHANGED <<written, abandoned, handling, queue>>
  BY DEF FinishRecord, histories
<1> QED BY <1>5, <1>6, <1>7, <1>8, KindsTyped, RecordedIs

KindsInvariant == RecordsInvariant /\ HistoriesTyped /\ RepliesAndQuotesCounted

LEMMA RecordedSuffices ==
    /\ RepliesAndQuotesCounted <=> \A kind \in RepliesAndQuotes : Recorded(kind)
    /\ RepliesAndQuotesCounted' <=> \A kind \in RepliesAndQuotes : Recorded(kind)'
BY DEF RepliesAndQuotesCounted, RepliesAndQuotes

LEMMA KindsInit == ASSUME Init PROVE KindsInvariant
<1>1. RecordsInvariant /\ HistoriesTyped
  BY RecordsInit DEF Init, HistoriesTyped
<1>2. ASSUME NEW kind \in RepliesAndQuotes PROVE Recorded(kind)
  <2>1. KindTotal(kind) = 0
    <3>1. Done[kind] \in Compared
      BY ComparedFacts DEF RepliesAndQuotes, Interactions
    <3> QED BY <3>1, InitTotals DEF KindTotal
  <2>2. KindInHand(kind) = 0
    BY DEF Init, Quiet, KindInHand, InHand
  <2>3. CountIn(kind, handling) = 0 /\ CountIn(kind, queue) = 0
    BY CountNone DEF Init
  <2>4. written[kind] = 0 /\ abandoned[kind] = 0
    BY DEF Init, RepliesAndQuotes, PostKinds
  <2> QED BY <2>1, <2>2, <2>3, <2>4, RecordedIs
<1> QED BY <1>1, <1>2, RecordedSuffices DEF KindsInvariant

LEMMA RecordedStep ==
    ASSUME RecordsInvariant, HistoriesTyped, NEW kind \in RepliesAndQuotes,
           Recorded(kind), [Next]_vars
    PROVE  Recorded(kind)'
<1>1. CASE \E message \in Messages : Handle(message)
  BY <1>1, RecordedAfterHandle
<1>2. CASE RequestRecording
  BY <1>2, RecordedAfterRequest
<1>3. CASE LoadAccount
  BY <1>3, RecordedAfterLoad
<1>4. CASE Malformed
  BY <1>4, RecordedAfterMalformed
<1>5. CASE \E did \in Dids : LookUp(did)
  BY <1>5, RecordedAfterLookUp
<1>6. CASE TakeEvent
  BY <1>6, RecordedAfterTake
<1>7. CASE Interact
  BY <1>7, RecordedAfterInteract
<1>8. CASE FinishRecord
  BY <1>8, RecordedAfterFinish
<1>9. CASE ForceStop
  <2>1. Counts(Nothing) /\ UNCHANGED <<handling, queue, recorder, written, abandoned>>
    BY <1>9, UnchangedCounts DEF ForceStop, RecordsInvariant, histories
  <2> QED BY <2>1, RecordedAfterOthers
<1>10. CASE UNCHANGED vars
  <2>1. Counts(Nothing) /\ UNCHANGED <<handling, queue, recorder, written, abandoned>>
    BY <1>10, UnchangedCounts DEF vars, RecordsInvariant, histories
  <2> QED BY <2>1, RecordedAfterOthers
<1> QED BY <1>1, <1>2, <1>3, <1>4, <1>5, <1>6, <1>7, <1>8, <1>9, <1>10 DEF Next

LEMMA KindsStep == ASSUME KindsInvariant, [Next]_vars PROVE KindsInvariant'
<1>1. RecordsInvariant' /\ HistoriesTyped'
  BY RecordsStep, HistoriesStep DEF KindsInvariant
<1>2. \A kind \in RepliesAndQuotes : Recorded(kind)'
  BY RecordedStep, RecordedSuffices DEF KindsInvariant
<1> QED BY <1>1, <1>2, RecordedSuffices DEF KindsInvariant

LEMMA KindsHold == Spec => []KindsInvariant
BY KindsInit, KindsStep, PTL DEF Spec

-----------------------------------------------------------------------------
\* Each interaction is counted on both sides, once, whatever is evicted or
\* looked up while it is being recorded (account_events.cpp).
THEOREM InteractionsAreBalanced == Spec => []InteractionsBalance
<1>1. RecordsInvariant => InteractionsBalance
  BY DEF RecordsInvariant
<1> QED BY <1>1, RecordsHold, PTL

\* An account is flagged each time a doubling counter reaches its factor,
\* twice that, four times that, and never else (alert_needed).
THEOREM AlertsAreExplained == Spec => []AlertsExplained
<1>1. RecordsInvariant => AlertsExplained
  BY DEF RecordsInvariant, AllSound, Sound, AlertsExplained
<1> QED BY <1>1, RecordsHold, PTL

\* Content is never credited with more than its account, however often it
\* is evicted and comes back (account::get_content_item).
THEOREM ContentStaysWithinAccount == Spec => []ContentWithinAccount
<1>1. RecordsInvariant => ContentWithinAccount
  BY DEF RecordsInvariant, AllSound, Sound, ContentWithinAccount
<1> QED BY <1>1, RecordsHold, PTL

\* Each post counts once for its author as a reply, as a quote or as both,
\* whatever its message has besides, and although a message may be
\* abandoned half way (firehose_payload::handle_content, event_cache::record).
THEOREM RepliesAndQuotesAreCounted == Spec => []RepliesAndQuotesCounted
<1>1. KindsInvariant => RepliesAndQuotesCounted
  BY DEF KindsInvariant
<1> QED BY <1>1, KindsHold, PTL

\* Every account and its content are in bounds, the caches hold no more than
\* they may, and the recorder holds an account of whom its event is.
THEOREM ActivityTyped == Spec => []TypeOK
<1>1. ASSUME KindsInvariant PROVE TypeOK
  <2>1. AccountsTyped
    BY <1>1 DEF KindsInvariant, RecordsInvariant, AllSound, IsList, Sound, AccountsTyped
  <2> QED BY <1>1, <2>1 DEF KindsInvariant, RecordsInvariant, HistoriesTyped, TypeOK
<1> QED BY <1>1, KindsHold, PTL
=============================================================================
