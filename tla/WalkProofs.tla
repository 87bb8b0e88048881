------------------------------ MODULE WalkProofs ------------------------------
(***************************************************************************)
(* Least elements and induction, stated over sets of numbers; sequences    *)
(* that gain or lose an element; and what they say of the walks of Walks.  *)
(***************************************************************************)
EXTENDS Walks, FiniteSetTheorems, TLAPS

\* Every set of numbers has a least one.
LEMMA LeastNumber ==
  ASSUME NEW T, T \subseteq Nat, T # {}
  PROVE  \E x \in T : \A y \in T : x <= y
<1>1. IsWellFoundedOn(OpToRel(<, Nat), Nat)
  BY NatLessThanWellFounded
<1>2. PICK x \in T : \A y \in T : ~ (<<y, x>> \in OpToRel(<, Nat))
  BY <1>1, WFMin
<1>3. ASSUME NEW y \in T PROVE x <= y
  <2>1. ~ (<<y, x>> \in OpToRel(<, Nat))
    BY <1>2
  <2>2. y \in Nat /\ x \in Nat
    OBVIOUS
  <2>3. y < x => <<y, x>> \in OpToRel(<, Nat)
    BY <2>2, Zenon DEF OpToRel
  <2>4. ~ (y < x)
    BY <2>1, <2>3, Zenon
  <2>5. QED
    BY <2>2, <2>4
<1>4. QED
  BY <1>3

\* Induction, over a set in place of a predicate.
LEMMA InductionOverNat ==
  ASSUME NEW S, 0 \in S, \A n \in Nat : n \in S => n + 1 \in S
  PROVE  Nat \subseteq S
<1>1. SUFFICES ASSUME Nat \ S # {} PROVE FALSE
  OBVIOUS
<1>2. PICK x \in Nat \ S : \A y \in Nat \ S : x <= y
  BY <1>1, LeastNumber
<1>3. x # 0 /\ x - 1 \in Nat
  BY <1>2
<1>4. x - 1 \in S
  BY <1>2, <1>3
<1>5. QED
  BY <1>2, <1>3, <1>4

-----------------------------------------------------------------------------
(* Sequences in which each element occurs once *)

\* A sequence with one more element at its head.
LEMMA Cons ==
  ASSUME NEW S, NEW s \in Seq(S), NEW b \in S
  PROVE  /\ <<b>> \o s \in Seq(S)
         /\ Len(<<b>> \o s) = Len(s) + 1 /\ DOMAIN (<<b>> \o s) = 1 .. Len(s) + 1
         /\ (<<b>> \o s)[1] = b
         /\ \A k \in DOMAIN s : (<<b>> \o s)[k + 1] = s[k]
         /\ Elements(<<b>> \o s) = Elements(s) \cup {b}
<1>. DEFINE t == <<b>> \o s
<1>1. /\ t \in Seq(S) /\ Len(t) = Len(s) + 1 /\ Len(s) \in Nat
      /\ DOMAIN t = 1 .. Len(s) + 1 /\ DOMAIN s = 1 .. Len(s)
      /\ t[1] = b
      /\ \A k \in DOMAIN s : t[k + 1] = s[k]
  OBVIOUS
<1>. HIDE DEF t
<1>2. \A k \in DOMAIN t : k = 1 \/ (k - 1 \in DOMAIN s /\ t[k] = s[k - 1])
  BY <1>1
<1>3. \A k \in DOMAIN s : k + 1 \in DOMAIN t
  BY <1>1
<1>4. Elements(t) = Elements(s) \cup {b}
  <2>1. ASSUME NEW k \in DOMAIN t PROVE t[k] \in Elements(s) \cup {b}
    BY <1>1, <1>2 DEF Elements
  <2>2. ASSUME NEW k \in DOMAIN s PROVE s[k] \in Elements(t)
    BY <1>1, <1>3 DEF Elements
  <2>3. b \in Elements(t)
    <3>1. 1 \in DOMAIN t
      BY <1>1
    <3>2. QED
      BY <1>1, <3>1 DEF Elements
  <2>4. QED
    BY <2>1, <2>2, <2>3 DEF Elements
<1>5. QED
  BY <1>1, <1>4 DEF t

\* s without its element at m.
DropAt(s, m) == [j \in 1 .. Len(s) - 1 |-> IF j < m THEN s[j] ELSE s[j + 1]]

\* If each element occurred once, all the others are left, once.
LEMMA DropAtElements ==
  ASSUME NEW S, NEW s \in Seq(S), \A j, k \in DOMAIN s : s[j] = s[k] => j = k,
         NEW m \in DOMAIN s
  PROVE  LET t == DropAt(s, m)
         IN  /\ t \in Seq(S) /\ Len(t) = Len(s) - 1 /\ DOMAIN t = 1 .. Len(s) - 1
             /\ \A j \in DOMAIN t : t[j] = IF j < m THEN s[j] ELSE s[j + 1]
             /\ \A j, k \in DOMAIN t : t[j] = t[k] => j = k
             /\ Elements(t) = Elements(s) \ {s[m]}
<1>. DEFINE t == DropAt(s, m)
<1>1. m \in 1 .. Len(s) /\ DOMAIN s = 1 .. Len(s) /\ Len(s) \in Nat
  OBVIOUS
<1>2. t \in Seq(S) /\ Len(t) = Len(s) - 1 /\ DOMAIN t = 1 .. Len(s) - 1
  <2>1. \A j \in 1 .. Len(s) - 1 : (IF j < m THEN s[j] ELSE s[j + 1]) \in S
    BY <1>1
  <2>2. QED
    BY <1>1, <2>1 DEF DropAt
<1>3. \A j \in DOMAIN t : t[j] = IF j < m THEN s[j] ELSE s[j + 1]
  BY <1>2 DEF DropAt
<1>. HIDE DEF t
<1>4. \A j, k \in DOMAIN t : t[j] = t[k] => j = k
  <2>. DEFINE at(j) == IF j < m THEN j ELSE j + 1
  <2>1. TAKE j, k \in DOMAIN t
  <2>2. HAVE t[j] = t[k]
  <2>3. at(j) \in DOMAIN s /\ at(k) \in DOMAIN s
    BY <1>1, <1>2
  <2>4. t[j] = s[at(j)] /\ t[k] = s[at(k)]
    BY <1>3
  <2>5. at(j) = at(k)
    BY <2>2, <2>3, <2>4
  <2>6. QED
    BY <1>1, <1>2, <2>5
<1>5. ASSUME NEW j \in DOMAIN t PROVE t[j] \in Elements(s) \ {s[m]}
  BY <1>1, <1>2, <1>3 DEF Elements
<1>6. ASSUME NEW k \in DOMAIN s, s[k] # s[m] PROVE s[k] \in Elements(t)
  <2>1. CASE k < m
    <3>1. k \in DOMAIN t /\ t[k] = s[k]
      BY <1>1, <1>2, <1>3, <2>1
    <3>2. QED
      BY <3>1 DEF Elements
  <2>2. CASE k > m
    <3>1. k - 1 \in DOMAIN t /\ t[k - 1] = s[k]
      BY <1>1, <1>2, <1>3, <2>2
    <3>2. QED
      BY <3>1 DEF Elements
  <2>3. QED
    BY <1>1, <1>6, <2>1, <2>2
<1>7. Elements(t) = Elements(s) \ {s[m]}
  <2>1. Elements(t) \subseteq Elements(s) \ {s[m]}
    BY <1>5 DEF Elements
  <2>2. Elements(s) \ {s[m]} \subseteq Elements(t)
    BY <1>6 DEF Elements
  <2>3. QED
    BY <2>1, <2>2
<1>8. QED
  BY <1>2, <1>3, <1>4, <1>7 DEF t

-----------------------------------------------------------------------------
(* Follow *)

First(p) == IF p = NULL THEN << >> ELSE <<p>>

\* walk has what a loop from p along next has met after 0, 1, ..., n turns.
Turns(walk, next, p, n) ==
  walk = [k \in 0 .. n |-> IF k = 0 THEN First(p) ELSE Extend(next, walk[k - 1])]

\* There is a function of the turns of a loop: what each turn has met is
\* determined by what the turn before has.
LEMMA TurnsExist ==
  ASSUME NEW next, NEW p, NEW limit \in Nat
  PROVE  \E walk : Turns(walk, next, p, limit)
<1>. DEFINE S == {n \in Nat : \E walk : Turns(walk, next, p, n)}
<1>1. 0 \in S
  <2>. DEFINE w == [k \in 0 .. 0 |-> First(p)]
  <2>1. Turns(w, next, p, 0)
    <3>1. \A k \in 0 .. 0 : k = 0
      OBVIOUS
    <3>2. QED
      BY <3>1, Zenon DEF Turns
  <2>2. QED
    BY <2>1
<1>2. ASSUME NEW n \in Nat, n \in S PROVE n + 1 \in S
  <2>1. PICK v : Turns(v, next, p, n)
    BY <1>2
  <2>. DEFINE w == [k \in 0 .. n + 1 |-> IF k = n + 1 THEN Extend(next, v[n]) ELSE v[k]]
              R(k) == IF k = 0 THEN First(p) ELSE Extend(next, w[k - 1])
  <2>2. ASSUME NEW k \in 0 .. n + 1 PROVE w[k] = R(k)
    <3>1. CASE k = n + 1
      <4>1. k - 1 = n /\ n \in 0 .. n + 1 /\ n # n + 1 /\ k # 0
        BY <3>1
      <4>2. w[n] = v[n] /\ w[k] = Extend(next, v[n])
        BY <3>1, <4>1
      <4>3. QED
        BY <4>1, <4>2
    <3>2. CASE k # n + 1 /\ k # 0
      <4>1. k \in 0 .. n /\ k - 1 \in 0 .. n + 1 /\ k - 1 # n + 1
        BY <3>2
      <4>2. v[k] = Extend(next, v[k - 1])
        BY <2>1, <3>2, <4>1 DEF Turns
      <4>3. w[k] = v[k] /\ w[k - 1] = v[k - 1]
        BY <3>2, <4>1
      <4>4. QED
        BY <3>2, <4>2, <4>3
    <3>3. CASE k = 0
      <4>1. 0 \in 0 .. n /\ 0 # n + 1
        OBVIOUS
      <4>2. v[0] = First(p)
        BY <2>1, <4>1 DEF Turns
      <4>3. QED
        BY <3>3, <4>1, <4>2
    <3>4. QED
      BY <3>1, <3>2, <3>3
  <2>3. w = [k \in 0 .. n + 1 |-> R(k)]
    <3>1. w = [k \in 0 .. n + 1 |-> w[k]]
      OBVIOUS
    <3>. HIDE DEF w
    <3>2. QED
      BY <2>2, <3>1
  <2>. HIDE DEF w
  <2>4. Turns(w, next, p, n + 1)
    BY <2>3 DEF Turns
  <2>5. QED
    BY <2>4
<1>3. Nat \subseteq S
  <2>. HIDE DEF S
  <2>1. QED
    BY <1>1, <1>2, InductionOverNat
<1>4. QED
  BY <1>3

\* Follow is what its loop has met after "limit" turns.
LEMMA FollowTurns ==
  ASSUME NEW next, NEW p, NEW limit \in Nat
  PROVE  \E walk : /\ walk[0] = First(p)
                   /\ \A n \in 0 .. limit - 1 : walk[n + 1] = Extend(next, walk[n])
                   /\ Follow(next, p, limit) = walk[limit]
<1>. DEFINE w == CHOOSE walk : Turns(walk, next, p, limit)
<1>1. Turns(w, next, p, limit)
  BY TurnsExist
<1>2. Follow(next, p, limit) = w[limit]
  BY DEF Follow, Turns, First
<1>. HIDE DEF w
<1>3. w[0] = First(p)
  BY <1>1 DEF Turns
<1>4. ASSUME NEW n \in 0 .. limit - 1 PROVE w[n + 1] = Extend(next, w[n])
  <2>1. n + 1 \in 0 .. limit /\ n + 1 # 0 /\ (n + 1) - 1 = n
    OBVIOUS
  <2>2. QED
    BY <1>1, <2>1 DEF Turns
<1>5. QED
  BY <1>2, <1>3, <1>4

\* What holds of the start of a loop, and of what its turns make of it, holds
\* of Follow.
LEMMA FollowInduction ==
  ASSUME NEW next, NEW p, NEW limit \in Nat, NEW T,
         First(p) \in T, \A s \in T : Extend(next, s) \in T
  PROVE  Follow(next, p, limit) \in T
<1>1. PICK walk : /\ walk[0] = First(p)
                  /\ \A n \in 0 .. limit - 1 : walk[n + 1] = Extend(next, walk[n])
                  /\ Follow(next, p, limit) = walk[limit]
  BY FollowTurns
<1>. DEFINE S == {n \in Nat : n <= limit => walk[n] \in T}
<1>2. 0 \in S
  BY <1>1
<1>3. ASSUME NEW n \in Nat, n \in S PROVE n + 1 \in S
  <2>1. SUFFICES ASSUME n + 1 <= limit PROVE walk[n + 1] \in T
    OBVIOUS
  <2>2. n \in 0 .. limit - 1 /\ walk[n] \in T
    BY <1>3, <2>1
  <2>3. QED
    BY <1>1, <2>2
<1>4. Nat \subseteq S
  <2>. HIDE DEF S
  <2>1. QED
    BY <1>2, <1>3, InductionOverNat
<1>5. QED
  BY <1>1, <1>4

\* s is a path along next from p on, within W, that meets no element twice.
Path(next, p, W, s) ==
  /\ s \in Seq(W) /\ s # << >> /\ s[1] = p
  /\ \A j, k \in DOMAIN s : s[j] = s[k] => j = k
  /\ \A k \in DOMAIN s : k + 1 \in DOMAIN s => s[k] \in DOMAIN next /\ s[k + 1] = next[s[k]]

\* Within W, a turn leaves a path, as it was or longer by one.
LEMMA ExtendPath ==
  ASSUME NEW next, NEW p, NEW W, NEW s, Path(next, p, W, s),
         \A b \in W \cap DOMAIN next : next[b] \in W \cup {NULL}
  PROVE  /\ Path(next, p, W, Extend(next, s))
         /\ \/ Extend(next, s) = s
            \/ /\ s[Len(s)] \in DOMAIN next /\ next[s[Len(s)]] \in W
               /\ Extend(next, s) = Append(s, next[s[Len(s)]])
               /\ Len(Extend(next, s)) = Len(s) + 1
<1>. DEFINE x == next[s[Len(s)]]
            t == Append(s, x)
<1>1. /\ s \in Seq(W) /\ s # << >> /\ Len(s) \in Nat /\ DOMAIN s = 1 .. Len(s)
      /\ Len(s) \in DOMAIN s /\ s[Len(s)] \in W
  BY DEF Path
<1>2. CASE Extend(next, s) = s
  BY <1>2
<1>3. CASE Extend(next, s) # s
  <2>1. s[Len(s)] \in DOMAIN next /\ x # NULL /\ x \notin Elements(s) /\ Extend(next, s) = t
    BY <1>3 DEF Extend
  <2>2. x \in W
    BY <1>1, <2>1
  <2>. HIDE DEF x
  <2>3. /\ t \in Seq(W) /\ Len(t) = Len(s) + 1 /\ DOMAIN t = 1 .. Len(s) + 1 /\ t # << >>
        /\ t[Len(s) + 1] = x /\ \A k \in DOMAIN s : t[k] = s[k]
    BY <1>1, <2>2
  <2>. HIDE DEF t
  <2>4. \A k \in DOMAIN t : k \in DOMAIN s \/ k = Len(s) + 1
    BY <1>1, <2>3
  <2>5. t[1] = p
    BY <1>1, <2>3 DEF Path
  <2>6. \A k \in DOMAIN s : s[k] # x
    BY <2>1 DEF Elements
  <2>7. \A j, k \in DOMAIN t : t[j] = t[k] => j = k
    BY <2>3, <2>4, <2>6 DEF Path
  <2>8. ASSUME NEW k \in DOMAIN t, k + 1 \in DOMAIN t
        PROVE  t[k] \in DOMAIN next /\ t[k + 1] = next[t[k]]
    <3>1. CASE k + 1 \in DOMAIN s
      <4>1. k \in DOMAIN s
        BY <1>1, <2>3, <2>4, <2>8, <3>1
      <4>2. QED
        BY <2>3, <3>1, <4>1 DEF Path
    <3>2. CASE k + 1 = Len(s) + 1
      <4>1. k = Len(s) /\ k \in DOMAIN s
        BY <1>1, <2>3, <3>2
      <4>2. QED
        BY <2>1, <2>3, <3>2, <4>1 DEF x
    <3>3. QED
      BY <2>4, <2>8, <3>1, <3>2
  <2>9. Path(next, p, W, t)
    BY <2>3, <2>5, <2>7, <2>8 DEF Path
  <2>10. QED
    BY <2>1, <2>2, <2>3, <2>9 DEF x, t
<1>4. QED
  BY <1>2, <1>3

\* With as many turns as W has elements, a loop within W meets its end.
LEMMA FollowEnds ==
  ASSUME NEW next, NEW W, IsFiniteSet(W), NEW p \in W, p # NULL,
         \A b \in W \cap DOMAIN next : next[b] \in W \cup {NULL},
         NEW limit \in Nat, Cardinality(W) <= limit
  PROVE  LET s == Follow(next, p, limit)
         IN  Path(next, p, W, s) /\ Extend(next, s) = s
<1>1. PICK walk : /\ walk[0] = First(p)
                  /\ \A n \in 0 .. limit - 1 : walk[n + 1] = Extend(next, walk[n])
                  /\ Follow(next, p, limit) = walk[limit]
  BY FollowTurns
<1>. DEFINE Good(n) == /\ Path(next, p, W, walk[n])
                       /\ Len(walk[n]) = n + 1 \/ Extend(next, walk[n]) = walk[n]
            S       == {n \in Nat : n <= limit => Good(n)}
<1>2. 0 \in S
  <2>1. walk[0] = <<p>>
    BY <1>1 DEF First
  <2>2. Path(next, p, W, <<p>>) /\ Len(<<p>>) = 1
    BY DEF Path
  <2>3. QED
    BY <2>1, <2>2
<1>3. ASSUME NEW n \in Nat, n \in S PROVE n + 1 \in S
  <2>1. SUFFICES ASSUME n + 1 <= limit PROVE Good(n + 1)
    OBVIOUS
  <2>2. n \in 0 .. limit - 1 /\ Good(n)
    BY <1>3, <2>1
  <2>3. walk[n + 1] = Extend(next, walk[n])
    BY <1>1, <2>2
  <2>4. CASE Extend(next, walk[n]) = walk[n]
    BY <2>2, <2>3, <2>4
  <2>5. CASE Extend(next, walk[n]) # walk[n]
    <3>1. Len(walk[n]) = n + 1
      BY <2>2, <2>5
    <3>2. Path(next, p, W, walk[n + 1]) /\ Len(walk[n + 1]) = Len(walk[n]) + 1
      BY <2>2, <2>3, <2>5, ExtendPath
    <3>3. Len(walk[n + 1]) = (n + 1) + 1
      BY <3>1, <3>2
    <3>4. QED
      BY <3>2, <3>3
  <2>6. QED
    BY <2>4, <2>5
<1>4. Nat \subseteq S
  <2>. HIDE DEF S
  <2>1. QED
    BY <1>2, <1>3, InductionOverNat
<1>. DEFINE s == walk[limit]
<1>5. Good(limit)
  BY <1>4
<1>6. Len(s) # limit + 1
  <2>1. SUFFICES ASSUME Len(s) = limit + 1 PROVE FALSE
    OBVIOUS
  <2>2. s \in [1 .. limit + 1 -> W] /\ \A j, k \in 1 .. limit + 1 : s[j] = s[k] => j = k
    BY <1>5, <2>1 DEF Path
  <2>3. IsFiniteSet(1 .. limit + 1) /\ Cardinality(1 .. limit + 1) = limit + 1
    BY FS_Interval
  <2>4. Cardinality(W) \in Nat
    BY FS_CardinalityType
  <2>5. Cardinality(W) < Cardinality(1 .. limit + 1)
    BY <2>3, <2>4
  <2>. HIDE DEF s
  <2>6. \E j, k \in 1 .. limit + 1 : j # k /\ s[j] = s[k]
    BY <2>2, <2>3, <2>5, FS_PigeonHole
  <2>7. QED
    BY <2>2, <2>6
<1>7. QED
  BY <1>1, <1>5, <1>6

\* A loop upwards in memory, in which every element but the first follows
\* another, meets every element once, in order.
LEMMA FollowMeets ==
  ASSUME NEW next, NEW W, W \subseteq Nat \ {NULL}, IsFiniteSet(W), W \subseteq DOMAIN next,
         \A b \in W : next[b] = NULL \/ (next[b] \in W /\ b < next[b]),
         NEW p \in W, \A b \in W \ {p} : \E a \in W : next[a] = b,
         NEW limit \in Nat, Cardinality(W) <= limit
  PROVE  LET s == Follow(next, p, limit)
         IN  /\ s \in Seq(W) /\ s # << >>
             /\ Path(next, p, W, s) /\ Elements(s) = W
             /\ \A j, k \in DOMAIN s : j < k => s[j] < s[k]
             /\ \A k \in DOMAIN s \ {1} : s[k - 1] < s[k]
             /\ next[s[Len(s)]] = NULL
<1>. DEFINE s == Follow(next, p, limit)
            T == {t \in Seq(W) : /\ Path(next, p, W, t)
                                 /\ \A j, k \in DOMAIN t : j < k => t[j] < t[k]}
<1>1. \A b \in W \cap DOMAIN next : next[b] \in W \cup {NULL}
  OBVIOUS
<1>2. Path(next, p, W, s) /\ Extend(next, s) = s
  BY <1>1, FollowEnds
<1>3. s \in T
  <2>1. First(p) \in T
    BY DEF First, Path
  <2>2. ASSUME NEW t \in T PROVE Extend(next, t) \in T
    <3>. DEFINE u == Extend(next, t)
                x == next[t[Len(t)]]
    <3>1. /\ Path(next, p, W, u)
          /\ \/ u = t
             \/ t[Len(t)] \in DOMAIN next /\ x \in W /\ u = Append(t, x)
      BY <1>1, ExtendPath
    <3>2. CASE u = t
      BY <3>2
    <3>3. CASE x \in W /\ u = Append(t, x)
      <4>1. /\ t \in Seq(W) /\ Len(t) \in Nat /\ DOMAIN t = 1 .. Len(t) /\ Len(t) \in DOMAIN t
            /\ t[Len(t)] \in W
        BY DEF Path
      <4>2. t[Len(t)] < x
        <5>1. x # NULL
          BY <3>3
        <5>2. QED
          BY <4>1, <5>1
      <4>. HIDE DEF x
      <4>3. /\ DOMAIN u = 1 .. Len(t) + 1 /\ u[Len(t) + 1] = x
            /\ \A k \in DOMAIN t : u[k] = t[k]
        BY <3>3, <4>1
      <4>. HIDE DEF u
      <4>4. \A j \in DOMAIN t : t[j] \in Nat /\ t[j] <= t[Len(t)]
        BY <4>1
      <4>5. x \in Nat /\ \A j \in DOMAIN t : t[j] < x
        BY <3>3, <4>1, <4>2, <4>4
      <4>6. ASSUME NEW j \in DOMAIN u, NEW k \in DOMAIN u, j < k PROVE u[j] < u[k]
        <5>1. j \in DOMAIN t
          BY <4>1, <4>3, <4>6
        <5>2. CASE k \in DOMAIN t
          BY <4>3, <4>6, <5>1, <5>2
        <5>3. CASE k = Len(t) + 1
          BY <4>3, <4>5, <5>1, <5>3
        <5>4. QED
          BY <4>1, <4>3, <5>2, <5>3
      <4>7. u \in Seq(W)
        BY <3>1 DEF Path
      <4>8. QED
        BY <3>1, <4>6, <4>7 DEF u
    <3>4. QED
      BY <3>1, <3>2, <3>3
  <2>. HIDE DEF T
  <2>3. QED
    BY <2>1, <2>2, FollowInduction
<1>. HIDE DEF s
<1>4. /\ s \in Seq(W) /\ s # << >> /\ s[1] = p
      /\ Len(s) \in DOMAIN s /\ DOMAIN s = 1 .. Len(s) /\ Len(s) \in Nat
      /\ s[Len(s)] \in W
      /\ \A j, k \in DOMAIN s : j < k => s[j] < s[k]
  BY <1>3 DEF Path
<1>5. next[s[Len(s)]] = NULL
  <2>. DEFINE x == next[s[Len(s)]]
  <2>1. SUFFICES ASSUME x # NULL PROVE FALSE
    OBVIOUS
  <2>2. x \in W /\ s[Len(s)] < x
    BY <1>4, <2>1
  <2>3. x \notin Elements(s)
    <3>1. \A k \in DOMAIN s : s[k] \in Nat /\ s[k] <= s[Len(s)]
      BY <1>4
    <3>2. \A k \in DOMAIN s : s[k] # x
      BY <1>4, <2>2, <3>1
    <3>3. QED
      BY <3>2 DEF Elements
  <2>4. Extend(next, s) = Append(s, x)
    BY <1>4, <2>1, <2>3 DEF Extend
  <2>. HIDE DEF x
  <2>5. Len(Append(s, x)) = Len(s) + 1
    BY <1>4
  <2>6. QED
    BY <1>2, <1>4, <2>4, <2>5
<1>6. Elements(s) = W
  <2>1. Elements(s) \subseteq W
    BY <1>4 DEF Elements
  <2>2. SUFFICES ASSUME W \ Elements(s) # {} PROVE FALSE
    BY <2>1
  <2>3. PICK b \in W \ Elements(s) : \A c \in W \ Elements(s) : b <= c
    BY <2>2, LeastNumber
  <2>4. b # p
    BY <1>4 DEF Elements
  <2>5. PICK a \in W : next[a] = b
    BY <2>3, <2>4
  <2>6. a < b
    BY <2>3, <2>5
  <2>7. a \in Elements(s)
    BY <2>3, <2>5, <2>6
  <2>8. PICK k \in DOMAIN s : s[k] = a
    BY <2>7 DEF Elements
  <2>9. CASE k = Len(s)
    BY <1>5, <2>3, <2>5, <2>8, <2>9
  <2>10. CASE k # Len(s)
    <3>1. k + 1 \in DOMAIN s
      BY <1>4, <2>10
    <3>2. s[k + 1] = b
      BY <1>2, <2>5, <2>8, <3>1 DEF Path
    <3>3. QED
      BY <2>3, <3>1, <3>2 DEF Elements
  <2>11. QED
    BY <2>9, <2>10
<1>7. \A k \in DOMAIN s \ {1} : s[k - 1] < s[k]
  BY <1>4
<1>8. QED
  BY <1>2, <1>4, <1>5, <1>6, <1>7 DEF s
=============================================================================
