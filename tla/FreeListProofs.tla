--------------------------- MODULE FreeListProofs ----------------------------
(***************************************************************************)
(* Proofs about FreeListLinks: every link fits in its 32 bits whatever the *)
(* distances are, and the loop of remove_from_free_list keeps the block    *)
(* whose link leads to where it is.                                        *)
(***************************************************************************)
EXTENDS FreeListLinks, WalkProofs

\* calculate_index is the index of a list.
LEMMA IndexOfList ==
  ASSUME NEW n \in Nat
  PROVE  calculate_index(n) \in Lists
BY ListsAssumption, SMT DEF calculate_index, kAlignment, Lists

\* What the conversion to int32_t yields is an int32_t.
LEMMA OffsetFits ==
  ASSUME NEW d \in Int
  PROVE  AsOffset(d) \in -OffsetLimit .. OffsetLimit - 1
<1>. DEFINE n == 2 * OffsetLimit
            e == d + OffsetLimit
<1>1. n \in Nat \ {0} /\ e \in Int
  BY OffsetAssumption
<1>2. e % n \in 0 .. n - 1
  <2>. HIDE DEF n, e
  <2>. QED BY <1>1
<1>3. n = 2 * OffsetLimit /\ OffsetLimit \in Int
  BY OffsetAssumption
<1>4. AsOffset(d) = (e % n) - OffsetLimit
  BY DEF AsOffset
<1>. HIDE DEF n, e
<1>. QED BY <1>2, <1>3, <1>4

\* A link set by set_next_off leaves all links in their range.
LEMMA LinksFit ==
  ASSUME NEW links \in [Blocks -> -OffsetLimit .. OffsetLimit - 1],
         NEW from \in Blocks, NEW to \in Int
  PROVE  set_next_off(links, from, to) \in [Blocks -> -OffsetLimit .. OffsetLimit - 1]
<1>1. offset_to(from, to) \in -OffsetLimit .. OffsetLimit - 1
  <2>1. CASE to = NULL
    BY <2>1, OffsetAssumption DEF offset_to
  <2>2. CASE to # NULL
    <3>1. to - from \in Int
      BY <2>2, BlocksAssumption
    <3>. QED BY <3>1, <2>2, OffsetFits DEF offset_to
  <2>. QED BY <2>1, <2>2
<1>. QED BY <1>1 DEF set_next_off

-----------------------------------------------------------------------------
(* The place of the walk *)

\* No block is at address 0, so a link of 0 is told from a link to a block.
NullIsNoBlock == NULL \notin Blocks

\* The addresses of the blocks are above NULL.
LEMMA NoBlockAtNull == NullIsNoBlock
BY BlocksAssumption DEF NullIsNoBlock

\* While remove_from_free_list runs, no link and no head is written before its
\* loop has ended: a turn moves prev and curr along together.
LEMMA PlaceKept == WalkKeepsPlace /\ [Next]_vars => WalkKeepsPlace'
<1> SUFFICES ASSUME WalkKeepsPlace, [Next]_vars
             PROVE  WalkKeepsPlace'
  OBVIOUS
<1>1. ASSUME NEW b \in Blocks, NEW n \in BlockSizes, put(b, n)
      PROVE  WalkKeepsPlace'
  BY <1>1 DEF put, WalkKeepsPlace
<1>2. ASSUME NEW b \in Blocks, remove_from_free_list(b)
      PROVE  WalkKeepsPlace'
  BY <1>2 DEF remove_from_free_list, WalkKeepsPlace, memory
<1>3. ASSUME NEW n \in Totals, NEW first, search(n, first)
      PROVE  WalkKeepsPlace'
  BY <1>3 DEF search, WalkKeepsPlace
<1>4. CASE remove_turn
  BY <1>4, NoBlockAtNull
     DEF remove_turn, WalkKeepsPlace, memory, get_next_through_off, next_of, NullIsNoBlock
<1>5. CASE remove_returns
  BY <1>5 DEF remove_returns, WalkKeepsPlace
<1>6. CASE list_fit_turn
  BY <1>6 DEF list_fit_turn, WalkKeepsPlace
<1>7. CASE next_list
  BY <1>7 DEF next_list, WalkKeepsPlace
<1>8. CASE search_returns
  BY <1>8 DEF search_returns, WalkKeepsPlace
<1>9. CASE UNCHANGED vars
  BY <1>9 DEF vars, memory, locals, WalkKeepsPlace, get_next_through_off, next_of
<1>. QED
  BY <1>1, <1>2, <1>3, <1>4, <1>5, <1>6, <1>7, <1>8, <1>9 DEF Next, turn

\* The link that remove_from_free_list changes is the one it came along.
THEOREM PlaceOfWalk == Spec => []WalkKeepsPlace
<1>1. Init => WalkKeepsPlace
  BY DEF Init, WalkKeepsPlace
<1>. QED BY <1>1, PlaceKept, PTL DEF Spec

-----------------------------------------------------------------------------
(* Types *)

\* The program starts with empty lists and links of 0: all in their types.
LEMMA InitTyped == Init => LinksTypeOK
<1>1. 0 \in Lists /\ 0 \in -OffsetLimit .. OffsetLimit - 1
  BY ListsAssumption, OffsetAssumption DEF Lists
<1> SUFFICES ASSUME Init
             PROVE  LinksTypeOK
  OBVIOUS
<1>2. free_lists \in [Lists -> Int] /\ curr \in Int
  BY DEF Init, NULL
<1>3. next_offset \in [Blocks -> -OffsetLimit .. OffsetLimit - 1]
  BY <1>1 DEF Init
<1>4. cut \in BOOLEAN /\ listed \subseteq Blocks /\ pc = "client"
  BY DEF Init
<1>5. index \in Lists /\ {prev, block, best, found} \subseteq Blocks \cup {NULL} /\ total = 0
  BY <1>1 DEF Init
<1>. QED BY <1>2, <1>3, <1>4, <1>5 DEF Init, LinksTypeOK

\* Addresses are numbers.
BlocksAreInts == Blocks \cup {NULL} \subseteq Int

\* Blocks and NULL are numbers.
LEMMA BlocksTyped == BlocksAreInts
BY BlocksAssumption DEF BlocksAreInts, NULL

\* get_next_through_off returns a number, whatever the link is.
LEMMA NextIsInt ==
  ASSUME LinksTypeOK, NEW b \in Blocks
  PROVE  get_next_through_off(b) \in Int
<1>1. next_offset[b] \in Int /\ b \in Int
  BY BlocksAssumption, OffsetAssumption DEF LinksTypeOK
<1>. QED BY <1>1 DEF get_next_through_off, next_of, NULL

\* The statements of remove_from_free_list after its loop keep the types.
LEMMA RemoveReturnsTyped == LinksTypeOK /\ remove_returns => LinksTypeOK'
<1> SUFFICES ASSUME LinksTypeOK, remove_returns
             PROVE  LinksTypeOK'
  OBVIOUS
<1>0. 0 \in Lists
  BY ListsAssumption DEF Lists
<1>1. CASE UNCHANGED <<free_lists, next_offset, cut>>
  BY <1>0, <1>1 DEF remove_returns, LinksTypeOK, NULL
<1>2. CASE curr = block /\ unlink(get_next_through_off(block)) /\ block \in Blocks
  <2>. DEFINE next == get_next_through_off(block)
  <2>1. next \in Int
    BY <1>2, NextIsInt
  <2>2. NULL \in Int
    BY DEF NULL
  <2>. HIDE DEF next
  <2>3. CASE /\ prev # NULL
             /\ next_offset' = set_next_off(set_next_off(next_offset, prev, next), block, NULL)
             /\ cut' = TooFar(prev, next)
             /\ UNCHANGED free_lists
    <3>1. prev \in Blocks
      BY <2>3 DEF LinksTypeOK
    <3>2. set_next_off(next_offset, prev, next) \in [Blocks -> -OffsetLimit .. OffsetLimit - 1]
      BY <2>1, <3>1, LinksFit DEF LinksTypeOK
    <3>3. next_offset' \in [Blocks -> -OffsetLimit .. OffsetLimit - 1]
      BY <1>2, <2>2, <2>3, <3>2, LinksFit
    <3>4. cut' \in BOOLEAN
      BY <2>3 DEF TooFar
    <3>. QED BY <1>0, <2>3, <3>3, <3>4 DEF remove_returns, LinksTypeOK, NULL
  <2>4. CASE /\ prev = NULL
             /\ free_lists' = [free_lists EXCEPT ![index] = next]
             /\ next_offset' = set_next_off(next_offset, block, NULL)
             /\ cut' = FALSE
    <3>1. next_offset' \in [Blocks -> -OffsetLimit .. OffsetLimit - 1]
      BY <1>2, <2>2, <2>4, LinksFit DEF LinksTypeOK
    <3>2. free_lists' \in [Lists -> Int]
      BY <2>1, <2>4 DEF LinksTypeOK
    <3>3. cut' \in BOOLEAN
      BY <2>4
    <3>. QED BY <1>0, <3>1, <3>2, <3>3 DEF remove_returns, LinksTypeOK, NULL
  <2>. QED BY <1>2, <2>3, <2>4 DEF unlink, next
<1>. QED BY <1>1, <1>2 DEF remove_returns, LinksTypeOK

\* What get_next_through_off leads to is an address, a block only where a list
\* is spelled: the loops stop where no block is.
LEMMA TypesKept == LinksTypeOK /\ [Next]_vars => LinksTypeOK'
<1> SUFFICES ASSUME LinksTypeOK, [Next]_vars
             PROVE  LinksTypeOK'
  OBVIOUS
<1>0. 0 \in Lists /\ NULL \in Int
  BY ListsAssumption DEF Lists, NULL
<1>1. ASSUME NEW b \in Blocks, NEW n \in BlockSizes, put(b, n)
      PROVE  LinksTypeOK'
  <2>1. calculate_index(n) \in Lists
    BY IndexOfList, BlockSizesAssumption
  <2>2. next_offset' \in [Blocks -> -OffsetLimit .. OffsetLimit - 1]
    BY <1>1, <2>1, LinksFit DEF put, put_block_in_free_list, LinksTypeOK
  <2>3. free_lists' \in [Lists -> Int]
    BY <1>1, <2>1, BlocksTyped DEF put, put_block_in_free_list, LinksTypeOK, BlocksAreInts
  <2>4. cut' \in BOOLEAN
    BY <1>1 DEF put, TooFar
  <2>. QED BY <1>1, <2>2, <2>3, <2>4 DEF put, locals, LinksTypeOK
<1>2. ASSUME NEW b \in Blocks, remove_from_free_list(b)
      PROVE  LinksTypeOK'
  <2>1. index' \in Lists
    BY <1>2, IndexOfList, BlockSizesAssumption DEF remove_from_free_list, LinksTypeOK
  <2>. QED BY <1>2, <2>1 DEF remove_from_free_list, memory, LinksTypeOK
<1>3. ASSUME NEW n \in Totals, NEW first \in Lists, search(n, first)
      PROVE  LinksTypeOK'
  BY <1>3 DEF search, memory, LinksTypeOK
<1>4. CASE remove_turn
  BY <1>4, NextIsInt DEF remove_turn, memory, LinksTypeOK
<1>5. CASE remove_returns
  BY <1>5, RemoveReturnsTyped
<1>6. CASE list_fit_turn
  BY <1>6, NextIsInt DEF list_fit_turn, memory, LinksTypeOK
<1>7. CASE next_list
  <2>1. index' \in Lists
    BY <1>7, ListsAssumption DEF next_list, LinksTypeOK, Lists
  <2>2. curr' \in Int
    BY <1>7, <2>1 DEF next_list, LinksTypeOK
  <2>. QED BY <1>7, <2>1, <2>2 DEF next_list, memory, LinksTypeOK
<1>8. CASE search_returns
  BY <1>0, <1>8 DEF search_returns, memory, LinksTypeOK
<1>9. CASE UNCHANGED vars
  BY <1>9 DEF vars, memory, locals, LinksTypeOK
<1>10. \A n \in Totals : calculate_index(n) \in Lists /\ N_LISTS - 1 \in Lists
  BY IndexOfList, BlockSizesAssumption, ListsAssumption DEF Lists
<1>. QED
  BY <1>1, <1>2, <1>3, <1>4, <1>5, <1>6, <1>7, <1>8, <1>9, <1>10 DEF Next, turn

\* Every link is an int32_t, whatever the distance it was made of.
THEOREM LinkTypes == Spec => []LinksTypeOK
<1>. QED BY InitTyped, TypesKept, PTL DEF Spec
-----------------------------------------------------------------------------
(* Links and the sequences they spell *)

\* There are finitely many blocks, so a list without repetition is one of the
\* chains that are looked at.
LEMMA ChainsAre ==
  ASSUME NEW s
  PROVE  s \in Chains <=> /\ s \in Seq(Blocks)
                          /\ \A j, k \in DOMAIN s : s[j] = s[k] => j = k
<1>. DEFINE N == Cardinality(Blocks)
<1>1. IsFiniteSet(Blocks) /\ N \in Nat
  <2>1. Blocks \in SUBSET (0 .. MmapTop) /\ IsFiniteSet(0 .. MmapTop)
    BY BlocksAssumption, LimitsAssumption, FS_Interval
  <2>2. QED
    BY <2>1, FS_Subset, FS_CardinalityType
<1>2. ASSUME s \in Seq(Blocks), \A j, k \in DOMAIN s : s[j] = s[k] => j = k
      PROVE  s \in Chains
  <2>1. Len(s) \in Nat /\ s \in [1 .. Len(s) -> Blocks]
    BY <1>2
  <2>2. ASSUME Len(s) > N PROVE FALSE
    <3>1. IsFiniteSet(1 .. Len(s)) /\ Cardinality(1 .. Len(s)) = Len(s)
      BY <2>1, FS_Interval
    <3>2. Cardinality(Blocks) < Cardinality(1 .. Len(s))
      BY <2>2, <3>1
    <3>3. \E j, k \in 1 .. Len(s) : j # k /\ s[j] = s[k]
      BY <1>1, <2>1, <3>1, <3>2, FS_PigeonHole
    <3>4. QED
      BY <1>2, <2>1, <3>3
  <2>3. Len(s) \in 0 .. N
    BY <1>1, <2>1, <2>2
  <2>4. QED
    BY <1>2, <2>1, <2>3 DEF Chains
<1>3. ASSUME s \in Chains
      PROVE  s \in Seq(Blocks) /\ \A j, k \in DOMAIN s : s[j] = s[k] => j = k
  <2>1. PICK n \in 0 .. N : s \in [1 .. n -> Blocks]
    BY <1>3 DEF Chains
  <2>2. s \in Seq(Blocks)
    BY <1>1, <2>1
  <2>3. QED
    BY <1>3, <2>2 DEF Chains
<1>4. QED
  BY <1>2, <1>3

\* The block at the head of s, and the one after its k-th.
HeadOf(s) == IF s = << >> THEN NULL ELSE s[1]

After(s, k) == IF k = Len(s) THEN NULL ELSE s[k + 1]

\* The links lead along s.
Leads(links, s) == \A k \in DOMAIN s : next_of(s[k], links[s[k]]) = After(s, k)

Links == [Blocks -> -OffsetLimit .. OffsetLimit - 1]

\* Spells, as a statement about the sequence.
LEMMA SpellsAs ==
  ASSUME NEW s, NEW i
  PROVE  Spells(s, i) <=> free_lists[i] = HeadOf(s) /\ Leads(next_offset, s)
BY DEF Spells, HeadOf, Leads, After, get_next_through_off

\* Unless it was cut, a link set to a block leads there, and the others lead
\* where they led.
LEMMA LinkSet ==
  ASSUME NEW links \in Links, NEW from \in Blocks, NEW to \in Blocks \cup {NULL},
         to # from, ~TooFar(from, to)
  PROVE  LET g == set_next_off(links, from, to)
         IN  /\ g \in Links
             /\ next_of(from, g[from]) = to
             /\ \A b \in Blocks \ {from} : g[b] = links[b]
<1>. DEFINE g == set_next_off(links, from, to)
<1>1. to \in Int /\ from \in Int /\ NULL = 0 /\ NULL \notin Blocks
  BY BlocksAssumption DEF NULL
<1>2. g \in Links
  BY <1>1, LinksFit DEF Links
<1>3. g[from] = offset_to(from, to) /\ \A b \in Blocks \ {from} : g[b] = links[b]
  BY DEF set_next_off, Links
<1>4. CASE to = NULL
  BY <1>2, <1>3, <1>4 DEF offset_to, next_of
<1>5. CASE to # NULL
  <2>1. AsOffset(to - from) = to - from
    BY <1>5 DEF TooFar
  <2>2. g[from] = to - from
    BY <1>3, <1>5, <2>1 DEF offset_to
  <2>3. next_of(from, to - from) = to
    BY <1>1 DEF next_of
  <2>4. QED
    BY <1>2, <1>3, <2>2, <2>3
<1>6. QED
  BY <1>4, <1>5

\* Two sequences along the same links from the same head are the same one.
LEMMA SpelledOnce ==
  ASSUME NEW links, NEW s \in Seq(Blocks), Leads(links, s),
         NEW t \in Seq(Blocks), Leads(links, t), HeadOf(s) = HeadOf(t)
  PROVE  s = t
<1>. DEFINE Same(k) == /\ k \in DOMAIN s <=> k \in DOMAIN t
                       /\ k \in DOMAIN s => s[k] = t[k]
            S       == {q \in Nat : Same(q + 1)}
<1>. DEFINE m == Len(s)
            n == Len(t)
<1>0. /\ m \in Nat /\ \A k \in Nat : k \in DOMAIN s <=> 1 <= k /\ k <= m
      /\ n \in Nat /\ \A k \in Nat : k \in DOMAIN t <=> 1 <= k /\ k <= n
  OBVIOUS
<1>1. /\ \A k \in DOMAIN s : s[k] \in Blocks
      /\ \A k \in DOMAIN t : t[k] \in Blocks
  OBVIOUS
<1>2. NULL \notin Blocks
  BY BlocksAssumption
<1>3. 0 \in S
  <2>1. CASE s = << >>
    BY <1>0, <1>1, <1>2, <2>1 DEF HeadOf
  <2>2. CASE s # << >>
    BY <1>0, <1>1, <1>2, <2>2 DEF HeadOf
  <2>3. QED
    BY <2>1, <2>2
<1>. HIDE DEF m, n
<1>4. ASSUME NEW q \in Nat, q \in S PROVE q + 1 \in S
  <2>. DEFINE k == q + 1
  <2>0. k \in Nat \ {0}
    OBVIOUS
  <2>1. Same(k)
    BY <1>4
  <2>. HIDE DEF k
  <2>2. CASE k \notin DOMAIN s
    <3>1. k + 1 \notin DOMAIN s /\ k + 1 \notin DOMAIN t
      BY <1>0, <2>0, <2>1, <2>2
    <3>2. QED
      BY <3>1 DEF k
  <2>3. CASE k \in DOMAIN s
    <3>1. After(s, k) = After(t, k)
      BY <2>1, <2>3 DEF Leads
    <3>2. k + 1 \in DOMAIN s <=> k # m
      BY <1>0, <2>0, <2>3
    <3>3. k + 1 \in DOMAIN t <=> k # n
      <4>1. k \in DOMAIN t
        BY <2>1, <2>3
      <4>2. QED
        BY <1>0, <2>0, <4>1
    <3>4. Same(k + 1)
      BY <1>1, <1>2, <3>1, <3>2, <3>3 DEF After, m, n
    <3>5. QED
      BY <3>4 DEF k
  <2>4. QED
    BY <2>2, <2>3
<1>5. Nat \subseteq S
  <2>. HIDE DEF S
  <2>1. QED
    BY <1>3, <1>4, InductionOverNat
<1>6. \A k \in Nat \ {0} : Same(k)
  <2>1. ASSUME NEW k \in Nat \ {0} PROVE Same(k)
    <3>1. k - 1 \in S /\ (k - 1) + 1 = k
      BY <1>5
    <3>2. QED
      BY <3>1
  <2>2. QED
    BY <2>1
<1>7. m = n
  <2>1. CASE m < n
    <3>1. n \in DOMAIN t /\ n \notin DOMAIN s /\ n \in Nat \ {0}
      BY <1>0, <2>1
    <3>2. QED
      BY <1>6, <3>1
  <2>2. CASE n < m
    <3>1. m \in DOMAIN s /\ m \notin DOMAIN t /\ m \in Nat \ {0}
      BY <1>0, <2>2
    <3>2. QED
      BY <1>6, <3>1
  <2>3. QED
    BY <1>0, <2>1, <2>2
<1>8. QED
  <2>1. Len(s) = Len(t) /\ \A k \in 1 .. Len(s) : s[k] = t[k]
    BY <1>6, <1>7 DEF m, n
  <2>2. QED
    BY <2>1

\* A block put before s.
LEMMA Pushed ==
  ASSUME NEW s \in Chains, NEW links, Leads(links, s),
         NEW b \in Blocks \ Elements(s),
         NEW g, \A c \in Blocks \ {b} : g[c] = links[c], next_of(b, g[b]) = HeadOf(s)
  PROVE  LET t == <<b>> \o s
         IN  /\ t \in Chains /\ Leads(g, t)
             /\ HeadOf(t) = b /\ Elements(t) = Elements(s) \cup {b}
<1>. DEFINE t == <<b>> \o s
<1>1. /\ s \in Seq(Blocks) /\ DOMAIN s = 1 .. Len(s) /\ Len(s) \in Nat
      /\ \A j, k \in DOMAIN s : s[j] = s[k] => j = k
  BY ChainsAre
<1>2. /\ t \in Seq(Blocks) /\ Len(t) = Len(s) + 1 /\ DOMAIN t = 1 .. Len(s) + 1 /\ t[1] = b
      /\ \A k \in DOMAIN s : t[k + 1] = s[k]
      /\ Elements(t) = Elements(s) \cup {b}
  BY <1>1, Cons
<1>. HIDE DEF t
<1>4. \A k \in DOMAIN t : k = 1 \/ (k - 1 \in DOMAIN s /\ t[k] = s[k - 1] /\ s[k - 1] # b)
  BY <1>1, <1>2 DEF Elements
<1>5. \A j, k \in DOMAIN t : t[j] = t[k] => j = k
  BY <1>1, <1>2, <1>4
<1>6. ASSUME NEW k \in DOMAIN t PROVE next_of(t[k], g[t[k]]) = After(t, k)
  <2>1. CASE k = 1
    <3>1. HeadOf(s) = After(t, 1)
      BY <1>1, <1>2 DEF HeadOf, After
    <3>2. QED
      BY <1>2, <2>1, <3>1
  <2>2. CASE k # 1
    <3>1. k - 1 \in DOMAIN s /\ t[k] = s[k - 1] /\ s[k - 1] # b /\ s[k - 1] \in Blocks
      BY <1>1, <1>4, <2>2
    <3>2. next_of(t[k], g[t[k]]) = After(s, k - 1)
      BY <3>1 DEF Leads
    <3>3. After(s, k - 1) = After(t, k)
      <4>1. CASE k = Len(t)
        BY <1>1, <1>2, <4>1 DEF After
      <4>2. CASE k # Len(t)
        <5>1. k \in DOMAIN s /\ k - 1 # Len(s) /\ (k - 1) + 1 = k
          BY <1>1, <1>2, <4>2
        <5>2. QED
          BY <1>2, <4>2, <5>1 DEF After
      <4>3. QED
        BY <4>1, <4>2
    <3>4. QED
      BY <3>2, <3>3
  <2>3. QED
    BY <2>1, <2>2
<1>7. HeadOf(t) = b
  BY <1>1, <1>2 DEF HeadOf
<1>8. QED
  BY <1>2, <1>5, <1>6, <1>7, ChainsAre DEF Leads, t

\* The block at m taken out of s: the link that led to it leads on.
LEMMA Dropped ==
  ASSUME NEW s \in Chains, NEW links, Leads(links, s), NEW m \in DOMAIN s,
         NEW g, \A c \in Elements(s) \ {s[m]} :
                  (m = 1 \/ c # s[m - 1]) => g[c] = links[c],
         m # 1 => next_of(s[m - 1], g[s[m - 1]]) = After(s, m)
  PROVE  LET t == DropAt(s, m)
         IN  /\ t \in Chains /\ Leads(g, t)
             /\ HeadOf(t) = IF m = 1 THEN After(s, 1) ELSE HeadOf(s)
             /\ Elements(t) = Elements(s) \ {s[m]}
<1>. DEFINE t == DropAt(s, m)
<1>1. /\ s \in Seq(Blocks) /\ DOMAIN s = 1 .. Len(s) /\ Len(s) \in Nat /\ m \in 1 .. Len(s)
      /\ \A j, k \in DOMAIN s : s[j] = s[k] => j = k
  BY ChainsAre
<1>2. /\ t \in Seq(Blocks) /\ Len(t) = Len(s) - 1 /\ DOMAIN t = 1 .. Len(s) - 1
      /\ \A j \in DOMAIN t : t[j] = IF j < m THEN s[j] ELSE s[j + 1]
      /\ \A j, k \in DOMAIN t : t[j] = t[k] => j = k
      /\ Elements(t) = Elements(s) \ {s[m]}
  <2>1. s \in Seq(Blocks) /\ \A j, k \in DOMAIN s : s[j] = s[k] => j = k
    BY <1>1
  <2>2. QED
    BY <2>1, DropAtElements
<1>. HIDE DEF t
<1>3. ASSUME NEW k \in DOMAIN t PROVE next_of(t[k], g[t[k]]) = After(t, k)
  <2>. DEFINE j == IF k < m THEN k ELSE k + 1
  <2>1. j \in DOMAIN s /\ j # m /\ t[k] = s[j] /\ j \in Nat
    BY <1>1, <1>2
  <2>2. s[j] \in Elements(s) \ {s[m]}
    BY <1>1, <2>1 DEF Elements
  <2>3. CASE j + 1 = m
    <3>1. m # 1 /\ m - 1 = j /\ j = k
      BY <1>1, <2>1, <2>3
    <3>2. next_of(t[k], g[t[k]]) = After(s, m)
      BY <2>1, <3>1
    <3>3. After(s, m) = After(t, k)
      <4>1. CASE m = Len(s)
        BY <1>1, <1>2, <3>1, <4>1 DEF After
      <4>2. CASE m # Len(s)
        <5>1. k + 1 \in DOMAIN t /\ k # Len(t) /\ t[k + 1] = s[m + 1]
          BY <1>1, <1>2, <3>1, <4>2
        <5>2. QED
          BY <4>2, <5>1 DEF After
      <4>3. QED
        BY <4>1, <4>2
    <3>4. QED
      BY <3>2, <3>3
  <2>4. CASE j + 1 # m
    <3>1. m = 1 \/ s[j] # s[m - 1]
      BY <1>1, <2>1, <2>4
    <3>2. next_of(t[k], g[t[k]]) = After(s, j)
      BY <2>1, <2>2, <3>1 DEF Leads
    <3>3. After(s, j) = After(t, k)
      <4>1. CASE j = Len(s)
        <5>1. k = Len(t)
          BY <1>1, <1>2, <2>1, <2>4, <4>1
        <5>2. QED
          BY <4>1, <5>1 DEF After
      <4>2. CASE j # Len(s)
        <5>1. k + 1 \in DOMAIN t /\ k # Len(t)
          BY <1>1, <1>2, <2>1, <2>4, <4>2
        <5>2. t[k + 1] = s[j + 1]
          <6>1. CASE k < m
            <7>1. j = k /\ k + 1 < m
              BY <1>1, <2>1, <2>4, <6>1
            <7>2. QED
              BY <1>2, <5>1, <7>1
          <6>2. CASE ~(k < m)
            <7>1. j = k + 1 /\ ~(k + 1 < m)
              BY <1>1, <1>2, <6>2
            <7>2. QED
              BY <1>2, <5>1, <7>1
          <6>3. QED
            BY <6>1, <6>2
        <5>3. QED
          BY <4>2, <5>1, <5>2 DEF After
      <4>3. QED
        BY <4>1, <4>2
    <3>4. QED
      BY <3>2, <3>3
  <2>5. QED
    BY <2>3, <2>4
<1>4. HeadOf(t) = IF m = 1 THEN After(s, 1) ELSE HeadOf(s)
  BY <1>1, <1>2 DEF HeadOf, After
<1>5. QED
  BY <1>2, <1>3, <1>4, ChainsAre DEF Leads, t
-----------------------------------------------------------------------------
(* The loops *)

\* The blocks that belong in list i.
OfList(i) == {b \in listed : calculate_index(size[b]) = i}

\* s is list i.
Spelled(s, i) == s \in Chains /\ Spells(s, i) /\ Elements(s) = OfList(i)

\* remove_from_free_list has passed the first k blocks of s, and none of them
\* is its argument.
Passed(s, k) ==
  /\ prev = IF k = 0 THEN NULL ELSE s[k]
  /\ \A j \in 1 .. k : s[j] # block

\* best is the first best fit among the first k blocks of s.
BestOf(s, k) ==
  IF best = NULL THEN \A j \in 1 .. k : size[s[j]] < total
  ELSE \E m \in 1 .. k :
         /\ best = s[m] /\ size[best] >= total
         /\ \A j \in 1 .. k : size[s[j]] >= total =>
              \/ size[best] < size[s[j]]
              \/ size[best] = size[s[j]] /\ m <= j

\* Where the loop of a removal is.
RemovalPlace ==
  pc = "remove" =>
    /\ ~cut /\ index = calculate_index(size[block])
    /\ \A s \in Chains : Spelled(s, index) => \E k \in 0 .. Len(s) : Passed(s, k)

\* Where the loops of a search are: no block of the lists before has the size.
SearchPlace ==
  pc = "search" =>
    /\ ~cut /\ total \in Totals
    /\ \E first \in {calculate_index(total), N_LISTS - 1} :
         first <= index /\ \A i \in first .. index - 1 : \A b \in OfList(i) : size[b] < total
    /\ \A s \in Chains : Spelled(s, index) =>
         \E k \in 0 .. Len(s) : curr = After(s, k) /\ BestOf(s, k)

\* The inductive invariant.
LinksInv == LinksTypeOK /\ WalkKeepsPlace /\ ListsSpelled /\ RemovalPlace /\ SearchPlace

\* NULL is no block: After and HeadOf yield it at the end alone.
LEMMA AfterEnds ==
  ASSUME NEW s \in Chains, NEW k \in 0 .. Len(s)
  PROVE  /\ After(s, k) \in Blocks \cup {NULL}
         /\ After(s, k) = NULL <=> k = Len(s)
         /\ k # Len(s) => k + 1 \in DOMAIN s /\ After(s, k) = s[k + 1] /\ s[k + 1] \in Blocks
         /\ After(s, 0) = HeadOf(s)
<1>0. Len(s) \in Nat
  BY ChainsAre
<1>1. s \in Seq(Blocks) /\ DOMAIN s = 1 .. Len(s)
  BY ChainsAre
<1>2. ASSUME k # Len(s) PROVE k + 1 \in DOMAIN s /\ s[k + 1] \in Blocks
  <2>1. k + 1 \in 1 .. Len(s)
    BY <1>0, <1>2
  <2>2. QED
    BY <1>1, <2>1
<1>3. NULL \notin Blocks
  BY BlocksAssumption
<1>4. After(s, 0) = HeadOf(s)
  BY <1>0, <1>1 DEF After, HeadOf
<1>5. QED
  BY <1>2, <1>3, <1>4 DEF After

\* Where the links of a list lead.
LEMMA SpelledLinks ==
  ASSUME NEW i, NEW s, Spelled(s, i)
  PROVE  /\ s \in Chains /\ Elements(s) = OfList(i)
         /\ free_lists[i] = HeadOf(s) /\ Leads(next_offset, s)
         /\ \A k \in DOMAIN s : get_next_through_off(s[k]) = After(s, k)
BY SpellsAs DEF Spelled, Leads, get_next_through_off

\* put_block_in_free_list puts its block before the others of its list.
LEMMA PutSpells ==
  ASSUME LinksTypeOK, ListsSpelled, NEW b \in Blocks, NEW n \in BlockSizes, put(b, n), ~cut',
         NEW i \in Lists, NEW s, Spelled(s, i)
  PROVE  Spelled(IF i = calculate_index(n) THEN <<b>> \o s ELSE s, i)'
<1>. DEFINE I == calculate_index(n)
<1>1. I \in Lists
  BY IndexOfList, BlockSizesAssumption
<1>2. /\ ~cut /\ b \notin listed /\ ~TooFar(b, free_lists[I])
      /\ size' = [size EXCEPT ![b] = n] /\ listed' = listed \cup {b}
      /\ next_offset' = set_next_off(next_offset, b, free_lists[I])
      /\ free_lists' = [free_lists EXCEPT ![I] = b]
  BY DEF put, put_block_in_free_list
<1>. HIDE DEF I
<1>3. /\ free_lists \in [Lists -> Int] /\ next_offset \in Links /\ size \in [Blocks -> BlockSizes]
      /\ listed \subseteq Blocks
  BY DEF LinksTypeOK, Links
<1>4. PICK u \in Chains : Spelled(u, I)
  BY <1>1, <1>2 DEF ListsSpelled, Spelled, OfList
<1>5. free_lists[I] \in Blocks \cup {NULL} /\ free_lists[I] # b
  <2>1. free_lists[I] = HeadOf(u) /\ Elements(u) \subseteq listed
    BY <1>4, SpelledLinks DEF OfList
  <2>2. u \in Seq(Blocks) /\ (u # << >> => 1 \in DOMAIN u)
    BY ChainsAre
  <2>3. CASE u = << >>
    BY <2>1, <2>3, BlocksAssumption DEF HeadOf
  <2>4. CASE u # << >>
    BY <1>2, <2>1, <2>2, <2>4 DEF HeadOf, Elements
  <2>5. QED
    BY <2>3, <2>4
<1>6. /\ next_of(b, next_offset'[b]) = free_lists[I]
      /\ \A c \in Blocks \ {b} : next_offset'[c] = next_offset[c]
  BY <1>2, <1>3, <1>5, LinkSet
<1>7. /\ s \in Chains /\ Elements(s) = OfList(i) /\ free_lists[i] = HeadOf(s)
      /\ Leads(next_offset, s)
  BY SpelledLinks
<1>8. Elements(s) \subseteq Blocks /\ b \notin Elements(s)
  BY <1>2, <1>3, <1>7 DEF OfList
<1>9. OfList(i)' = IF i = I THEN OfList(i) \cup {b} ELSE OfList(i)
  <2>1. size'[b] = n /\ \A c \in listed : size'[c] = size[c]
    BY <1>2, <1>3
  <2>2. QED
    BY <1>2, <2>1 DEF OfList, I
<1>10. CASE i = I
  <2>1. /\ <<b>> \o s \in Chains /\ Leads(next_offset', <<b>> \o s)
        /\ HeadOf(<<b>> \o s) = b /\ Elements(<<b>> \o s) = Elements(s) \cup {b}
    BY <1>6, <1>7, <1>8, <1>10, Pushed
  <2>2. free_lists'[i] = b
    BY <1>1, <1>2, <1>3, <1>10
  <2>. DEFINE t == <<b>> \o s
  <2>. HIDE DEF t
  <2>3. Spells(t, i)' <=> free_lists'[i] = HeadOf(t) /\ Leads(next_offset', t)
    BY DEF Spells, HeadOf, Leads, After, get_next_through_off
  <2>4. Spelled(t, i)'
    BY <1>7, <1>9, <1>10, <2>1, <2>2, <2>3 DEF Spelled, t
  <2>5. QED
    BY <1>10, <2>4 DEF t, I
<1>11. CASE i # I
  <2>1. free_lists'[i] = free_lists[i]
    BY <1>1, <1>2, <1>3, <1>11
  <2>2. Leads(next_offset', s)
    BY <1>6, <1>7, <1>8 DEF Leads, Elements
  <2>3. Spells(s, i)' <=> free_lists'[i] = HeadOf(s) /\ Leads(next_offset', s)
    BY DEF Spells, HeadOf, Leads, After, get_next_through_off
  <2>4. Spelled(s, i)'
    BY <1>7, <1>9, <1>11, <2>1, <2>2, <2>3 DEF Spelled
  <2>5. QED
    BY <1>11, <2>4 DEF I
<1>12. QED
  BY <1>10, <1>11

\* The place in its list that the loop of a removal has reached.
LEMMA RemovalAt ==
  ASSUME LinksTypeOK, WalkKeepsPlace, RemovalPlace, pc = "remove", NEW s, Spelled(s, index)
  PROVE  \E k \in 0 .. Len(s) : Passed(s, k) /\ curr = After(s, k)
<1>1. s \in Chains /\ free_lists[index] = HeadOf(s)
      /\ \A k \in DOMAIN s : get_next_through_off(s[k]) = After(s, k)
  BY SpelledLinks
<1>2. PICK k \in 0 .. Len(s) : Passed(s, k)
  BY <1>1 DEF RemovalPlace
<1>3. s \in Seq(Blocks) /\ DOMAIN s = 1 .. Len(s) /\ NULL \notin Blocks
  BY <1>1, ChainsAre, BlocksAssumption
<1>4. CASE k = 0
  <2>1. curr = HeadOf(s)
    BY <1>1, <1>2, <1>4 DEF Passed, WalkKeepsPlace
  <2>2. QED
    BY <1>1, <1>2, <1>4, <2>1, AfterEnds
<1>5. CASE k # 0
  <2>1. k \in DOMAIN s /\ prev = s[k] /\ prev # NULL
    BY <1>2, <1>3, <1>5 DEF Passed
  <2>2. curr = After(s, k)
    BY <1>1, <2>1 DEF WalkKeepsPlace
  <2>3. QED
    BY <1>2, <2>2
<1>6. QED
  BY <1>4, <1>5

\* unlink takes the block at m out of its list, and writes no link of another.
UnlinksAt(s, m) ==
  /\ s[m] = block
  /\ free_lists' = IF m = 1 THEN [free_lists EXCEPT ![index] = After(s, 1)] ELSE free_lists
  /\ \A c \in Blocks \ {block} : (m = 1 \/ c # s[m - 1]) => next_offset'[c] = next_offset[c]
  /\ m # 1 => next_of(s[m - 1], next_offset'[s[m - 1]]) = After(s, m)

LEMMA Unlinks ==
  ASSUME LinksTypeOK, WalkKeepsPlace, RemovalPlace, remove_returns, curr = block, ~cut',
         NEW s, Spelled(s, index)
  PROVE  \E m \in DOMAIN s : UnlinksAt(s, m)
<1>1. pc = "remove" /\ block \in Blocks /\ NULL \notin Blocks
  BY BlocksAssumption DEF remove_returns, LinksTypeOK
<1>2. PICK k \in 0 .. Len(s) : Passed(s, k) /\ curr = After(s, k)
  BY <1>1, RemovalAt
<1>. DEFINE m    == k + 1
            next == get_next_through_off(block)
<1>3. s \in Chains /\ \A j \in DOMAIN s : get_next_through_off(s[j]) = After(s, j)
  BY SpelledLinks
<1>4. s \in Seq(Blocks) /\ \A i, j \in DOMAIN s : s[i] = s[j] => i = j
  BY <1>3, ChainsAre
<1>5. k # Len(s) /\ m \in DOMAIN s /\ s[m] = block
  BY <1>1, <1>2, <1>3, AfterEnds
<1>6. next = After(s, m) /\ next \in Blocks \cup {NULL}
  BY <1>3, <1>4, <1>5, AfterEnds
<1>7. next_offset \in Links
  BY DEF LinksTypeOK, Links
<1>8. unlink(next)
  BY <1>1 DEF remove_returns
<1>. HIDE DEF next
<1>9. CASE prev = NULL
  <2>1. k = 0
    BY <1>1, <1>2, <1>4, <1>9 DEF Passed
  <2>2. /\ free_lists' = [free_lists EXCEPT ![index] = next]
        /\ next_offset' = set_next_off(next_offset, block, NULL)
    BY <1>8, <1>9 DEF unlink
  <2>3. \A c \in Blocks \ {block} : next_offset'[c] = next_offset[c]
    BY <1>7, <2>2 DEF set_next_off, Links
  <2>4. UnlinksAt(s, 1)
    BY <1>5, <1>6, <2>1, <2>2, <2>3 DEF UnlinksAt
  <2>5. QED
    BY <1>5, <2>1, <2>4
<1>10. CASE prev # NULL
  <2>1. k # 0 /\ k \in DOMAIN s /\ prev = s[k] /\ prev \in Blocks
    BY <1>2, <1>4, <1>10 DEF Passed
  <2>2. prev # block /\ next # prev
    <3>1. prev # block
      BY <1>4, <1>5, <2>1
    <3>2. CASE m = Len(s)
      <4>1. next = NULL
        BY <1>6, <3>2 DEF After
      <4>2. QED
        BY <1>1, <2>1, <3>1, <4>1
    <3>3. CASE m # Len(s)
      <4>1. m + 1 \in DOMAIN s /\ next = s[m + 1] /\ m + 1 # k
        BY <1>4, <1>5, <1>6, <3>3 DEF After
      <4>2. QED
        BY <1>4, <2>1, <3>1, <4>1
    <3>4. QED
      BY <3>1, <3>2, <3>3
  <2>. DEFINE g == set_next_off(next_offset, prev, next)
  <2>3. /\ next_offset' = set_next_off(g, block, NULL) /\ ~TooFar(prev, next)
        /\ free_lists' = free_lists
    BY <1>8, <1>10 DEF unlink
  <2>4. /\ g \in Links /\ next_of(prev, g[prev]) = next
        /\ \A c \in Blocks \ {prev} : g[c] = next_offset[c]
    BY <1>6, <1>7, <2>1, <2>2, <2>3, LinkSet
  <2>. HIDE DEF g
  <2>5. \A c \in Blocks \ {block} : next_offset'[c] = g[c]
    BY <2>3, <2>4 DEF set_next_off, Links
  <2>6. m # 1 /\ m - 1 = k
    BY <2>1
  <2>7. UnlinksAt(s, m)
    BY <1>5, <1>6, <2>1, <2>2, <2>3, <2>4, <2>5, <2>6 DEF UnlinksAt
  <2>8. QED
    BY <1>5, <2>7
<1>11. QED
  BY <1>9, <1>10

\* A removal takes its block out of its list, and leaves the other lists.
LEMMA RemovalSpells ==
  ASSUME LinksTypeOK, WalkKeepsPlace, RemovalPlace, ListsSpelled, remove_returns, ~cut',
         NEW i \in Lists, NEW s, Spelled(s, i)
  PROVE  IF curr = block /\ i = index
         THEN \E m \in DOMAIN s : s[m] = block /\ Spelled(DropAt(s, m), i)'
         ELSE block \notin Elements(s) /\ Spelled(s, i)'
<1>1. /\ pc = "remove" /\ block \in Blocks /\ NULL \notin Blocks /\ index \in Lists
      /\ free_lists \in [Lists -> Int] /\ ~cut /\ index = calculate_index(size[block])
  BY BlocksAssumption DEF remove_returns, LinksTypeOK, RemovalPlace
<1>2. listed' = listed \ {block} /\ size' = size
  BY DEF remove_returns
<1>3. OfList(i)' = OfList(i) \ {block}
  BY <1>2 DEF OfList
<1>4. /\ s \in Chains /\ Elements(s) = OfList(i) /\ free_lists[i] = HeadOf(s)
      /\ Leads(next_offset, s)
  BY SpelledLinks
<1>5. \A t : Spells(t, i)' <=> free_lists'[i] = HeadOf(t) /\ Leads(next_offset', t)
  BY DEF Spells, HeadOf, Leads, After, get_next_through_off
<1>6. s \in Seq(Blocks) /\ DOMAIN s = 1 .. Len(s) /\ Elements(s) \subseteq Blocks
  BY <1>4, ChainsAre DEF Elements
<1>7. CASE curr = block /\ i = index
  <2>1. PICK m \in DOMAIN s : UnlinksAt(s, m)
    BY <1>7, Unlinks
  <2>2. /\ \A c \in Elements(s) \ {s[m]} :
             (m = 1 \/ c # s[m - 1]) => next_offset'[c] = next_offset[c]
        /\ m # 1 => next_of(s[m - 1], next_offset'[s[m - 1]]) = After(s, m)
    BY <1>6, <2>1 DEF UnlinksAt
  <2>. DEFINE t == DropAt(s, m)
  <2>3. /\ t \in Chains /\ Leads(next_offset', t)
        /\ HeadOf(t) = IF m = 1 THEN After(s, 1) ELSE HeadOf(s)
        /\ Elements(t) = Elements(s) \ {s[m]}
    BY <1>4, <2>2, Dropped
  <2>. HIDE DEF t
  <2>4. free_lists'[i] = HeadOf(t)
    BY <1>1, <1>4, <1>7, <2>1, <2>3 DEF UnlinksAt
  <2>5. Spelled(t, i)'
    BY <1>3, <1>4, <1>5, <2>1, <2>3, <2>4 DEF Spelled, UnlinksAt
  <2>6. QED
    BY <1>7, <2>1, <2>5 DEF UnlinksAt, t
<1>8. CASE i # index
  <2>1. block \notin Elements(s)
    BY <1>1, <1>4, <1>8 DEF OfList
  <2>2. PICK u \in Chains : Spelled(u, index)
    BY <1>1 DEF ListsSpelled, Spelled, OfList
  <2>3. \A k \in DOMAIN u : u[k] \notin Elements(s)
    <3>1. Elements(u) = OfList(index)
      BY <2>2, SpelledLinks
    <3>2. OfList(index) \cap OfList(i) = {}
      BY <1>8 DEF OfList
    <3>3. QED
      BY <1>4, <3>1, <3>2 DEF Elements
  <2>4. /\ free_lists'[i] = free_lists[i]
        /\ \A c \in Elements(s) : next_offset'[c] = next_offset[c]
    <3>1. CASE curr = block
      <4>1. PICK m \in DOMAIN u : UnlinksAt(u, m)
        BY <2>2, <3>1, Unlinks
      <4>2. m = 1 \/ m - 1 \in DOMAIN u
        BY <2>2, ChainsAre
      <4>3. free_lists'[i] = free_lists[i]
        BY <1>1, <1>8, <4>1 DEF UnlinksAt
      <4>4. \A c \in Elements(s) : c \in Blocks \ {block} /\ (m = 1 \/ c # u[m - 1])
        BY <1>6, <2>1, <2>3, <4>2
      <4>5. QED
        BY <4>1, <4>3, <4>4 DEF UnlinksAt
    <3>2. CASE curr # block
      BY <3>2 DEF remove_returns
    <3>3. QED
      BY <3>1, <3>2
  <2>5. Leads(next_offset', s)
    BY <1>4, <2>4 DEF Leads, Elements
  <2>6. Spelled(s, i)'
    BY <1>3, <1>4, <1>5, <2>1, <2>4, <2>5 DEF Spelled
  <2>7. QED
    BY <1>8, <2>1, <2>6
<1>9. CASE curr # block /\ i = index
  <2>1. UNCHANGED <<free_lists, next_offset>> /\ curr = NULL
    BY <1>9 DEF remove_returns
  <2>2. PICK k \in 0 .. Len(s) : Passed(s, k) /\ curr = After(s, k)
    BY <1>1, <1>9, RemovalAt
  <2>3. k = Len(s)
    BY <1>4, <2>1, <2>2, AfterEnds
  <2>4. block \notin Elements(s)
    BY <1>6, <2>2, <2>3 DEF Passed, Elements
  <2>5. Spelled(s, i)'
    BY <1>3, <1>4, <1>5, <2>1, <2>4 DEF Spelled
  <2>6. QED
    BY <1>9, <2>4, <2>5
<1>10. QED
  BY <1>7, <1>8, <1>9
\* The lists are in memory alone.
LEMMA SameLists ==
  ASSUME UNCHANGED memory
  PROVE  /\ \A s, i : Spelled(s, i)' <=> Spelled(s, i)
         /\ \A i : OfList(i)' = OfList(i)
         /\ ListsSpelled => ListsSpelled'
<1>1. /\ free_lists' = free_lists /\ next_offset' = next_offset /\ size' = size
      /\ listed' = listed /\ cut' = cut
  BY DEF memory
<1>2. \A s, i : Spells(s, i)' <=> Spells(s, i)
  BY <1>1 DEF Spells, get_next_through_off
<1>3. \A i : OfList(i)' = OfList(i)
  BY <1>1 DEF OfList
<1>4. \A s, i : Spelled(s, i)' <=> Spelled(s, i)
  BY <1>2, <1>3 DEF Spelled
<1>5. ListsSpelled => ListsSpelled'
  BY <1>1, <1>2 DEF ListsSpelled
<1>6. QED
  BY <1>3, <1>4, <1>5

\* Every step leaves the links spelling the lists.
LEMMA ListsKept == LinksInv /\ [Next]_vars => ListsSpelled'
<1>. SUFFICES ASSUME LinksInv, [Next]_vars PROVE ListsSpelled'
  OBVIOUS
<1>1. LinksTypeOK /\ WalkKeepsPlace /\ ListsSpelled /\ RemovalPlace
  BY DEF LinksInv
<1>2. ASSUME ~cut', \A i \in Lists : \E s : Spelled(s, i)' PROVE ListsSpelled'
  BY <1>2 DEF ListsSpelled, Spelled, OfList
<1>3. ASSUME ~cut PROVE \A i \in Lists : \E s : Spelled(s, i)
  BY <1>1, <1>3 DEF ListsSpelled, Spelled, OfList
<1>4. ASSUME NEW b \in Blocks, NEW n \in BlockSizes, put(b, n), ~cut' PROVE ListsSpelled'
  <2>1. ~cut
    BY <1>4 DEF put
  <2>2. QED
    BY <1>1, <1>2, <1>3, <1>4, <2>1, PutSpells
<1>5. ASSUME remove_returns, ~cut' PROVE ListsSpelled'
  <2>1. ~cut
    BY <1>1, <1>5 DEF remove_returns, RemovalPlace
  <2>2. ASSUME NEW i \in Lists PROVE \E s : Spelled(s, i)'
    <3>1. PICK s : Spelled(s, i)
      BY <1>3, <2>1
    <3>2. QED
      BY <1>1, <1>5, <3>1, RemovalSpells
  <2>3. QED
    BY <1>2, <1>5, <2>2
<1>6. CASE UNCHANGED memory
  BY <1>1, <1>6, SameLists
<1>7. CASE cut'
  BY <1>7 DEF ListsSpelled
<1>8. \/ \E b \in Blocks, n \in BlockSizes : put(b, n)
      \/ remove_returns
      \/ UNCHANGED memory
  BY DEF Next, turn, remove_from_free_list, search, remove_turn, list_fit_turn, next_list,
         search_returns, vars
<1>9. QED
  BY <1>4, <1>5, <1>6, <1>7, <1>8

\* Every step leaves the loop of a removal at a place where it has passed other
\* blocks only.
LEMMA RemovalPlaceKept == LinksInv /\ [Next]_vars => RemovalPlace'
<1>. SUFFICES ASSUME LinksInv, [Next]_vars, pc' = "remove"
     PROVE  /\ ~cut' /\ index' = calculate_index(size'[block'])
            /\ \A s \in Chains : Spelled(s, index)' => \E k \in 0 .. Len(s) : Passed(s, k)'
  BY DEF RemovalPlace
<1>1. LinksTypeOK /\ WalkKeepsPlace /\ RemovalPlace
  BY DEF LinksInv
<1>2. ASSUME NEW b \in Blocks, remove_from_free_list(b)
      PROVE  /\ ~cut' /\ index' = calculate_index(size'[block'])
             /\ \A s \in Chains : \E k \in 0 .. Len(s) : Passed(s, k)'
  <2>1. ~cut' /\ index' = calculate_index(size'[block']) /\ prev' = NULL
    BY <1>2 DEF remove_from_free_list, memory
  <2>2. ASSUME NEW s \in Chains PROVE 0 \in 0 .. Len(s) /\ Passed(s, 0)'
    <3>1. Len(s) \in Nat
      BY ChainsAre
    <3>2. QED
      BY <2>1, <3>1 DEF Passed
  <2>3. QED
    BY <2>1, <2>2
<1>3. CASE remove_turn
  <2>1. /\ pc = "remove" /\ UNCHANGED memory /\ index' = index /\ block' = block
        /\ prev' = curr /\ curr # block /\ curr \in Blocks
    BY <1>3 DEF remove_turn
  <2>2. ~cut' /\ index' = calculate_index(size'[block'])
    BY <1>1, <2>1 DEF RemovalPlace, memory
  <2>3. ASSUME NEW s \in Chains, Spelled(s, index)'
        PROVE  \E k \in 0 .. Len(s) : Passed(s, k)'
    <3>1. Spelled(s, index)
      BY <2>1, <2>3 DEF Spelled, Spells, OfList, get_next_through_off, memory
    <3>2. PICK k \in 0 .. Len(s) : Passed(s, k) /\ curr = After(s, k)
      BY <1>1, <2>1, <3>1, RemovalAt
    <3>3. Len(s) \in Nat /\ NULL \notin Blocks
      BY ChainsAre, BlocksAssumption
    <3>4. k # Len(s) /\ curr = s[k + 1]
      BY <2>1, <3>2, <3>3, AfterEnds
    <3>5. k + 1 \in 0 .. Len(s) /\ k + 1 # 0
      BY <3>3, <3>4
    <3>6. \A j \in 1 .. k + 1 : s[j] # block
      BY <2>1, <3>2, <3>4 DEF Passed
    <3>7. Passed(s, k + 1)'
      BY <2>1, <3>4, <3>5, <3>6 DEF Passed
    <3>8. QED
      BY <3>5, <3>7
  <2>4. QED
    BY <2>2, <2>3
<1>4. CASE UNCHANGED vars
  <2>1. pc = "remove" /\ UNCHANGED <<memory, index, block, prev>>
    BY <1>4 DEF vars, locals
  <2>2. UNCHANGED memory /\ index' = index /\ block' = block /\ prev' = prev
    BY <2>1
  <2>3. ~cut' /\ index' = calculate_index(size'[block'])
    BY <1>1, <2>1, <2>2 DEF RemovalPlace, memory
  <2>4. ASSUME NEW s \in Chains, Spelled(s, index)'
        PROVE  \E k \in 0 .. Len(s) : Passed(s, k)'
    <3>1. Spelled(s, index)
      BY <2>2, <2>4 DEF Spelled, Spells, OfList, get_next_through_off, memory
    <3>2. PICK k \in 0 .. Len(s) : Passed(s, k)
      BY <1>1, <2>1, <3>1 DEF RemovalPlace
    <3>3. QED
      BY <2>2, <3>2 DEF Passed
  <2>5. QED
    BY <2>3, <2>4
<1>5. \/ \E b \in Blocks : remove_from_free_list(b)
      \/ remove_turn
      \/ UNCHANGED vars
  BY DEF Next, turn, put, search, remove_returns, list_fit_turn, next_list, search_returns
<1>6. QED
  BY <1>2, <1>3, <1>4, <1>5
\* A turn of list_fit leaves the first best fit of one block more.
LEMMA BestStep ==
  ASSUME LinksTypeOK, SearchPlace, list_fit_turn,
         NEW s \in Chains, NEW k \in 0 .. Len(s), curr = After(s, k), BestOf(s, k)
  PROVE  k + 1 \in 0 .. Len(s) /\ curr = s[k + 1] /\ BestOf(s, k + 1)'
<1>1. /\ pc = "search" /\ curr \in Blocks /\ total' = total /\ size' = size
      /\ best' = IF better(curr) THEN curr ELSE best
  BY DEF list_fit_turn, memory
<1>2. total \in Nat /\ \A b \in Blocks : size[b] \in Nat
  BY <1>1, BlockSizesAssumption DEF SearchPlace, LinksTypeOK
<1>3. k # Len(s) /\ curr = s[k + 1] /\ NULL \notin Blocks
  BY <1>1, AfterEnds, BlocksAssumption
<1>4. Len(s) \in Nat
  BY ChainsAre
<1>. DEFINE n == k + 1
<1>5. n \in 0 .. Len(s) /\ n \in 1 .. n /\ \A j \in 1 .. n : j \in 1 .. k \/ j = n
  BY <1>3, <1>4
<1>6. \A j \in 1 .. n : s[j] \in Blocks
  <2>1. s \in Seq(Blocks) /\ DOMAIN s = 1 .. Len(s)
    BY ChainsAre
  <2>2. \A j \in 1 .. n : j \in 1 .. Len(s)
    BY <1>4, <1>5
  <2>3. QED
    BY <2>1, <2>2
<1>7. \A j \in 1 .. k : j \in 1 .. n /\ j <= n
  BY <1>5
<1>. HIDE DEF n
<1>8. s[n] = curr
  BY <1>3 DEF n
<1>9. CASE best = NULL /\ better(curr)
  <2>1. /\ best' = s[n] /\ best' # NULL /\ size[s[n]] >= total
        /\ \A j \in 1 .. k : size[s[j]] < total
    BY <1>1, <1>3, <1>8, <1>9 DEF better, BestOf
  <2>2. ASSUME NEW j \in 1 .. n, size[s[j]] >= total PROVE j = n
    BY <1>2, <1>5, <1>6, <2>1, <2>2
  <2>3. n <= n
    BY <1>5
  <2>4. BestOf(s, n)'
    BY <1>1, <1>5, <2>1, <2>2, <2>3 DEF BestOf
  <2>5. QED
    BY <1>3, <1>5, <2>4 DEF n
<1>10. CASE best = NULL /\ ~better(curr)
  <2>1. best' = NULL /\ ~(size[s[n]] >= total) /\ \A j \in 1 .. k : size[s[j]] < total
    BY <1>1, <1>8, <1>10 DEF better, BestOf
  <2>2. \A j \in 1 .. n : size[s[j]] < total
    BY <1>2, <1>5, <1>6, <2>1
  <2>3. BestOf(s, n)'
    BY <1>1, <2>1, <2>2 DEF BestOf
  <2>4. QED
    BY <1>3, <1>5, <2>3 DEF n
<1>11. CASE best # NULL
  <2>1. PICK m \in 1 .. k : /\ best = s[m] /\ size[best] >= total
                            /\ \A j \in 1 .. k : size[s[j]] >= total =>
                                 \/ size[best] < size[s[j]]
                                 \/ size[best] = size[s[j]] /\ m <= j
    BY <1>11 DEF BestOf
  <2>2. m \in 1 .. n /\ m <= n /\ m \in Nat /\ best \in Blocks
    BY <1>6, <1>7, <2>1
  <2>3. size[best] \in Nat /\ size[curr] \in Nat
    BY <1>1, <1>2, <2>2
  <2>4. CASE better(curr)
    <3>1. best' = s[n] /\ best' # NULL /\ size[s[n]] >= total /\ size[s[n]] < size[best]
      BY <1>1, <1>2, <1>3, <1>8, <1>11, <2>3, <2>4 DEF better
    <3>2. ASSUME NEW j \in 1 .. n, size[s[j]] >= total
          PROVE  size[s[n]] < size[s[j]] \/ (size[s[n]] = size[s[j]] /\ n <= j)
      <4>1. CASE j = n
        BY <1>5, <1>6, <4>1
      <4>2. CASE j \in 1 .. k
        <5>1. size[s[j]] \in Nat /\ size[s[n]] \in Nat
          BY <1>2, <1>5, <1>6, <3>2
        <5>2. size[best] <= size[s[j]]
          BY <2>1, <2>3, <3>2, <4>2, <5>1
        <5>3. size[s[n]] < size[s[j]]
          <6>. DEFINE x == size[best]
                      y == size[s[n]]
                      z == size[s[j]]
          <6>1. x \in Nat /\ y \in Nat /\ z \in Nat /\ y < x /\ x <= z
            BY <2>3, <3>1, <5>1, <5>2
          <6>. HIDE DEF x, y, z
          <6>2. y < z
            BY <6>1
          <6>3. QED
            BY <6>2 DEF y, z
        <5>4. QED
          BY <5>3
      <4>3. QED
        BY <1>5, <4>1, <4>2
    <3>3. BestOf(s, n)'
      BY <1>1, <1>5, <3>1, <3>2 DEF BestOf
    <3>4. QED
      BY <1>3, <1>5, <3>3 DEF n
  <2>5. CASE ~better(curr)
    <3>1. best' = best /\ best' = s[m]
      BY <1>1, <2>1, <2>5
    <3>2. ASSUME NEW j \in 1 .. n, size[s[j]] >= total
          PROVE  size[best] < size[s[j]] \/ (size[best] = size[s[j]] /\ m <= j)
      <4>1. CASE j = n
        <5>1. size[curr] >= total /\ ~(size[curr] - total < size[best] - total)
          BY <1>8, <1>11, <2>5, <3>2, <4>1 DEF better
        <5>2. size[best] <= size[s[j]]
          BY <1>2, <1>8, <2>3, <4>1, <5>1
        <5>3. QED
          BY <1>8, <2>2, <2>3, <4>1, <5>2
      <4>2. CASE j \in 1 .. k
        <5>1. size[s[j]] >= total =>
                size[best] < size[s[j]] \/ (size[best] = size[s[j]] /\ m <= j)
          BY <2>1, <4>2
        <5>2. QED
          BY <3>2, <5>1, Zenon
      <4>3. QED
        BY <1>5, <4>1, <4>2
    <3>3. BestOf(s, n)'
      BY <1>1, <1>11, <2>1, <2>2, <3>1, <3>2 DEF BestOf
    <3>4. QED
      BY <1>3, <1>5, <3>3 DEF n
  <2>6. QED
    BY <2>4, <2>5
<1>12. QED
  BY <1>9, <1>10, <1>11

\* A list that has been searched to its end without a find has no fit.
LEMMA NoFit ==
  ASSUME LinksTypeOK, ListsSpelled, SearchPlace, pc = "search", curr = NULL, best = NULL
  PROVE  \A b \in OfList(index) : size[b] < total
<1>1. ~cut /\ index \in Lists
  BY DEF SearchPlace, LinksTypeOK
<1>2. PICK s \in Chains : Spelled(s, index)
  BY <1>1 DEF ListsSpelled, Spelled, OfList
<1>3. PICK k \in 0 .. Len(s) : curr = After(s, k) /\ BestOf(s, k)
  BY <1>2 DEF SearchPlace
<1>4. k = Len(s)
  BY <1>3, AfterEnds
<1>5. DOMAIN s = 1 .. Len(s)
  BY ChainsAre
<1>6. Elements(s) = OfList(index)
  BY <1>2 DEF Spelled
<1>7. QED
  BY <1>3, <1>4, <1>5, <1>6 DEF BestOf, Elements

\* Every step leaves the loop of a search with the best of what it has passed.
LEMMA SearchPlaceKept == LinksInv /\ [Next]_vars => SearchPlace'
<1>. DEFINE Fits(first) ==
       first <= index /\ \A i \in first .. index - 1 : \A b \in OfList(i) : size[b] < total
<1>. SUFFICES ASSUME LinksInv, [Next]_vars, pc' = "search"
     PROVE  /\ ~cut' /\ total' \in Totals
            /\ \E first \in {calculate_index(total'), N_LISTS - 1} : Fits(first)'
            /\ \A s \in Chains : Spelled(s, index)' =>
                 \E k \in 0 .. Len(s) : curr' = After(s, k) /\ BestOf(s, k)'
  BY DEF SearchPlace
<1>1. LinksTypeOK /\ ListsSpelled /\ SearchPlace /\ index \in Lists
  BY DEF LinksInv, LinksTypeOK
<1>2. ASSUME pc = "search", UNCHANGED memory, total' = total
      PROVE  /\ ~cut' /\ total' \in Totals
             /\ \E first \in {calculate_index(total'), N_LISTS - 1} : Fits(first)
             /\ \A i : OfList(i)' = OfList(i)
             /\ size' = size
  BY <1>1, <1>2, SameLists DEF SearchPlace, memory
<1>3. ASSUME NEW n \in Totals, NEW first \in Lists, search(n, first),
             first \in {calculate_index(n), N_LISTS - 1}
      PROVE  /\ ~cut' /\ total' \in Totals
             /\ \E f \in {calculate_index(total'), N_LISTS - 1} : Fits(f)'
             /\ \A s \in Chains : Spelled(s, index)' =>
                  \E k \in 0 .. Len(s) : curr' = After(s, k) /\ BestOf(s, k)'
  <2>1. /\ ~cut' /\ total' = n /\ index' = first /\ curr' = free_lists[first] /\ best' = NULL
        /\ free_lists' = free_lists
    BY <1>3 DEF search, memory
  <2>2. first \in Int /\ first .. first - 1 = {}
    BY <1>3 DEF Lists
  <2>3. Fits(first)'
    BY <2>1, <2>2
  <2>4. ASSUME NEW s \in Chains, Spelled(s, index)'
        PROVE  0 \in 0 .. Len(s) /\ curr' = After(s, 0) /\ BestOf(s, 0)'
    <3>1. Len(s) \in Nat
      BY ChainsAre
    <3>2. free_lists'[index'] = HeadOf(s)
      BY <2>4 DEF Spelled, Spells, HeadOf
    <3>3. curr' = After(s, 0)
      BY <2>1, <3>1, <3>2, AfterEnds
    <3>4. BestOf(s, 0)'
      BY <2>1 DEF BestOf
    <3>5. QED
      BY <3>1, <3>3, <3>4
  <2>5. QED
    BY <1>3, <2>1, <2>3, <2>4
<1>4. CASE list_fit_turn
  <2>1. /\ pc = "search" /\ UNCHANGED memory /\ total' = total /\ index' = index
        /\ curr' = get_next_through_off(curr)
    BY <1>4 DEF list_fit_turn
  <2>2. PICK first \in {calculate_index(total'), N_LISTS - 1} : Fits(first)
    BY <1>2, <2>1
  <2>3. Fits(first)'
    BY <1>2, <2>1, <2>2
  <2>4. ASSUME NEW s \in Chains, Spelled(s, index)'
        PROVE  \E k \in 0 .. Len(s) : curr' = After(s, k) /\ BestOf(s, k)'
    <3>1. Spelled(s, index)
      BY <2>1, <2>4 DEF Spelled, Spells, OfList, get_next_through_off, memory
    <3>2. PICK k \in 0 .. Len(s) : curr = After(s, k) /\ BestOf(s, k)
      BY <1>1, <2>1, <3>1 DEF SearchPlace
    <3>3. k + 1 \in 0 .. Len(s) /\ curr = s[k + 1] /\ BestOf(s, k + 1)'
      BY <1>1, <1>4, <3>2, BestStep
    <3>4. k + 1 \in DOMAIN s
      BY <3>3, ChainsAre
    <3>5. curr' = After(s, k + 1)
      BY <2>1, <3>1, <3>3, <3>4, SpelledLinks
    <3>6. QED
      BY <3>3, <3>5
  <2>5. QED
    BY <1>2, <2>1, <2>3, <2>4
<1>5. CASE next_list
  <2>1. /\ pc = "search" /\ UNCHANGED memory /\ total' = total /\ index' = index + 1
        /\ curr = NULL /\ best = NULL /\ best' = NULL
        /\ curr' = free_lists[index + 1] /\ free_lists' = free_lists
    BY <1>5 DEF next_list, memory
  <2>2. PICK first \in {calculate_index(total'), N_LISTS - 1} : Fits(first)
    BY <1>2, <2>1
  <2>3. Fits(first)'
    <3>1. \A b \in OfList(index) : size[b] < total
      BY <1>1, <2>1, NoFit
    <3>2. first \in Int /\ index \in Int
      <4>1. total' \in Nat
        BY <1>2, <2>1, BlockSizesAssumption
      <4>. DEFINE c == calculate_index(total')
      <4>. HIDE DEF c
      <4>2. c \in Lists /\ N_LISTS - 1 \in Int /\ first \in {c, N_LISTS - 1}
        BY <2>2, <4>1, IndexOfList, ListsAssumption DEF c
      <4>3. QED
        BY <1>1, <4>2 DEF Lists
    <3>3. first <= index + 1 /\ \A i \in first .. (index + 1) - 1 : i \in first .. index - 1 \/ i = index
      BY <2>2, <3>2
    <3>4. \A i \in first .. (index + 1) - 1 : \A b \in OfList(i) : size[b] < total
      BY <2>2, <3>1, <3>3
    <3>5. QED
      BY <1>2, <2>1, <3>3, <3>4
  <2>4. ASSUME NEW s \in Chains, Spelled(s, index)'
        PROVE  0 \in 0 .. Len(s) /\ curr' = After(s, 0) /\ BestOf(s, 0)'
    <3>1. Len(s) \in Nat
      BY ChainsAre
    <3>2. free_lists'[index'] = HeadOf(s)
      BY <2>4 DEF Spelled, Spells, HeadOf
    <3>3. curr' = After(s, 0)
      BY <2>1, <3>1, <3>2, AfterEnds
    <3>4. BestOf(s, 0)'
      BY <2>1 DEF BestOf
    <3>5. QED
      BY <3>1, <3>3, <3>4
  <2>5. QED
    BY <1>2, <2>1, <2>3, <2>4
<1>6. CASE UNCHANGED vars
  <2>1. pc = "search" /\ UNCHANGED <<memory, index, curr, total, best>>
    BY <1>6 DEF vars, locals
  <2>2. /\ UNCHANGED memory /\ index' = index /\ curr' = curr /\ total' = total /\ best' = best
        /\ size' = size
    BY <2>1 DEF memory
  <2>3. PICK first \in {calculate_index(total'), N_LISTS - 1} : Fits(first)
    BY <1>2, <2>1, <2>2
  <2>4. Fits(first)'
    BY <1>2, <2>1, <2>2, <2>3
  <2>5. ASSUME NEW s \in Chains, Spelled(s, index)'
        PROVE  \E k \in 0 .. Len(s) : curr' = After(s, k) /\ BestOf(s, k)'
    <3>1. Spelled(s, index)
      BY <2>2, <2>5 DEF Spelled, Spells, OfList, get_next_through_off, memory
    <3>2. PICK k \in 0 .. Len(s) : curr = After(s, k) /\ BestOf(s, k)
      BY <1>1, <2>1, <3>1 DEF SearchPlace
    <3>3. QED
      BY <2>2, <3>2 DEF BestOf
  <2>6. QED
    BY <1>2, <2>1, <2>2, <2>4, <2>5
<1>7. \/ \E n \in Totals : search(n, calculate_index(n)) \/ search(n, N_LISTS - 1)
      \/ list_fit_turn \/ next_list
      \/ UNCHANGED vars
  BY DEF Next, turn, put, remove_from_free_list, remove_turn, remove_returns, search_returns
<1>8. \A n \in Totals : calculate_index(n) \in Lists /\ N_LISTS - 1 \in Lists
  BY IndexOfList, BlockSizesAssumption, ListsAssumption DEF Lists
<1>9. QED
  BY <1>3, <1>4, <1>5, <1>6, <1>7, <1>8

\* The empty lists of the start are spelled.
LEMMA InitSpelled == Init => LinksInv
<1>. SUFFICES ASSUME Init PROVE LinksInv
  OBVIOUS
<1>1. << >> \in Chains
  <2>1. << >> \in Seq(Blocks) /\ DOMAIN << >> = {}
    OBVIOUS
  <2>2. QED
    BY <2>1, ChainsAre
<1>2. \A i \in Lists : Spells(<< >>, i) /\ Elements(<< >>) = OfList(i)
  BY DEF Init, Spells, OfList, Elements
<1>3. ListsSpelled
  BY <1>1, <1>2 DEF ListsSpelled, OfList
<1>4. LinksTypeOK /\ WalkKeepsPlace
  BY InitTyped DEF Init, WalkKeepsPlace
<1>5. RemovalPlace /\ SearchPlace
  BY DEF Init, RemovalPlace, SearchPlace
<1>6. QED
  BY <1>3, <1>4, <1>5 DEF LinksInv

\* In every reachable state the links spell the lists, and the loops are where
\* the invariant has them.
THEOREM ListsInOrder == Spec => []LinksInv
<1>1. LinksInv /\ [Next]_vars => LinksInv'
  BY TypesKept, PlaceKept, ListsKept, RemovalPlaceKept, SearchPlaceKept DEF LinksInv
<1>2. QED
  BY InitSpelled, <1>1, PTL DEF Spec

\* No removal or insertion loses the rest of a list, joins two lists or closes
\* a ring, as long as no distance is cut.
THEOREM ListsAreSpelled == Spec => []ListsSpelled
<1>1. LinksInv => ListsSpelled
  BY DEF LinksInv
<1>2. QED
  BY ListsInOrder, <1>1, PTL
-----------------------------------------------------------------------------
(* What the links implement *)

\* The heap of the abstract specification.
H == [free_lists |-> [i \in Lists |-> Chain(i)],
      block      |-> [b \in Blocks |-> [size |-> size[b]]]]

\* The sequence chosen for a list is the one that its links spell.
LEMMA ChainIs ==
  ASSUME NEW s, NEW i
  PROVE  /\ Spelled(s, i) => Chain(i) = s
         /\ Spelled(s, i)' => Chain(i)' = s
<1>1. ASSUME Spelled(s, i) PROVE Chain(i) = s
  <2>1. s \in Chains /\ Spells(s, i)
    BY <1>1 DEF Spelled
  <2>2. Chain(i) \in Chains /\ Spells(Chain(i), i)
    BY <2>1 DEF Chain
  <2>3. s \in Seq(Blocks) /\ Chain(i) \in Seq(Blocks)
    BY <2>1, <2>2, ChainsAre
  <2>4. /\ HeadOf(s) = HeadOf(Chain(i))
        /\ Leads(next_offset, s) /\ Leads(next_offset, Chain(i))
    BY <2>1, <2>2, SpellsAs
  <2>5. QED
    BY <2>3, <2>4, SpelledOnce
<1>2. ASSUME Spelled(s, i)' PROVE Chain(i)' = s
  <2>. DEFINE t == Chain(i)'
  <2>0. \A u : Spells(u, i)' <=> free_lists'[i] = HeadOf(u) /\ Leads(next_offset', u)
    BY DEF Spells, HeadOf, Leads, After, get_next_through_off
  <2>1. s \in Chains /\ Spells(s, i)'
    BY <1>2 DEF Spelled
  <2>2. t = CHOOSE u \in Chains : Spells(u, i)'
    BY DEF Chain
  <2>. HIDE DEF t
  <2>3. t \in Chains /\ free_lists'[i] = HeadOf(t) /\ Leads(next_offset', t)
    BY <2>0, <2>1, <2>2
  <2>4. s \in Seq(Blocks) /\ t \in Seq(Blocks)
    BY <2>1, <2>3, ChainsAre
  <2>5. HeadOf(s) = HeadOf(t) /\ Leads(next_offset', s)
    BY <2>0, <2>1, <2>3
  <2>6. t = s
    BY <2>3, <2>4, <2>5, SpelledOnce
  <2>7. QED
    BY <2>6 DEF t
<1>3. QED
  BY <1>1, <1>2

\* As long as no distance is cut, each list has its sequence.
LEMMA ChainSpelled ==
  ASSUME ListsSpelled, ~cut, NEW i \in Lists
  PROVE  Spelled(Chain(i), i)
<1>1. PICK s \in Chains : Spelled(s, i)
  BY DEF ListsSpelled, Spelled, OfList
<1>2. QED
  BY <1>1, ChainIs

\* An insertion is the operator put_block_in_free_list of Heap.
LEMMA PutImplements ==
  ASSUME LinksInv, NEW b \in Blocks, NEW n \in BlockSizes, put(b, n), ~cut'
  PROVE  Abstract!Put(b, n)
<1>. DEFINE I == calculate_index(n)
            L == [i \in Lists |-> Chain(i)]
            B == [c \in Blocks |-> [size |-> size[c]]]
<1>1. ~cut /\ LinksTypeOK /\ ListsSpelled /\ I \in Lists
  BY IndexOfList, BlockSizesAssumption DEF LinksInv, put
<1>2. Abstract!calculate_index(n) = I
  BY DEF Abstract!calculate_index, calculate_index, Abstract!kAlignment, kAlignment
<1>. HIDE DEF I
<1>3. \A i \in Lists : Chain(i)' = IF i = I THEN <<b>> \o Chain(i) ELSE Chain(i)
  <2>1. ASSUME NEW i \in Lists
        PROVE  Chain(i)' = IF i = I THEN <<b>> \o Chain(i) ELSE Chain(i)
    <3>1. PICK s : Spelled(s, i) /\ Chain(i) = s
      BY <1>1, ChainSpelled
    <3>2. Spelled(IF i = calculate_index(n) THEN <<b>> \o s ELSE s, i)'
      BY <1>1, <3>1, PutSpells
    <3>3. Chain(i)' = IF i = calculate_index(n) THEN <<b>> \o s ELSE s
      BY <3>2, ChainIs
    <3>4. QED
      BY <3>1, <3>3 DEF I
  <2>2. QED
    BY <2>1
<1>4. [i \in Lists |-> Chain(i)'] = [L EXCEPT ![I] = <<b>> \o L[I]]
  BY <1>1, <1>3
<1>5. size' = [size EXCEPT ![b] = n] /\ size \in [Blocks -> BlockSizes] /\ found' = found
  BY <1>1 DEF put, LinksTypeOK
<1>6. [c \in Blocks |-> [size |-> size'[c]]] = [B EXCEPT ![b] = [size |-> n]]
  BY <1>5
<1>7. H' = [free_lists |-> [i \in Lists |-> Chain(i)'], block |-> [c \in Blocks |-> [size |-> size'[c]]]]
  BY DEF H
<1>8. H = [free_lists |-> L, block |-> B]
  BY DEF H
<1>9. B[b] = [size |-> size[b]]
  OBVIOUS
<1>. HIDE DEF L, B
<1>10. H' = [free_lists |-> [L EXCEPT ![I] = <<b>> \o L[I]], block |-> [B EXCEPT ![b] = [size |-> n]]]
  BY <1>4, <1>6, <1>7
<1>11. [H EXCEPT !.block[b].size = n] = [free_lists |-> L, block |-> [B EXCEPT ![b] = [size |-> n]]]
  BY <1>8, <1>9
<1>12. H' = Abstract!put_block_in_free_list([H EXCEPT !.block[b].size = n], b, I)
  <2>. DEFINE C == [B EXCEPT ![b] = [size |-> n]]
              K == [free_lists |-> L, block |-> C]
              F == [L EXCEPT ![I] = <<b>> \o L[I]]
  <2>1. Abstract!put_block_in_free_list(K, b, I) = [K EXCEPT !.free_lists = F]
    BY DEF Abstract!put_block_in_free_list
  <2>. HIDE DEF C, F
  <2>2. [K EXCEPT !.free_lists = F] = [free_lists |-> F, block |-> C]
    OBVIOUS
  <2>3. H' = [free_lists |-> F, block |-> C]
    BY <1>10 DEF F, C
  <2>4. [H EXCEPT !.block[b].size = n] = K
    BY <1>11 DEF C
  <2>5. QED
    BY <2>1, <2>2, <2>3, <2>4
<1>13. QED
  BY <1>2, <1>5, <1>12 DEF Abstract!Put, H

\* A removal is the operator remove_from_free_list of Heap.
LEMMA RemovalImplements ==
  ASSUME LinksInv, remove_returns, ~cut'
  PROVE  \E b \in Blocks : Abstract!Remove(b)
<1>. DEFINE L == [i \in Lists |-> Chain(i)]
            B == [c \in Blocks |-> [size |-> size[c]]]
            W(s) == Abstract!Without(s, block)
<1>1. /\ ~cut /\ LinksTypeOK /\ ListsSpelled /\ WalkKeepsPlace /\ RemovalPlace
      /\ block \in Blocks /\ index \in Lists /\ index = calculate_index(size[block])
  BY DEF LinksInv, RemovalPlace, LinksTypeOK, remove_returns
<1>2. Abstract!calculate_index(size[block]) = index
  BY <1>1 DEF Abstract!calculate_index, calculate_index, Abstract!kAlignment, kAlignment
<1>3. ASSUME NEW i \in Lists
      PROVE  Chain(i)' = IF i = index THEN W(Chain(i)) ELSE Chain(i)
  <2>1. PICK s : Spelled(s, i) /\ Chain(i) = s
    BY <1>1, ChainSpelled
  <2>2. CASE curr = block /\ i = index
    <3>1. PICK m \in DOMAIN s : s[m] = block /\ Spelled(DropAt(s, m), i)'
      BY <1>1, <2>1, <2>2, RemovalSpells
    <3>2. s \in Seq(Blocks) /\ \A j, k \in DOMAIN s : s[j] = s[k] => j = k
      BY <2>1, ChainsAre DEF Spelled
    <3>3. /\ \A j \in 1 .. m - 1 : s[j] # block
          /\ \A k \in DOMAIN s : s[k] = block => k = m
      <4>1. \A k \in DOMAIN s : s[k] = block => k = m
        BY <3>1, <3>2
      <4>2. \A j \in 1 .. m - 1 : j \in DOMAIN s /\ j # m
        BY <3>1, <3>2
      <4>3. QED
        BY <4>1, <4>2
    <3>4. W(s) = DropAt(s, m)
      <4>. DEFINE q == CHOOSE k \in DOMAIN s : s[k] = block /\ \A j \in 1 .. k - 1 : s[j] # block
      <4>1. q = m
        BY <3>1, <3>3
      <4>2. W(s) = [j \in 1 .. Len(s) - 1 |-> IF j < q THEN s[j] ELSE s[j + 1]]
        BY <3>1 DEF Abstract!Without
      <4>. HIDE DEF q
      <4>3. QED
        BY <4>1, <4>2 DEF DropAt
    <3>5. Chain(i)' = DropAt(s, m)
      BY <3>1, ChainIs
    <3>6. QED
      BY <2>1, <2>2, <3>4, <3>5
  <2>3. CASE ~(curr = block /\ i = index)
    <3>1. block \notin Elements(s) /\ Spelled(s, i)'
      BY <1>1, <2>1, <2>3, RemovalSpells
    <3>2. W(s) = s
      BY <3>1 DEF Abstract!Without, Elements
    <3>3. Chain(i)' = s
      BY <3>1, ChainIs
    <3>4. QED
      BY <2>1, <3>2, <3>3
  <2>4. QED
    BY <2>2, <2>3
<1>. HIDE DEF W
<1>4. [i \in Lists |-> Chain(i)'] = [L EXCEPT ![index] = W(L[index])]
  BY <1>1, <1>3
<1>5. size' = size /\ found' = found
  BY DEF remove_returns
<1>6. H' = [free_lists |-> [i \in Lists |-> Chain(i)'], block |-> B]
  BY <1>5 DEF H
<1>7. H = [free_lists |-> L, block |-> B]
  BY DEF H
<1>8. Abstract!get_size(H, block) = size[block]
  BY <1>1, <1>7 DEF Abstract!get_size
<1>. HIDE DEF L, B
<1>9. H' = [H EXCEPT !.free_lists[index] = W(@)]
  BY <1>4, <1>6, <1>7
<1>10. H' = Abstract!remove_from_free_list(H, block)
  BY <1>2, <1>8, <1>9 DEF Abstract!remove_from_free_list, W
<1>11. PICK b \in Blocks : b = block
  BY <1>1
<1>12. H' = Abstract!remove_from_free_list(H, b)
  BY <1>10, <1>11
<1>13. Abstract!Remove(b)
  BY <1>5, <1>12 DEF Abstract!Remove, H
<1>14. QED
  BY <1>13
\* list_fit of Heap, of a list that list_fit has passed to its end.
LEMMA ListFitIs ==
  ASSUME LinksTypeOK, pc = "search", SearchPlace, NEW s \in Chains, BestOf(s, Len(s))
  PROVE  Abstract!list_fit(H, s, total) = {best} \ {NULL}
<1>. DEFINE fits == {k \in DOMAIN s : size[s[k]] >= total}
            Beats(k, j) == \/ size[s[k]] < size[s[j]]
                           \/ size[s[k]] = size[s[j]] /\ k <= j
            bests == {k \in fits : \A j \in fits : Beats(k, j)}
<1>0. Len(s) \in Nat /\ s \in Seq(Blocks)
  BY ChainsAre
<1>1. DOMAIN s = 1 .. Len(s) /\ \A k \in DOMAIN s : s[k] \in Blocks
  BY <1>0
<1>2. \A b \in Blocks : Abstract!get_size(H, b) = size[b]
  BY DEF Abstract!get_size, H
<1>3. Abstract!list_fit(H, s, total) = {s[k] : k \in bests}
  <2>1. \A k \in DOMAIN s : Abstract!get_size(H, s[k]) = size[s[k]]
    BY <1>1, <1>2
  <2>2. fits = {k \in DOMAIN s : Abstract!get_size(H, s[k]) >= total}
    BY <2>1
  <2>3. bests = {k \in fits : \A j \in fits :
                   \/ Abstract!get_size(H, s[k]) < Abstract!get_size(H, s[j])
                   \/ Abstract!get_size(H, s[k]) = Abstract!get_size(H, s[j]) /\ k <= j}
    BY <2>1
  <2>. HIDE DEF bests
  <2>4. QED
    BY <2>2, <2>3 DEF Abstract!list_fit
<1>4. total \in Nat /\ \A b \in Blocks : size[b] \in Nat
  BY BlockSizesAssumption DEF SearchPlace, LinksTypeOK
<1>5. CASE best = NULL
  <2>1. ASSUME NEW k \in fits PROVE FALSE
    <3>1. size[s[k]] < total /\ size[s[k]] \in Nat /\ size[s[k]] >= total
      BY <1>1, <1>4, <1>5 DEF BestOf
    <3>2. QED
      BY <1>4, <3>1
  <2>2. bests = {}
    BY <2>1
  <2>. HIDE DEF bests
  <2>3. QED
    BY <1>3, <1>5, <2>2
<1>6. CASE best # NULL
  <2>1. PICK m \in 1 .. Len(s) :
          /\ best = s[m] /\ size[best] >= total
          /\ \A j \in 1 .. Len(s) : size[s[j]] >= total =>
               \/ size[best] < size[s[j]]
               \/ size[best] = size[s[j]] /\ m <= j
    BY <1>6 DEF BestOf
  <2>2. m \in bests
    BY <1>1, <2>1
  <2>3. ASSUME NEW k \in bests PROVE s[k] = best
    <3>1. k \in DOMAIN s /\ m \in DOMAIN s /\ Beats(k, m) /\ Beats(m, k)
      BY <2>2
    <3>2. size[s[k]] \in Nat /\ size[s[m]] \in Nat
      BY <1>1, <1>4, <3>1
    <3>3. k <= m /\ m <= k
      BY <3>1, <3>2
    <3>4. k \in Nat /\ m \in Nat
      BY <1>0, <1>1, <3>1
    <3>5. k = m
      BY <3>3, <3>4
    <3>6. QED
      BY <2>1, <3>5
  <2>. HIDE DEF bests
  <2>4. {s[k] : k \in bests} = {best}
    BY <2>1, <2>2, <2>3
  <2>5. QED
    BY <1>3, <1>6, <2>4
<1>7. QED
  BY <1>5, <1>6

\* list_fit of Heap, of a list without a fit.
LEMMA NoListFit ==
  ASSUME LinksTypeOK, pc = "search", SearchPlace, NEW s \in Chains,
         \A b \in Elements(s) : size[b] < total
  PROVE  Abstract!list_fit(H, s, total) = {}
<1>. DEFINE fits == {k \in DOMAIN s : Abstract!get_size(H, s[k]) >= total}
<1>1. \A k \in DOMAIN s : s[k] \in Blocks /\ s[k] \in Elements(s)
  BY ChainsAre DEF Elements
<1>2. total \in Nat /\ \A b \in Blocks : size[b] \in Nat
  BY BlockSizesAssumption DEF SearchPlace, LinksTypeOK
<1>3. ASSUME NEW k \in fits PROVE FALSE
  <2>1. size[s[k]] >= total /\ size[s[k]] \in Nat /\ size[s[k]] < total
    BY <1>1, <1>2 DEF Abstract!get_size, H
  <2>2. QED
    BY <1>2, <2>1
<1>4. fits = {}
  BY <1>3
<1>. HIDE DEF fits
<1>5. Abstract!list_fit(H, s, total) =
        {s[k] : k \in {k \in fits : \A j \in fits :
           \/ Abstract!get_size(H, s[k]) < Abstract!get_size(H, s[j])
           \/ Abstract!get_size(H, s[k]) = Abstract!get_size(H, s[j]) /\ k <= j}}
  BY DEF Abstract!list_fit, fits
<1>6. QED
  BY <1>4, <1>5

\* A search returns what best_fit or list_fit of Heap returns.
LEMMA SearchImplements ==
  ASSUME LinksInv, search_returns
  PROVE  Abstract!Search(total)
<1>. DEFINE c == calculate_index(total)
            F(i) == Abstract!list_fit(H, Chain(i), total)
<1>1. /\ LinksTypeOK /\ ListsSpelled /\ SearchPlace /\ pc = "search" /\ ~cut /\ index \in Lists
      /\ total \in Totals /\ curr = NULL /\ (best # NULL \/ index = N_LISTS - 1)
      /\ found' = best /\ UNCHANGED memory
  BY DEF LinksInv, SearchPlace, LinksTypeOK, search_returns
<1>2. PICK f \in {c, N_LISTS - 1} :
        f <= index /\ \A i \in f .. index - 1 : \A b \in OfList(i) : size[b] < total
  BY <1>1 DEF SearchPlace
<1>3. c \in Lists /\ N_LISTS - 1 \in Lists /\ N_LISTS \in Nat
  BY <1>1, IndexOfList, BlockSizesAssumption, ListsAssumption DEF Lists
<1>4. Abstract!calculate_index(total) = c
  BY DEF Abstract!calculate_index, calculate_index, Abstract!kAlignment, kAlignment
<1>. HIDE DEF c
<1>5. F(index) = {best} \ {NULL}
  <2>1. Spelled(Chain(index), index) /\ Chain(index) \in Chains
    BY <1>1, ChainSpelled DEF Spelled
  <2>2. PICK k \in 0 .. Len(Chain(index)) :
          curr = After(Chain(index), k) /\ BestOf(Chain(index), k)
    BY <1>1, <2>1 DEF SearchPlace
  <2>3. k = Len(Chain(index))
    BY <1>1, <2>1, <2>2, AfterEnds
  <2>4. QED
    BY <1>1, <2>1, <2>2, <2>3, ListFitIs
<1>6. ASSUME NEW i \in f .. index - 1 PROVE F(i) = {}
  <2>1. i \in Lists
    BY <1>1, <1>2, <1>3 DEF Lists
  <2>2. Chain(i) \in Chains /\ Elements(Chain(i)) = OfList(i)
    BY <1>1, <2>1, ChainSpelled DEF Spelled
  <2>3. QED
    BY <1>1, <1>2, <2>2, NoListFit
<1>7. \A i \in Lists : Abstract!list_fit(H, H.free_lists[i], total) = F(i)
  BY DEF H
<1>8. H' = H
  <2>1. free_lists' = free_lists /\ next_offset' = next_offset /\ size' = size
    BY <1>1 DEF memory
  <2>2. \A i : Chain(i)' = Chain(i)
    BY <2>1 DEF Chain, Spells, get_next_through_off
  <2>3. QED
    BY <2>1, <2>2 DEF H
<1>. HIDE DEF F
<1>9. CASE f = N_LISTS - 1
  <2>1. index = N_LISTS - 1
    BY <1>1, <1>2, <1>3, <1>9 DEF Lists
  <2>2. {best} \ {NULL} = Abstract!list_fit(H, H.free_lists[N_LISTS - 1], total)
    BY <1>3, <1>5, <1>7, <2>1
  <2>3. QED
    BY <1>1, <1>8, <2>2 DEF Abstract!Search, H
<1>10. CASE f = c
  <2>. DEFINE G(i)  == Abstract!list_fit(H, H.free_lists[i], total)
              first == {i \in c .. N_LISTS - 1 : G(i) # {} /\ \A j \in c .. i - 1 : G(j) = {}}
  <2>1. Abstract!best_fit(H, total) = UNION {G(i) : i \in first}
    BY <1>4 DEF Abstract!best_fit
  <2>2. \A i \in c .. N_LISTS - 1 : i \in Lists /\ G(i) = F(i)
    BY <1>3, <1>7 DEF Lists
  <2>. HIDE DEF G
  <2>3. index \in c .. N_LISTS - 1
    BY <1>1, <1>2, <1>3, <1>10 DEF Lists
  <2>4. \A i \in c .. index - 1 : i \in c .. N_LISTS - 1 /\ G(i) = {}
    <3>1. \A i \in c .. index - 1 : i \in c .. N_LISTS - 1
      BY <1>1, <1>3 DEF Lists
    <3>2. QED
      BY <1>6, <1>10, <2>2, <3>1
  <2>5. CASE best # NULL
    <3>1. G(index) = {best}
      BY <1>5, <2>2, <2>3, <2>5
    <3>2. index \in first
      BY <2>3, <2>4, <3>1
    <3>3. ASSUME NEW i \in first PROVE i = index
      <4>1. CASE i < index
        <5>1. i \in c .. index - 1
          BY <1>3, <2>3, <4>1 DEF Lists
        <5>2. QED
          BY <2>4, <5>1
      <4>2. CASE index < i
        <5>1. index \in c .. i - 1
          BY <1>3, <2>3, <4>2 DEF Lists
        <5>2. QED
          BY <3>1, <5>1
      <4>3. i \in Int /\ index \in Int
        BY <1>3, <2>3 DEF Lists
      <4>4. QED
        BY <4>1, <4>2, <4>3
    <3>. HIDE DEF first
    <3>4. UNION {G(i) : i \in first} = {best}
      BY <3>1, <3>2, <3>3
    <3>5. found' # NULL /\ {found'} \ {NULL} = Abstract!best_fit(H, total)
      BY <1>1, <2>1, <2>5, <3>4
    <3>6. QED
      BY <1>8, <3>5 DEF Abstract!Search, H
  <2>6. CASE best = NULL
    <3>1. index = N_LISTS - 1 /\ G(index) = {}
      BY <1>1, <1>5, <2>2, <2>3, <2>6
    <3>2. \A i \in c .. N_LISTS - 1 : i \in c .. index - 1 \/ i = index
      BY <1>3, <3>1 DEF Lists
    <3>3. first = {}
      BY <2>4, <3>1, <3>2
    <3>. HIDE DEF first
    <3>4. {found'} \ {NULL} = Abstract!best_fit(H, total)
      BY <1>1, <2>1, <2>6, <3>3
    <3>5. QED
      BY <1>8, <3>4 DEF Abstract!Search, H
  <2>7. QED
    BY <2>5, <2>6
<1>11. QED
  BY <1>2, <1>9, <1>10

\* The heads of the start are those of empty sequences.
LEMMA InitImplements == Init => Abstract!Init
<1>. SUFFICES ASSUME Init PROVE Abstract!Init
  OBVIOUS
<1>1. LinksInv /\ ~cut
  BY InitSpelled DEF Init
<1>2. ASSUME NEW i \in Lists PROVE Chain(i) = << >>
  <2>1. Spelled(Chain(i), i)
    BY <1>1, ChainSpelled DEF LinksInv
  <2>2. HeadOf(Chain(i)) = NULL /\ Chain(i) \in Chains
    BY <2>1, SpelledLinks DEF Init
  <2>3. Chain(i) \in Seq(Blocks) /\ NULL \notin Blocks
    BY <2>2, ChainsAre, BlocksAssumption
  <2>4. QED
    BY <2>2, <2>3 DEF HeadOf
<1>3. H.free_lists = [i \in Lists |-> << >>]
  BY <1>2 DEF H
<1>4. QED
  BY <1>3 DEF Init, Abstract!Init, H, Lists

\* A step of the links is a step of the sequences, or none.
LEMMA StepImplements == LinksInv /\ [Next]_vars => [~cut' => Abstract!Step]_vars
<1>. SUFFICES ASSUME LinksInv, [Next]_vars, ~cut' PROVE Abstract!Step
  OBVIOUS
<1>1. LinksTypeOK /\ RemovalPlace
  BY DEF LinksInv
<1>2. DOMAIN H.block = Blocks
  BY DEF H
<1>3. ASSUME NEW b \in Blocks, NEW n \in BlockSizes, put(b, n) PROVE Abstract!Step
  BY <1>2, <1>3, PutImplements DEF Abstract!Step, Abstract!Next, H
<1>4. CASE remove_returns
  <2>1. PICK b \in Blocks : Abstract!Remove(b)
    BY <1>4, RemovalImplements
  <2>2. QED
    BY <1>2, <2>1 DEF Abstract!Step, Abstract!Next, H
<1>5. CASE search_returns
  <2>1. total \in Totals
    BY <1>5 DEF LinksInv, SearchPlace, search_returns
  <2>2. QED
    BY <1>5, <2>1, SearchImplements DEF Abstract!Step, Abstract!Next, H
<1>6. CASE UNCHANGED memory /\ found' = found
  <2>1. free_lists' = free_lists /\ next_offset' = next_offset /\ size' = size
    BY <1>6 DEF memory
  <2>2. \A i : Chain(i)' = Chain(i)
    BY <2>1 DEF Chain, Spells, get_next_through_off
  <2>3. H' = H
    BY <2>1, <2>2 DEF H
  <2>4. QED
    BY <1>6, <2>3 DEF Abstract!Step, H
<1>7. \/ \E b \in Blocks, n \in BlockSizes : put(b, n)
      \/ remove_returns
      \/ search_returns
      \/ UNCHANGED memory /\ found' = found
  BY DEF Next, turn, remove_from_free_list, search, remove_turn, list_fit_turn, next_list, vars
<1>8. QED
  BY <1>3, <1>4, <1>5, <1>6, <1>7

\* The links and loops implement the sequences and operators of Heap, as long
\* as no distance is cut: an insertion and a removal change the place of their
\* block alone, and a search returns the first best fit.
THEOREM RefinesFreeLists == Spec => ImplementsFreeLists
<1>1. Init => Abstract!Init
  BY InitImplements
<1>2. LinksInv /\ [Next]_vars => [~cut' => Abstract!Step]_vars
  BY StepImplements
<1>3. QED
  BY ListsInOrder, <1>1, <1>2, PTL DEF Spec, ImplementsFreeLists
=============================================================================
