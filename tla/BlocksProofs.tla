---------------------------- MODULE BlocksProofs ----------------------------
(***************************************************************************)
(* Lemmas about chains of blocks, for every set of blocks: what extending  *)
(* and cutting a chain gives, and what a list of blocks settles.  The      *)
(* proofs about the chain state and about the indexer rest on them.        *)
(***************************************************************************)
EXTENDS Blocks, FiniteSetsExt, SequenceTheorems, WellFoundedInduction, TLAPS

-----------------------------------------------------------------------------
(* Natural numbers: induction over a set, least and greatest elements.     *)

\* Induction in the form the provers can instantiate: a set that contains 0
\* and is closed under successor contains every natural number.
LEMMA SetInduction ==
    ASSUME NEW S, 0 \in S, \A n \in Nat : n \in S => n + 1 \in S
    PROVE  Nat \subseteq S
<1> DEFINE T == Nat \ S
           R == OpToRel(<, Nat)
<1>1. IsWellFoundedOn(R, Nat)
  BY NatLessThanWellFounded
<1>2. SUFFICES ASSUME T # {} PROVE FALSE
  OBVIOUS
<1>3. PICK x \in T : \A y \in T : ~ (<<y, x>> \in R)
  <2>1. T \subseteq Nat
    OBVIOUS
  <2> HIDE DEF R, T
  <2> QED
    BY <1>1, <1>2, <2>1, WFMin
<1>4. x \in Nat /\ x \notin S /\ x # 0
  OBVIOUS
<1>5. x - 1 \in Nat /\ x - 1 \notin S
  BY <1>4
<1>6. <<x - 1, x>> \in R
  BY <1>4, <1>5 DEF OpToRel
<1> QED
  BY <1>3, <1>5, <1>6

\* A non-empty set of naturals has its Min, the index that the code's
\* iter().position(..) and .min() return.
LEMMA MinOfNats ==
    ASSUME NEW S, S \subseteq Nat, S # {}
    PROVE  Min(S) \in S /\ \A y \in S : Min(S) <= y
<1> DEFINE R == OpToRel(<, Nat)
<1>1. IsWellFoundedOn(R, Nat)
  BY NatLessThanWellFounded
<1>2. PICK x \in S : \A y \in S : ~ (<<y, x>> \in R)
  <2> HIDE DEF R
  <2> QED
    BY <1>1, WFMin
<1>3. \A y \in S : ~ (y < x)
  BY <1>2, Zenon DEF OpToRel
<1>4. \A y \in S : x <= y
  BY <1>3
<1> QED
  BY <1>4 DEF Min

\* A bounded non-empty set of naturals has its Max.
LEMMA MaxOfNats ==
    ASSUME NEW S, S \subseteq Nat, S # {}, NEW n \in Nat, \A x \in S : x <= n
    PROVE  Max(S) \in S /\ \A y \in S : Max(S) >= y
<1> DEFINE T == {n - x : x \in S}
<1>0. ASSUME NEW x \in S PROVE n - x \in Nat
  OBVIOUS
<1>1. T \subseteq Nat /\ T # {}
  <2>1. PICK x : x \in S
    OBVIOUS
  <2> QED
    BY <1>0, <2>1
<1> HIDE DEF T
<1>2. Min(T) \in T /\ \A y \in T : Min(T) <= y
  BY <1>1, MinOfNats
<1>3. PICK x \in S : Min(T) = n - x
  BY <1>2 DEF T
<1>4. ASSUME NEW y \in S PROVE x >= y
  <2>1. n - y \in T
    BY DEF T
  <2>2. n - x <= n - y /\ x \in Nat /\ y \in Nat
    BY <1>2, <1>3, <2>1
  <2> QED
    BY <2>2
<1> QED
  BY <1>4 DEF Max

\* Multiples of the interval.
LEMMA Multiples ==
    ASSUME NEW I \in Nat \ {0}, NEW k \in Nat, NEW n \in Nat
    PROVE  /\ I * k \in Nat
           /\ k <= n \div I => I * k <= n
           /\ n % I = 0 => I * (n \div I) = n
           /\ n \div I \in Nat
<1>1. n = I * (n \div I) + (n % I) /\ n \div I \in Nat /\ n % I \in 0..(I - 1)
  OBVIOUS
<1>2. I * k \in Nat
  OBVIOUS
<1>3. ASSUME k <= n \div I PROVE I * k <= n
  <2> DEFINE q == n \div I
  <2>1. q \in Nat /\ n >= I * q
    BY <1>1
  <2> HIDE DEF q
  <2>2. k <= q
    BY <1>3 DEF q
  <2>3. I * k <= I * q
    BY <2>1, <2>2
  <2> QED
    BY <1>2, <2>1, <2>3
<1> QED
  BY <1>1, <1>2, <1>3

-----------------------------------------------------------------------------
(* Sequences.                                                              *)

\* A prefix of a sequence.
LEMMA PrefixProperties ==
    ASSUME NEW S, NEW s \in Seq(S), NEW n \in 0..Len(s)
    PROVE  /\ SubSeq(s, 1, n) \in Seq(S)
           /\ Len(SubSeq(s, 1, n)) = n
           /\ \A i \in 1..n : SubSeq(s, 1, n)[i] = s[i]
  OBVIOUS

\* A suffix of a sequence.
LEMMA SuffixProperties ==
    ASSUME NEW S, NEW s \in Seq(S), NEW n \in 0..Len(s)
    PROVE  /\ SubSeq(s, n + 1, Len(s)) \in Seq(S)
           /\ Len(SubSeq(s, n + 1, Len(s))) = Len(s) - n
           /\ \A i \in 1..(Len(s) - n) : SubSeq(s, n + 1, Len(s))[i] = s[n + i]
  OBVIOUS

\* A prefix of a prefix.
LEMMA PrefixOfPrefix ==
    ASSUME NEW S, NEW s \in Seq(S), NEW n \in 0..Len(s), NEW k \in 0..n
    PROVE  SubSeq(SubSeq(s, 1, n), 1, k) = SubSeq(s, 1, k)
<1>1. SubSeq(s, 1, n) \in Seq(S) /\ Len(SubSeq(s, 1, n)) = n
  BY PrefixProperties
<1>2. k \in 0..Len(s)
  OBVIOUS
<1> DEFINE l == SubSeq(SubSeq(s, 1, n), 1, k)
           r == SubSeq(s, 1, k)
<1>3. l \in Seq(S) /\ Len(l) = k /\ \A i \in 1..k : l[i] = SubSeq(s, 1, n)[i]
  BY <1>1, PrefixProperties
<1>4. r \in Seq(S) /\ Len(r) = k /\ \A i \in 1..k : r[i] = s[i]
  BY <1>2, PrefixProperties
<1>5. \A i \in 1..k : SubSeq(s, 1, n)[i] = s[i]
  BY PrefixProperties
<1> HIDE DEF l, r
<1> QED
  BY <1>3, <1>4, <1>5, SeqEqual

\* A prefix that reaches into the second part of a concatenation.
LEMMA PrefixOfConcat ==
    ASSUME NEW S, NEW s \in Seq(S), NEW t \in Seq(S), NEW n \in 0..Len(t)
    PROVE  SubSeq(s \o t, 1, Len(s) + n) = s \o SubSeq(t, 1, n)
<1> DEFINE l == SubSeq(s \o t, 1, Len(s) + n)
           p == SubSeq(t, 1, n)
<1>0. Len(s) \in Nat /\ Len(t) \in Nat /\ Len(s) + n \in 0..(Len(s) + Len(t))
  OBVIOUS
<1>1. /\ s \o t \in Seq(S) /\ Len(s \o t) = Len(s) + Len(t)
      /\ \A i \in 1..(Len(s) + Len(t)) :
            (s \o t)[i] = IF i <= Len(s) THEN s[i] ELSE t[i - Len(s)]
  BY ConcatProperties
<1>2. /\ l \in Seq(S) /\ Len(l) = Len(s) + n
      /\ \A i \in 1..(Len(s) + n) : l[i] = (s \o t)[i]
  BY <1>0, <1>1, PrefixProperties
<1>3. p \in Seq(S) /\ Len(p) = n /\ \A i \in 1..n : p[i] = t[i]
  BY PrefixProperties
<1> HIDE DEF l, p
<1>4. /\ s \o p \in Seq(S) /\ Len(s \o p) = Len(s) + Len(p)
      /\ \A i \in 1..(Len(s) + Len(p)) :
            (s \o p)[i] = IF i <= Len(s) THEN s[i] ELSE p[i - Len(s)]
  BY <1>3, ConcatProperties
<1>5. ASSUME NEW i \in 1..Len(l) PROVE l[i] = (s \o p)[i]
  <2>1. i \in 1..(Len(s) + n) /\ i \in 1..(Len(s) + Len(t)) /\ i \in Nat
    BY <1>0, <1>2
  <2>2. CASE i <= Len(s)
    BY <1>1, <1>2, <1>3, <1>4, <2>1, <2>2
  <2>3. CASE ~(i <= Len(s))
    <3>1. i - Len(s) \in 1..n
      BY <1>0, <2>1, <2>3
    <3> QED
      BY <1>1, <1>2, <1>3, <1>4, <2>1, <2>3, <3>1
  <2> QED
    BY <2>2, <2>3
<1>6. l = s \o p
  BY <1>2, <1>3, <1>4, <1>5, SeqEqual
<1> QED
  BY <1>6 DEF l, p

\* Appending to the second part of a concatenation.
LEMMA ConcatAppend ==
    ASSUME NEW S, NEW s \in Seq(S), NEW t \in Seq(S), NEW e \in S
    PROVE  s \o Append(t, e) = Append(s \o t, e)
<1>1. <<e>> \in Seq(S)
  OBVIOUS
<1>2. s \o t \in Seq(S)
  BY ConcatProperties
<1>3. Append(t, e) = t \o <<e>> /\ Append(s \o t, e) = (s \o t) \o <<e>>
  BY <1>2, AppendIsConcat
<1>4. (s \o t) \o <<e>> = s \o (t \o <<e>>)
  BY <1>1, ConcatAssociative
<1> QED
  BY <1>3, <1>4

\* Every sequence of blocks extends itself, and is extended by concatenation.
LEMMA PrefixRefl ==
    ASSUME NEW s \in Seq(Block) PROVE Extends(s, s)
  BY DEF Extends

LEMMA PrefixOfExtension ==
    ASSUME NEW s \in Seq(Block), NEW t \in Seq(Block) PROVE Extends(s, s \o t)
<1>1. /\ Len(s \o t) = Len(s) + Len(t) /\ Len(s) \in Nat /\ Len(t) \in Nat
  BY ConcatProperties
<1>2. SubSeq(s \o t, 1, Len(s) + 0) = s \o SubSeq(t, 1, 0)
  BY PrefixOfConcat
<1>3. SubSeq(t, 1, 0) = <<>>
  BY SubSeqEmpty
<1>4. s \o <<>> = s
  BY ConcatEmptySeq
<1>5. SubSeq(s, 1, Len(s)) = s
  BY SubSeqFull
<1>6. Len(s) + 0 = Len(s)
  BY <1>1
<1> QED
  BY <1>1, <1>2, <1>3, <1>4, <1>5, <1>6 DEF Extends

LEMMA PrefixOfAppend ==
    ASSUME NEW s \in Seq(Block), NEW b \in Block PROVE Extends(s, Append(s, b))
<1>1. <<b>> \in Seq(Block)
  OBVIOUS
<1> QED
  BY <1>1, AppendIsConcat, PrefixOfExtension

\* Extending twice.
LEMMA ExtendsTransitive ==
    ASSUME NEW s \in Seq(Block), NEW t \in Seq(Block), NEW u \in Seq(Block),
           Extends(s, t), Extends(t, u)
    PROVE  Extends(s, u)
<1>1. Len(s) \in Nat /\ Len(t) \in Nat /\ Len(u) \in Nat /\ Len(s) <= Len(t) /\ Len(t) <= Len(u)
  BY DEF Extends
<1>2. SubSeq(t, 1, Len(t)) = t
  BY SubSeqFull
<1>3. SubSeq(u, 1, Len(t)) = t
  BY <1>2 DEF Extends
<1>4. Len(s) \in 0..Len(t) /\ Len(t) \in 0..Len(u)
  BY <1>1
<1>5. SubSeq(SubSeq(u, 1, Len(t)), 1, Len(s)) = SubSeq(u, 1, Len(s))
  BY <1>4, PrefixOfPrefix
<1>6. SubSeq(t, 1, Len(s)) = SubSeq(u, 1, Len(s))
  BY <1>3, <1>5
<1> QED
  BY <1>1, <1>6 DEF Extends

-----------------------------------------------------------------------------
(* Chains.                                                                 *)

\* The i-th block applies on the blocks before it.
Fits(bs, i) ==
    apply_block(TipOfChain(SubSeq(bs, 1, i - 1)), bs[i], SubSeq(bs, 1, i - 1)) = Ok

\* A chain is a sequence in which every block fits on those before it.
LEMMA ChainIsFitting ==
    ASSUME NEW bs \in Seq(Block)
    PROVE  IsChain(bs) <=> \A i \in 1..Len(bs) : Fits(bs, i)
<1>1. ASSUME NEW i \in 1..Len(bs)
      PROVE  /\ <<>> \o SubSeq(bs, 1, i - 1) = SubSeq(bs, 1, i - 1)
             /\ TipOfChain(SubSeq(bs, 1, i - 1)) =
                    IF i = 1 THEN NoTip ELSE TipOf(bs[i - 1])
  <2> DEFINE p == SubSeq(bs, 1, i - 1)
  <2>1. p \in Seq(Block) /\ Len(p) = i - 1 /\ \A k \in 1..(i - 1) : p[k] = bs[k]
    BY PrefixProperties
  <2> HIDE DEF p
  <2>2. <<>> \o p = p
    BY <2>1, ConcatEmptySeq
  <2>3. i = 1 <=> p = <<>>
    BY <2>1
  <2>4. i # 1 => p[Len(p)] = bs[i - 1]
    BY <2>1
  <2> QED
    BY <2>2, <2>3, <2>4 DEF TipOfChain, p
<1> QED
  BY <1>1 DEF IsChain, Replays, Fits

\* A prefix of a chain is a chain.
LEMMA PrefixIsChain ==
    ASSUME NEW bs, IsChain(bs), NEW n \in 0..Len(bs)
    PROVE  IsChain(SubSeq(bs, 1, n))
<1> DEFINE p == SubSeq(bs, 1, n)
<1>1. bs \in Seq(Block)
  BY DEF IsChain
<1>2. p \in Seq(Block) /\ Len(p) = n /\ \A i \in 1..n : p[i] = bs[i]
  BY <1>1, PrefixProperties
<1>3. \A i \in 1..n : SubSeq(p, 1, i - 1) = SubSeq(bs, 1, i - 1)
  BY <1>1, PrefixOfPrefix
<1>4. \A i \in 1..Len(bs) : Fits(bs, i)
  BY <1>1, ChainIsFitting
<1> HIDE DEF p
<1>5. ASSUME NEW i \in 1..Len(p) PROVE Fits(p, i)
  <2>1. p[i] = bs[i] /\ SubSeq(p, 1, i - 1) = SubSeq(bs, 1, i - 1) /\ Fits(bs, i)
    BY <1>2, <1>3, <1>4
  <2> QED
    BY <2>1, Zenon DEF Fits
<1>6. IsChain(p)
  BY <1>2, <1>5, ChainIsFitting
<1> QED
  BY <1>6 DEF p

\* A block that applies on a chain extends it to a chain, whose tip it is.
LEMMA AppendIsChain ==
    ASSUME NEW bs, IsChain(bs), NEW b \in Block,
           apply_block(TipOfChain(bs), b, bs) = Ok
    PROVE  IsChain(Append(bs, b)) /\ TipOfChain(Append(bs, b)) = TipOf(b)
<1> DEFINE a == Append(bs, b)
<1>1. bs \in Seq(Block) /\ Len(bs) \in Nat
  BY DEF IsChain
<1>2. /\ a \in Seq(Block) /\ Len(a) = Len(bs) + 1 /\ a # <<>>
      /\ \A i \in 1..Len(bs) : a[i] = bs[i]
      /\ a[Len(bs) + 1] = b
  BY <1>1, AppendProperties
<1>3. \A i \in 1..(Len(bs) + 1) : SubSeq(a, 1, i - 1) = SubSeq(bs, 1, i - 1)
  <2> SUFFICES ASSUME NEW i \in 1..(Len(bs) + 1)
               PROVE  SubSeq(a, 1, i - 1) = SubSeq(bs, 1, i - 1)
    OBVIOUS
  <2> HIDE DEF a
  <2> DEFINE l == SubSeq(a, 1, i - 1)
             r == SubSeq(bs, 1, i - 1)
  <2>0. i - 1 \in 0..Len(a) /\ i - 1 \in 0..Len(bs)
    BY <1>1, <1>2
  <2>1. l \in Seq(Block) /\ Len(l) = i - 1 /\ \A k \in 1..(i - 1) : l[k] = a[k]
    BY <1>2, <2>0, PrefixProperties
  <2>2. r \in Seq(Block) /\ Len(r) = i - 1 /\ \A k \in 1..(i - 1) : r[k] = bs[k]
    BY <1>1, <2>0, PrefixProperties
  <2>3. \A k \in 1..(i - 1) : a[k] = bs[k]
    BY <1>1, <1>2
  <2> HIDE DEF l, r
  <2>4. l = r
    BY <2>1, <2>2, <2>3, SeqEqual
  <2> QED
    BY <2>4 DEF l, r
<1>4. SubSeq(bs, 1, Len(bs)) = bs
  BY <1>1, SubSeqFull
<1>5. \A i \in 1..Len(bs) : Fits(bs, i)
  BY <1>1, ChainIsFitting
<1> HIDE DEF a
<1>6. ASSUME NEW i \in 1..Len(bs) PROVE Fits(a, i)
  <2>1. a[i] = bs[i] /\ SubSeq(a, 1, i - 1) = SubSeq(bs, 1, i - 1) /\ Fits(bs, i)
    BY <1>1, <1>2, <1>3, <1>5
  <2> QED
    BY <2>1, Zenon DEF Fits
<1>7. Fits(a, Len(bs) + 1)
  <2>1. SubSeq(a, 1, (Len(bs) + 1) - 1) = bs
    BY <1>1, <1>3, <1>4
  <2> QED
    BY <1>2, <2>1, Zenon DEF Fits
<1>8. \A i \in 1..Len(a) : Fits(a, i)
  BY <1>1, <1>2, <1>6, <1>7
<1>9. IsChain(a)
  BY <1>2, <1>8, ChainIsFitting
<1>10. TipOfChain(a) = TipOf(b)
  BY <1>2 DEF TipOfChain
<1> QED
  BY <1>9, <1>10 DEF a

\* The blocks of a chain replay on any prefix of it, so the `expect`s of the
\* replay loops hold.
LEMMA ReplaysOnPrefix ==
    ASSUME NEW s \in Seq(Block), NEW t \in Seq(Block), IsChain(s \o t)
    PROVE  Replays(TipOfChain(s), s, t)
<1> DEFINE st == s \o t
<1>0. Len(s) \in Nat /\ Len(t) \in Nat
  OBVIOUS
<1>1. /\ st \in Seq(Block) /\ Len(st) = Len(s) + Len(t)
      /\ \A i \in 1..(Len(s) + Len(t)) :
            st[i] = IF i <= Len(s) THEN s[i] ELSE t[i - Len(s)]
  BY ConcatProperties
<1>2. SUFFICES ASSUME NEW i \in 1..Len(t)
               PROVE  apply_block(IF i = 1 THEN TipOfChain(s) ELSE TipOf(t[i - 1]),
                                  t[i], s \o SubSeq(t, 1, i - 1)) = Ok
  BY DEF Replays
<1> DEFINE j == Len(s) + i
           p == SubSeq(t, 1, i - 1)
<1>3. p \in Seq(Block) /\ Len(p) = i - 1 /\ \A k \in 1..(i - 1) : p[k] = t[k]
  BY PrefixProperties
<1>4. SubSeq(st, 1, j - 1) = s \o p
  <2>1. i - 1 \in 0..Len(t) /\ j - 1 = Len(s) + (i - 1)
    BY <1>0
  <2> QED
    BY <2>1, PrefixOfConcat
<1>5. st[j] = t[i] /\ j \in 1..Len(st)
  BY <1>0, <1>1
<1> HIDE DEF st
<1>6. Fits(st, j)
  BY <1>1, <1>5, ChainIsFitting DEF st
<1> HIDE DEF j, p
<1>7. apply_block(TipOfChain(s \o p), t[i], s \o p) = Ok
  BY <1>4, <1>5, <1>6, Zenon DEF Fits
<1>8. TipOfChain(s \o p) = IF i = 1 THEN TipOfChain(s) ELSE TipOf(t[i - 1])
  <2>1. CASE i = 1
    <3>1. p = <<>>
      BY <1>3, <2>1
    <3>2. s \o p = s
      BY <3>1, ConcatEmptySeq
    <3> QED
      BY <2>1, <3>2
  <2>2. CASE i # 1
    <3>1. /\ s \o p \in Seq(Block) /\ Len(s \o p) = Len(s) + Len(p)
          /\ \A k \in 1..(Len(s) + Len(p)) :
                (s \o p)[k] = IF k <= Len(s) THEN s[k] ELSE p[k - Len(s)]
      BY <1>3, ConcatProperties
    <3>2. Len(s \o p) = Len(s) + (i - 1) /\ (s \o p)[Len(s \o p)] = t[i - 1]
      BY <1>0, <1>3, <2>2, <3>1
    <3>3. s \o p # <<>>
      BY <1>0, <2>2, <3>1, <3>2
    <3> QED
      BY <2>2, <3>2, <3>3 DEF TipOfChain
  <2> QED
    BY <2>1, <2>2
<1> QED
  BY <1>7, <1>8 DEF p

\* Heights count the blocks: the i-th block of a chain has id i.
LEMMA ChainIds ==
    ASSUME NEW bs, IsChain(bs)
    PROVE  \A i \in 1..Len(bs) : bs[i].id = i
<1> DEFINE S == {n \in Nat : n \in 1..Len(bs) => bs[n].id = n}
<1>0. bs \in Seq(Block) /\ Len(bs) \in Nat
  BY DEF IsChain
<1>1. 0 \in S
  OBVIOUS
<1>2. ASSUME NEW n \in Nat, n \in S PROVE n + 1 \in S
  <2> SUFFICES ASSUME n + 1 \in 1..Len(bs) PROVE bs[n + 1].id = n + 1
    OBVIOUS
  <2>1. apply_block(IF n + 1 = 1 THEN NoTip ELSE TipOf(bs[(n + 1) - 1]), bs[n + 1],
                    <<>> \o SubSeq(bs, 1, (n + 1) - 1)) = Ok
    BY DEF IsChain, Replays
  <2>2. validate_against_tip(IF n + 1 = 1 THEN NoTip ELSE TipOf(bs[(n + 1) - 1]),
                             bs[n + 1]) = Ok
    BY <2>1 DEF apply_block
  <2>3. bs[n + 1] \in Block
    BY <1>0, ElementOfSeq
  <2>4. CASE n = 0
    BY <2>2, <2>4 DEF validate_against_tip, Ok, GENESIS_BLOCK_ID
  <2>5. CASE n # 0
    <3>1. (n + 1) - 1 = n /\ n \in 1..Len(bs) /\ n + 1 # 1
      BY <1>0, <2>5
    <3>2. bs[n] \in Block /\ bs[n].id = n
      BY <1>0, <1>2, <3>1, ElementOfSeq
    <3>3. TipOf(bs[n]) # NoTip /\ TipOf(bs[n]).block_id = n
      BY <3>2, NoTipAssumption, BlockAssumption DEF TipOf, Tips
    <3>4. validate_against_tip(TipOf(bs[n]), bs[n + 1]) = Ok
      BY <2>2, <3>1
    <3> QED
      BY <3>3, <3>4 DEF validate_against_tip, Ok
  <2> QED
    BY <2>4, <2>5
<1>3. Nat \subseteq S
  <2> HIDE DEF S
  <2> QED
    BY <1>1, <1>2, SetInduction
<1> QED
  BY <1>3

\* Tips are tips.
LEMMA TipTypes ==
    /\ \A b \in Block : TipOf(b) \in Tips /\ TipOf(b) # NoTip
    /\ \A bs \in Seq(Block) : TipOfChain(bs) \in Tips \cup {NoTip}
<1>1. ASSUME NEW b \in Block PROVE TipOf(b) \in Tips /\ TipOf(b) # NoTip
  <2>1. TipOf(b) \in Tips
    BY BlockAssumption DEF TipOf, Tips
  <2> QED
    BY <2>1, NoTipAssumption
<1>2. ASSUME NEW bs \in Seq(Block), bs # <<>> PROVE bs[Len(bs)] \in Block
  BY <1>2, EmptySeq, ElementOfSeq
<1> QED
  BY <1>1, <1>2 DEF TipOfChain

\* A block that applies on a chain has the next height.
LEMMA LinkedHeight ==
    ASSUME NEW bs, IsChain(bs), NEW b \in Block, validate_against_tip(TipOfChain(bs), b) = Ok
    PROVE  b.id = Len(bs) + 1
<1>1. bs \in Seq(Block)
  BY DEF IsChain
<1>2. CASE bs = <<>>
  BY <1>2 DEF validate_against_tip, TipOfChain, GENESIS_BLOCK_ID, Ok
<1>3. CASE bs # <<>>
  <2>1. Len(bs) \in 1..Len(bs) /\ bs[Len(bs)] \in Block
    BY <1>1, <1>3, ElementOfSeq, EmptySeq
  <2>2. bs[Len(bs)].id = Len(bs)
    BY <2>1, ChainIds
  <2>3. TipOfChain(bs).block_id = Len(bs) /\ TipOfChain(bs) # NoTip
    BY <1>3, <2>1, <2>2, TipTypes DEF TipOfChain, TipOf
  <2> QED
    BY <2>3 DEF validate_against_tip, Ok
<1> QED
  BY <1>2, <1>3

LEMMA NextHeight ==
    ASSUME NEW bs, IsChain(bs), NEW b \in Block, apply_block(TipOfChain(bs), b, bs) = Ok
    PROVE  /\ b.id = Len(bs) + 1 /\ b.intact
           /\ bs # <<>> => b.prev = bs[Len(bs)].hash
<1>1. IsChain(Append(bs, b))
  BY AppendIsChain
<1>2. bs \in Seq(Block) /\ Len(bs) \in Nat
  BY DEF IsChain
<1>3. Append(bs, b)[Len(bs) + 1] = b /\ Len(Append(bs, b)) = Len(bs) + 1
  BY <1>2, AppendProperties
<1>4. b.id = Len(bs) + 1
  <2> DEFINE a == Append(bs, b)
  <2>1. IsChain(a) /\ a[Len(bs) + 1] = b /\ Len(bs) + 1 \in 1..Len(a)
    BY <1>1, <1>2, <1>3
  <2> HIDE DEF a
  <2>2. a[Len(bs) + 1].id = Len(bs) + 1
    BY <2>1, ChainIds
  <2> QED
    BY <2>1, <2>2
<1>5. validate_against_tip(TipOfChain(bs), b) = Ok
  BY DEF apply_block
<1>6. b.intact
  BY <1>5 DEF validate_against_tip, Ok
<1>7. ASSUME bs # <<>> PROVE b.prev = bs[Len(bs)].hash
  <2>1. bs[Len(bs)] \in Block /\ TipOfChain(bs) = TipOf(bs[Len(bs)])
    BY <1>2, <1>7, EmptySeq, ElementOfSeq DEF TipOfChain
  <2>2. TipOfChain(bs) # NoTip
    BY <2>1, TipTypes
  <2>3. b.prev = TipOfChain(bs).hash
    BY <1>5, <1>6, <2>2 DEF validate_against_tip, Ok
  <2> QED
    BY <2>1, <2>3 DEF TipOf
<1> QED
  BY <1>4, <1>6, <1>7

\* The blocks of a chain are intact and name the block before them.
LEMMA ChainLinks ==
    ASSUME NEW bs, IsChain(bs), NEW i \in 1..Len(bs)
    PROVE  /\ bs[i] \in Block /\ bs[i].intact
           /\ i # 1 => bs[i].prev = bs[i - 1].hash
<1>1. bs \in Seq(Block) /\ Len(bs) \in Nat /\ i - 1 \in 0..Len(bs) /\ bs[i] \in Block
  BY ElementOfSeq DEF IsChain
<1> DEFINE p == SubSeq(bs, 1, i - 1)
<1>2. IsChain(p) /\ Len(p) = i - 1 /\ \A k \in 1..(i - 1) : p[k] = bs[k]
  BY <1>1, PrefixIsChain, PrefixProperties
<1>3. apply_block(TipOfChain(p), bs[i], p) = Ok
  BY <1>1, ChainIsFitting DEF Fits
<1> HIDE DEF p
<1>4. bs[i].intact /\ (p # <<>> => bs[i].prev = p[Len(p)].hash)
  BY <1>1, <1>2, <1>3, NextHeight
<1>5. ASSUME i # 1 PROVE p # <<>> /\ p[Len(p)] = bs[i - 1]
  BY <1>1, <1>2, <1>5
<1> QED
  BY <1>1, <1>4, <1>5

-----------------------------------------------------------------------------
(* What a list of blocks settles.                                          *)

\* The recursive function is the one its defining equation describes.
LEMMA SettledUnfolds ==
    ASSUME NEW bs, Len(bs) \in Nat
    PROVE  /\ SettledUpTo(bs)[0] = <<>>
           /\ \A i \in 1..Len(bs) :
                 SettledUpTo(bs)[i] = Settle(SettledUpTo(bs)[i - 1], bs[i])
<1> DEFINE F(x, i) == Settle(x, bs[i])
           S == {k \in Nat : \E g : g = [i \in 0..k |-> IF i = 0 THEN <<>> ELSE F(g[i - 1], i)]}
<1>1. 0 \in S
  <2> HIDE DEF F
  <2> DEFINE g == [i \in 0..0 |-> <<>>]
  <2>1. g = [i \in 0..0 |-> IF i = 0 THEN <<>> ELSE F(g[i - 1], i)]
    OBVIOUS
  <2> HIDE DEF g
  <2> QED
    BY <2>1
<1>2. ASSUME NEW k \in Nat, k \in S PROVE k + 1 \in S
  <2> HIDE DEF F
  <2>1. PICK g : g = [i \in 0..k |-> IF i = 0 THEN <<>> ELSE F(g[i - 1], i)]
    BY <1>2
  <2> DEFINE h == [i \in 0..(k + 1) |-> IF i <= k THEN g[i] ELSE F(g[k], k + 1)]
  <2>2. ASSUME NEW i \in 0..(k + 1)
        PROVE  h[i] = IF i = 0 THEN <<>> ELSE F(h[i - 1], i)
    <3>1. CASE i = 0
      BY <2>1, <3>1
    <3>2. CASE i # 0 /\ i <= k
      <4>1. i - 1 \in 0..k /\ i \in 0..k /\ i - 1 \in 0..(k + 1)
        BY <3>2
      <4>2. h[i] = g[i] /\ h[i - 1] = g[i - 1] /\ g[i] = F(g[i - 1], i)
        BY <2>1, <3>2, <4>1
      <4> QED
        BY <3>2, <4>2
    <3>3. CASE i = k + 1
      <4>1. h[k + 1] = F(g[k], k + 1) /\ h[k] = g[k] /\ (k + 1) - 1 = k
        OBVIOUS
      <4> QED
        BY <3>3, <4>1
    <3> QED
      BY <3>1, <3>2, <3>3
  <2>3. h = [i \in 0..(k + 1) |-> IF i = 0 THEN <<>> ELSE F(h[i - 1], i)]
    <3>1. h = [i \in 0..(k + 1) |-> h[i]]
      OBVIOUS
    <3> HIDE DEF h
    <3> QED
      BY <2>2, <3>1
  <2> HIDE DEF h
  <2> QED
    BY <2>3
<1>3. Len(bs) \in S
  <2> HIDE DEF S
  <2> QED
    BY <1>1, <1>2, SetInduction
<1> DEFINE A == SettledUpTo(bs)
<1>4. A = [i \in 0..Len(bs) |-> IF i = 0 THEN <<>> ELSE F(A[i - 1], i)]
  <2> HIDE DEF F
  <2>1. A = CHOOSE g : g = [i \in 0..Len(bs) |-> IF i = 0 THEN <<>> ELSE F(g[i - 1], i)]
    BY Zenon DEF SettledUpTo, F
  <2>2. \E g : g = [i \in 0..Len(bs) |-> IF i = 0 THEN <<>> ELSE F(g[i - 1], i)]
    BY <1>3
  <2> HIDE DEF A
  <2> QED
    BY <2>1, <2>2, Zenon
<1> HIDE DEF A, F
<1>5. A[0] = <<>> /\ \A i \in 1..Len(bs) : A[i] = F(A[i - 1], i)
  BY <1>4
<1> QED
  BY <1>5, Zenon DEF A, F

\* Two lists that agree up to n settle the same up to n.
LEMMA SettledAgree ==
    ASSUME NEW bs, NEW cs, Len(bs) \in Nat, Len(cs) \in Nat, NEW n \in Nat,
           n <= Len(bs), n <= Len(cs), \A i \in 1..n : bs[i] = cs[i]
    PROVE  SettledUpTo(bs)[n] = SettledUpTo(cs)[n]
<1> DEFINE A == SettledUpTo(bs)
           B == SettledUpTo(cs)
           S == {k \in Nat : k <= n => A[k] = B[k]}
<1>1. A[0] = <<>> /\ \A i \in 1..Len(bs) : A[i] = Settle(A[i - 1], bs[i])
  BY SettledUnfolds, Zenon
<1>2. B[0] = <<>> /\ \A i \in 1..Len(cs) : B[i] = Settle(B[i - 1], cs[i])
  BY SettledUnfolds, Zenon
<1> HIDE DEF A, B
<1>3. 0 \in S
  BY <1>1, <1>2
<1>4. ASSUME NEW k \in Nat, k \in S PROVE k + 1 \in S
  <2> SUFFICES ASSUME k + 1 <= n PROVE A[k + 1] = B[k + 1]
    OBVIOUS
  <2>1. A[k] = B[k] /\ bs[k + 1] = cs[k + 1] /\ (k + 1) - 1 = k
    BY <1>4
  <2>2. A[k + 1] = Settle(A[k], bs[k + 1]) /\ B[k + 1] = Settle(B[k], cs[k + 1])
    BY <1>1, <1>2, <2>1
  <2> QED
    BY <2>1, <2>2
<1>5. n \in S
  <2> HIDE DEF S
  <2> QED
    BY <1>3, <1>4, SetInduction
<1> QED
  BY <1>5 DEF A, B

\* One more block is settled on what was settled before it.
LEMMA SettledStep ==
    /\ Settled(<<>>) = <<>>
    /\ \A bs \in Seq(Block) : \A b \in Block :
          Settled(Append(bs, b)) = Settle(Settled(bs), b)
<1>1. Settled(<<>>) = <<>>
  <2>1. Len(<<>>) = 0
    OBVIOUS
  <2> QED
    BY <2>1, SettledUnfolds DEF Settled
<1>2. ASSUME NEW bs \in Seq(Block), NEW b \in Block
      PROVE  Settled(Append(bs, b)) = Settle(Settled(bs), b)
  <2> DEFINE cs == Append(bs, b)
             n  == Len(bs)
  <2>1. /\ cs \in Seq(Block) /\ Len(cs) = n + 1 /\ n \in Nat
        /\ \A i \in 1..n : cs[i] = bs[i]
        /\ cs[n + 1] = b
    BY AppendProperties
  <2> HIDE DEF cs
  <2>2. SettledUpTo(cs)[n] = SettledUpTo(bs)[n]
    <3>1. Len(cs) \in Nat /\ n <= Len(cs) /\ n <= Len(bs) /\ \A i \in 1..n : bs[i] = cs[i]
      BY <2>1
    <3> QED
      BY <2>1, <3>1, SettledAgree
  <2>3. SettledUpTo(cs)[n + 1] = Settle(SettledUpTo(cs)[(n + 1) - 1], cs[n + 1])
    BY <2>1, SettledUnfolds
  <2>4. (n + 1) - 1 = n
    BY <2>1
  <2> QED
    BY <2>1, <2>2, <2>3, <2>4 DEF Settled, cs
<1> QED
  BY <1>1, <1>2

\* Settling extends a chain to a chain.
LEMMA SettleOK ==
    ASSUME NEW c, IsChain(c), NEW b \in Block
    PROVE  /\ IsChain(Settle(c, b))
           /\ Extends(c, Settle(c, b))
<1>1. c \in Seq(Block)
  BY DEF IsChain
<1>2. CASE apply_block(TipOfChain(c), b, c) = Ok
  BY <1>1, <1>2, AppendIsChain, PrefixOfAppend DEF Settle
<1>3. CASE apply_block(TipOfChain(c), b, c) # Ok
  BY <1>1, <1>3, PrefixRefl DEF Settle
<1> QED
  BY <1>2, <1>3

-----------------------------------------------------------------------------
(* What the first n entries of a channel settle.                           *)

Entry == [slot : Nat \ {0}, msg : Messages]

\* The chain that the first n entries settle.
ChainAt(es, n) == Settled(BlocksIn(SubSeq(es, 1, n)))

\* Whether b extends the chain c.
Extending(c, b) == apply_block(TipOfChain(c), b, c) = Ok

\* A message that is a block carries a block.
LEMMA MessageTypes ==
    ASSUME NEW m \in Messages, m.kind = "block"
    PROVE  m.block \in Block /\ m = BlockMsg(m.block)
<1>1. CASE m \in {BlockMsg(b) : b \in Block}
  <2>1. PICK b \in Block : m = BlockMsg(b)
    BY <1>1
  <2>2. BlockMsg(b).block = b
    BY DEF BlockMsg
  <2> QED
    BY <2>1, <2>2
<1>2. CASE m \in {Garbage, Other}
  BY <1>2 DEF Garbage, Other
<1> QED
  BY <1>1, <1>2 DEF Messages

\* The recursive function is the one its defining equation describes.
LEMMA BlocksUnfold ==
    ASSUME NEW es, Len(es) \in Nat
    PROVE  /\ BlocksUpTo(es)[0] = <<>>
           /\ \A i \in 1..Len(es) :
                 BlocksUpTo(es)[i] = IF es[i].msg.kind = "block"
                                     THEN Append(BlocksUpTo(es)[i - 1], es[i].msg.block)
                                     ELSE BlocksUpTo(es)[i - 1]
<1> DEFINE F(x, i) == IF es[i].msg.kind = "block" THEN Append(x, es[i].msg.block) ELSE x
           S == {k \in Nat : \E g : g = [i \in 0..k |-> IF i = 0 THEN <<>> ELSE F(g[i - 1], i)]}
<1>1. 0 \in S
  <2> HIDE DEF F
  <2> DEFINE g == [i \in 0..0 |-> <<>>]
  <2>1. g = [i \in 0..0 |-> IF i = 0 THEN <<>> ELSE F(g[i - 1], i)]
    OBVIOUS
  <2> HIDE DEF g
  <2> QED
    BY <2>1
<1>2. ASSUME NEW k \in Nat, k \in S PROVE k + 1 \in S
  <2> HIDE DEF F
  <2>1. PICK g : g = [i \in 0..k |-> IF i = 0 THEN <<>> ELSE F(g[i - 1], i)]
    BY <1>2
  <2> DEFINE h == [i \in 0..(k + 1) |-> IF i <= k THEN g[i] ELSE F(g[k], k + 1)]
  <2>2. ASSUME NEW i \in 0..(k + 1)
        PROVE  h[i] = IF i = 0 THEN <<>> ELSE F(h[i - 1], i)
    <3>1. CASE i = 0
      BY <2>1, <3>1
    <3>2. CASE i # 0 /\ i <= k
      <4>1. i - 1 \in 0..k /\ i \in 0..k /\ i - 1 \in 0..(k + 1)
        BY <3>2
      <4>2. h[i] = g[i] /\ h[i - 1] = g[i - 1] /\ g[i] = F(g[i - 1], i)
        BY <2>1, <3>2, <4>1
      <4> QED
        BY <3>2, <4>2
    <3>3. CASE i = k + 1
      <4>1. h[k + 1] = F(g[k], k + 1) /\ h[k] = g[k] /\ (k + 1) - 1 = k
        OBVIOUS
      <4> QED
        BY <3>3, <4>1
    <3> QED
      BY <3>1, <3>2, <3>3
  <2>3. h = [i \in 0..(k + 1) |-> IF i = 0 THEN <<>> ELSE F(h[i - 1], i)]
    <3>1. h = [i \in 0..(k + 1) |-> h[i]]
      OBVIOUS
    <3> HIDE DEF h
    <3> QED
      BY <2>2, <3>1
  <2> HIDE DEF h
  <2> QED
    BY <2>3
<1>3. Len(es) \in S
  <2> HIDE DEF S
  <2> QED
    BY <1>1, <1>2, SetInduction
<1> DEFINE A == BlocksUpTo(es)
<1>4. A = [i \in 0..Len(es) |-> IF i = 0 THEN <<>> ELSE F(A[i - 1], i)]
  <2> HIDE DEF F
  <2>1. A = CHOOSE g : g = [i \in 0..Len(es) |-> IF i = 0 THEN <<>> ELSE F(g[i - 1], i)]
    BY Zenon DEF BlocksUpTo, F
  <2>2. \E g : g = [i \in 0..Len(es) |-> IF i = 0 THEN <<>> ELSE F(g[i - 1], i)]
    BY <1>3
  <2> HIDE DEF A
  <2> QED
    BY <2>1, <2>2, Zenon
<1> HIDE DEF A, F
<1>5. A[0] = <<>> /\ \A i \in 1..Len(es) : A[i] = F(A[i - 1], i)
  BY <1>4
<1> QED
  BY <1>5, Zenon DEF A, F

\* The blocks of a prefix are those read up to its end.
LEMMA EntriesPrefix ==
    ASSUME NEW es \in Seq(Entry), NEW n \in 0..Len(es)
    PROVE  BlocksIn(SubSeq(es, 1, n)) = BlocksUpTo(es)[n]
<1> DEFINE p == SubSeq(es, 1, n)
           A == BlocksUpTo(es)
           B == BlocksUpTo(p)
           S == {k \in Nat : k <= n => A[k] = B[k]}
<1>0. p \in Seq(Entry) /\ Len(p) = n /\ \A i \in 1..n : p[i] = es[i]
  BY PrefixProperties
<1>1. n \in Nat /\ Len(es) \in Nat /\ Len(p) \in Nat
  BY <1>0
<1> HIDE DEF p
<1>2. A[0] = <<>> /\ \A i \in 1..Len(es) :
         A[i] = IF es[i].msg.kind = "block" THEN Append(A[i - 1], es[i].msg.block) ELSE A[i - 1]
  BY <1>1, BlocksUnfold, Zenon
<1>3. B[0] = <<>> /\ \A i \in 1..Len(p) :
         B[i] = IF p[i].msg.kind = "block" THEN Append(B[i - 1], p[i].msg.block) ELSE B[i - 1]
  BY <1>1, BlocksUnfold, Zenon
<1> HIDE DEF A, B
<1>4. 0 \in S
  BY <1>2, <1>3
<1>5. ASSUME NEW k \in Nat, k \in S PROVE k + 1 \in S
  <2> SUFFICES ASSUME k + 1 <= n PROVE A[k + 1] = B[k + 1]
    OBVIOUS
  <2>1. /\ A[k] = B[k] /\ es[k + 1] = p[k + 1] /\ (k + 1) - 1 = k
        /\ k + 1 \in 1..Len(es) /\ k + 1 \in 1..Len(p)
    BY <1>0, <1>1, <1>5
  <2> QED
    BY <1>2, <1>3, <2>1, Zenon
<1>6. n \in S
  <2> HIDE DEF S
  <2> QED
    BY <1>1, <1>4, <1>5, SetInduction
<1> QED
  BY <1>0, <1>6 DEF BlocksIn, A, B, p

LEMMA EntryTypes ==
    ASSUME NEW es \in Seq(Entry), NEW i \in 1..Len(es)
    PROVE  /\ es[i] \in Entry /\ es[i].slot \in Nat /\ es[i].msg \in Messages
           /\ es[i].msg.kind = "block" =>
                 es[i].msg.block \in Block /\ es[i].msg = BlockMsg(es[i].msg.block)
<1>1. es[i] \in Entry
  BY ElementOfSeq
<1>2. es[i].slot \in Nat /\ es[i].msg \in Messages
  BY <1>1 DEF Entry
<1> QED
  BY <1>1, <1>2, MessageTypes

\* Reading one more entry.
LEMMA ChainAtStep ==
    ASSUME NEW es \in Seq(Entry)
    PROVE  /\ ChainAt(es, 0) = <<>>
           /\ \A n \in 1..Len(es) :
                 ChainAt(es, n) = IF es[n].msg.kind = "block"
                                  THEN Settle(ChainAt(es, n - 1), es[n].msg.block)
                                  ELSE ChainAt(es, n - 1)
           /\ \A n \in 0..Len(es) : BlocksIn(SubSeq(es, 1, n)) \in Seq(Block)
<1> DEFINE A == BlocksUpTo(es)
           S == {n \in Nat : n <= Len(es) => A[n] \in Seq(Block)}
<1>0. Len(es) \in Nat
  OBVIOUS
<1>1. /\ A[0] = <<>>
      /\ \A i \in 1..Len(es) :
            A[i] = IF es[i].msg.kind = "block" THEN Append(A[i - 1], es[i].msg.block) ELSE A[i - 1]
  BY <1>0, BlocksUnfold, Zenon
<1>2. \A n \in 0..Len(es) : BlocksIn(SubSeq(es, 1, n)) = A[n]
  BY EntriesPrefix, Zenon
<1> HIDE DEF A
<1>3. \A i \in 1..Len(es) : es[i].msg.kind = "block" => es[i].msg.block \in Block
  BY EntryTypes
<1>4. 0 \in S
  <2>1. <<>> \in Seq(Block)
    OBVIOUS
  <2>2. A[0] \in Seq(Block)
    BY <1>1, <2>1, Zenon
  <2> QED
    BY <2>2
<1>5. ASSUME NEW n \in Nat, n \in S PROVE n + 1 \in S
  <2> SUFFICES ASSUME n + 1 <= Len(es) PROVE A[n + 1] \in Seq(Block)
    OBVIOUS
  <2>1. A[n] \in Seq(Block) /\ n + 1 \in 1..Len(es) /\ (n + 1) - 1 = n
    BY <1>0, <1>5
  <2>2. CASE es[n + 1].msg.kind = "block"
    <3>1. A[n + 1] = Append(A[n], es[n + 1].msg.block) /\ es[n + 1].msg.block \in Block
      BY <1>1, <1>3, <2>1, <2>2
    <3> QED
      BY <2>1, <3>1, AppendProperties
  <2>3. CASE es[n + 1].msg.kind # "block"
    BY <1>1, <2>1, <2>3
  <2> QED
    BY <2>2, <2>3
<1>6. \A n \in 0..Len(es) : A[n] \in Seq(Block)
  <2>1. Nat \subseteq S
    <3> HIDE DEF S
    <3> QED
      BY <1>4, <1>5, SetInduction
  <2> QED
    BY <1>0, <2>1
<1>7. ChainAt(es, 0) = <<>>
  BY <1>0, <1>1, <1>2, SettledStep DEF ChainAt
<1>8. ASSUME NEW n \in 1..Len(es)
      PROVE  ChainAt(es, n) = IF es[n].msg.kind = "block"
                              THEN Settle(ChainAt(es, n - 1), es[n].msg.block)
                              ELSE ChainAt(es, n - 1)
  <2>1. n \in 0..Len(es) /\ n - 1 \in 0..Len(es)
    BY <1>0
  <2>2. ChainAt(es, n) = Settled(A[n]) /\ ChainAt(es, n - 1) = Settled(A[n - 1])
    BY <1>2, <2>1 DEF ChainAt
  <2>3. A[n - 1] \in Seq(Block)
    BY <1>6, <2>1
  <2>4. CASE es[n].msg.kind = "block"
    <3>1. A[n] = Append(A[n - 1], es[n].msg.block) /\ es[n].msg.block \in Block
      BY <1>1, <1>3, <2>4
    <3>2. Settled(Append(A[n - 1], es[n].msg.block)) = Settle(Settled(A[n - 1]), es[n].msg.block)
      BY <2>3, <3>1, SettledStep
    <3> QED
      BY <2>2, <2>4, <3>1, <3>2
  <2>5. CASE es[n].msg.kind # "block"
    BY <1>1, <2>2, <2>5
  <2> QED
    BY <2>4, <2>5
<1> QED
  BY <1>2, <1>6, <1>7, <1>8

\* What is settled is a chain.
LEMMA ChainAtIsChain ==
    ASSUME NEW es \in Seq(Entry), NEW n \in 0..Len(es)
    PROVE  IsChain(ChainAt(es, n))
<1> DEFINE S == {k \in Nat : k <= Len(es) => IsChain(ChainAt(es, k))}
<1>0. Len(es) \in Nat
  OBVIOUS
<1>1. 0 \in S
  <2>1. IsChain(<<>>)
    BY DEF IsChain, Replays
  <2> QED
    BY <2>1, ChainAtStep
<1>2. ASSUME NEW k \in Nat, k \in S PROVE k + 1 \in S
  <2> SUFFICES ASSUME k + 1 <= Len(es) PROVE IsChain(ChainAt(es, k + 1))
    OBVIOUS
  <2>1. IsChain(ChainAt(es, k)) /\ k + 1 \in 1..Len(es) /\ (k + 1) - 1 = k
    BY <1>0, <1>2
  <2>2. ChainAt(es, k + 1) = IF es[k + 1].msg.kind = "block"
                             THEN Settle(ChainAt(es, k), es[k + 1].msg.block)
                             ELSE ChainAt(es, k)
    BY <2>1, ChainAtStep
  <2>3. es[k + 1].msg \in Messages
    BY <2>1, EntryTypes
  <2>4. CASE es[k + 1].msg.kind = "block"
    <3>1. es[k + 1].msg.block \in Block
      BY <2>3, <2>4, MessageTypes
    <3> QED
      BY <2>1, <2>2, <2>4, <3>1, SettleOK
  <2>5. CASE es[k + 1].msg.kind # "block"
    BY <2>1, <2>2, <2>5
  <2> QED
    BY <2>4, <2>5
<1>3. n \in S
  <2>1. n \in Nat
    BY <1>0
  <2> HIDE DEF S
  <2> QED
    BY <1>1, <1>2, <2>1, SetInduction
<1> QED
  BY <1>0, <1>3

\* Reading on only extends what is settled.
LEMMA ChainAtGrows ==
    ASSUME NEW es \in Seq(Entry), NEW m \in Nat, NEW n \in Nat, m <= n, n <= Len(es)
    PROVE  Extends(ChainAt(es, m), ChainAt(es, n))
<1> DEFINE S == {k \in Nat : m + k <= Len(es) => Extends(ChainAt(es, m), ChainAt(es, m + k))}
<1>0. Len(es) \in Nat
  OBVIOUS
<1>1. 0 \in S
  <2>1. ChainAt(es, m) \in Seq(Block)
    BY <1>0, ChainAtIsChain DEF IsChain
  <2> QED
    BY <2>1, PrefixRefl
<1>2. ASSUME NEW k \in Nat, k \in S PROVE k + 1 \in S
  <2> DEFINE j == m + k
  <2> SUFFICES ASSUME m + (k + 1) <= Len(es)
               PROVE  Extends(ChainAt(es, m), ChainAt(es, m + (k + 1)))
    OBVIOUS
  <2>1. /\ Extends(ChainAt(es, m), ChainAt(es, j)) /\ j + 1 \in 1..Len(es) /\ j \in 0..Len(es)
        /\ (j + 1) - 1 = j /\ m + (k + 1) = j + 1 /\ m \in 0..Len(es) /\ j + 1 \in 0..Len(es)
    BY <1>0, <1>2
  <2> HIDE DEF j
  <2>2. /\ IsChain(ChainAt(es, j)) /\ IsChain(ChainAt(es, m)) /\ IsChain(ChainAt(es, j + 1))
    BY <2>1, ChainAtIsChain
  <2>3. ChainAt(es, j + 1) = IF es[j + 1].msg.kind = "block"
                             THEN Settle(ChainAt(es, j), es[j + 1].msg.block)
                             ELSE ChainAt(es, j)
    BY <2>1, ChainAtStep
  <2>4. Extends(ChainAt(es, j), ChainAt(es, j + 1))
    <3>1. es[j + 1].msg \in Messages
      BY <2>1, EntryTypes
    <3>2. CASE es[j + 1].msg.kind = "block"
      <4>1. es[j + 1].msg.block \in Block
        BY <3>1, <3>2, MessageTypes
      <4> QED
        BY <2>2, <2>3, <3>2, <4>1, SettleOK
    <3>3. CASE es[j + 1].msg.kind # "block"
      BY <2>2, <2>3, <3>3, PrefixRefl DEF IsChain
    <3> QED
      BY <3>2, <3>3
  <2>5. Extends(ChainAt(es, m), ChainAt(es, j + 1))
    BY <2>1, <2>2, <2>4, ExtendsTransitive DEF IsChain
  <2> QED
    BY <2>1, <2>5
<1>3. n - m \in S /\ m + (n - m) = n
  <2>1. n - m \in Nat /\ m + (n - m) = n
    OBVIOUS
  <2> HIDE DEF S
  <2> QED
    BY <1>1, <1>2, <2>1, SetInduction
<1> QED
  BY <1>3

\* On a channel that carries every block after its parent, reading an entry again
\* adds nothing: no block among the first n extends what they settle.
LEMMA RereadingAddsNothing ==
    ASSUME NEW es \in Seq(Entry), InOrder(es), NEW n \in 0..Len(es), NEW q \in 1..n,
           es[q].msg.kind = "block"
    PROVE  ~Extending(ChainAt(es, n), es[q].msg.block)
<1> DEFINE Idle(k) == \A i \in 1..k : es[i].msg.kind = "block" =>
                          ~Extending(ChainAt(es, k), es[i].msg.block)
           S == {k \in Nat : k <= Len(es) => Idle(k)}
<1>0. Len(es) \in Nat
  OBVIOUS
<1>1. 0 \in S
  OBVIOUS
<1>2. ASSUME NEW k \in Nat, k \in S PROVE k + 1 \in S
  <2> SUFFICES ASSUME k + 1 <= Len(es), NEW i \in 1..(k + 1), es[i].msg.kind = "block",
                      Extending(ChainAt(es, k + 1), es[i].msg.block)
               PROVE  FALSE
    OBVIOUS
  <2> DEFINE c == ChainAt(es, k)
             x == es[i].msg.block
             b == es[k + 1].msg.block
  <2>1. /\ Idle(k) /\ k + 1 \in 1..Len(es) /\ (k + 1) - 1 = k /\ k \in 0..Len(es)
        /\ i \in 1..Len(es)
    BY <1>0, <1>2
  <2>2. x \in Block /\ (es[k + 1].msg.kind = "block" => b \in Block)
    BY <2>1, EntryTypes
  <2>3. ChainAt(es, k + 1) = IF es[k + 1].msg.kind = "block" THEN Settle(c, b) ELSE c
    BY <2>1, ChainAtStep
  <2>4. IsChain(c)
    BY <2>1, ChainAtIsChain
  <2> HIDE DEF c
  <2>5. CASE ChainAt(es, k + 1) = c /\ i \in 1..k
    BY <2>1, <2>5 DEF c
  <2>6. CASE ChainAt(es, k + 1) = c /\ i = k + 1
    <3>1. Extending(c, b) /\ es[k + 1].msg.kind = "block"
      BY <2>6
    <3>2. Settle(c, b) = Append(c, b) /\ Settle(c, b) = c
      BY <2>3, <2>6, <3>1 DEF Settle, Extending
    <3>3. c \in Seq(Block) /\ Len(Append(c, b)) = Len(c) + 1 /\ Len(c) \in Nat
      BY <2>2, <2>4, <3>1, AppendProperties DEF IsChain
    <3> QED
      BY <3>2, <3>3
  <2>7. CASE ChainAt(es, k + 1) # c
    <3>1. /\ es[k + 1].msg.kind = "block" /\ b \in Block /\ Extending(c, b)
          /\ ChainAt(es, k + 1) = Append(c, b)
      BY <2>2, <2>3, <2>7 DEF Settle, Extending
    <3>2. b.intact /\ IsChain(Append(c, b)) /\ b.id = Len(c) + 1
      BY <2>4, <3>1, NextHeight, AppendIsChain DEF Extending
    <3> DEFINE a == Append(c, b)
    <3>3. a # <<>> /\ a[Len(a)] = b
      <4>1. c \in Seq(Block)
        BY <2>4 DEF IsChain
      <4> HIDE DEF b
      <4> QED
        BY <3>1, <4>1, AppendProperties
    <3> HIDE DEF a
    <3>4. Extending(a, x)
      BY <3>1 DEF a
    <3>5. x.prev = b.hash
      <4>1. IsChain(a) /\ apply_block(TipOfChain(a), x, a) = Ok
        BY <3>2, <3>4 DEF Extending, a
      <4>2. a # <<>> => x.prev = a[Len(a)].hash
        BY <2>2, <4>1, NextHeight
      <4> QED
        BY <3>3, <4>2
    <3>6. PICK j \in 1..(i - 1) : es[j].msg = BlockMsg(b)
      BY <2>1, <3>1, <3>2, <3>5 DEF InOrder
    <3>7. j \in 1..k /\ es[j].msg.kind = "block" /\ es[j].msg.block = b
      BY <2>1, <3>6 DEF BlockMsg
    <3> QED
      BY <2>1, <3>1, <3>7 DEF c
  <2> QED
    BY <2>1, <2>5, <2>6, <2>7
<1>3. n \in S
  <2>1. n \in Nat
    BY <1>0
  <2> HIDE DEF S
  <2> QED
    BY <1>1, <1>2, <2>1, SetInduction
<1> QED
  BY <1>0, <1>3

\* The first n entries settle the same whatever follows them.
LEMMA ChainAtConcat ==
    ASSUME NEW es \in Seq(Entry), NEW fs \in Seq(Entry), NEW n \in 0..Len(es)
    PROVE  ChainAt(es \o fs, n) = ChainAt(es, n)
<1> DEFINE l == SubSeq(es, 1, n)
           r == SubSeq(es \o fs, 1, n)
<1>0. Len(es) \in Nat /\ Len(fs) \in Nat
  OBVIOUS
<1>1. /\ es \o fs \in Seq(Entry) /\ Len(es \o fs) = Len(es) + Len(fs)
      /\ \A i \in 1..Len(es) : (es \o fs)[i] = es[i]
  BY <1>0, ConcatProperties
<1>2. l \in Seq(Entry) /\ Len(l) = n /\ \A i \in 1..n : l[i] = es[i]
  BY <1>0
<1>3. r \in Seq(Entry) /\ Len(r) = n /\ \A i \in 1..n : r[i] = (es \o fs)[i]
  <2> DEFINE g == es \o fs
  <2>1. g \in Seq(Entry) /\ n \in 0..Len(g)
    BY <1>0, <1>1
  <2> HIDE DEF g
  <2>2. SubSeq(g, 1, n) \in Seq(Entry) /\ Len(SubSeq(g, 1, n)) = n
        /\ \A i \in 1..n : SubSeq(g, 1, n)[i] = g[i]
    BY <2>1
  <2> QED
    BY <2>2 DEF g
<1>4. \A i \in 1..n : i \in 1..Len(es)
  BY <1>0
<1> HIDE DEF l, r
<1>5. l = r
  BY <1>1, <1>2, <1>3, <1>4, SeqEqual
<1> QED
  BY <1>5 DEF ChainAt, l, r

\* All of the entries.
LEMMA ChainAtEnd ==
    ASSUME NEW es \in Seq(Entry)
    PROVE  ChainAt(es, Len(es)) = Settled(BlocksIn(es))
  BY SubSeqFull DEF ChainAt

-----------------------------------------------------------------------------
(* Entries in slot order, and the ones a cursor leaves behind.             *)

Sorted(es) == \A i, j \in 1..Len(es) : i <= j => es[i].slot <= es[j].slot

LEMMA ReadUpToIs ==
    ASSUME NEW es \in Seq(Entry), NEW s \in Nat, NEW n \in 0..Len(es),
           \A k \in 1..Len(es) : es[k].slot <= s <=> k <= n
    PROVE  ReadUpTo(es, s) = n
<1> DEFINE r == ReadUpTo(es, s)
<1>0. Len(es) \in Nat
  OBVIOUS
<1>1. r \in 0..Len(es) /\ \A k \in 1..Len(es) : es[k].slot <= s <=> k <= r
  BY DEF ReadUpTo
<1> HIDE DEF r
<1>2. CASE r < n
  <2>1. r + 1 \in 1..Len(es) /\ r + 1 <= n /\ ~(r + 1 <= r)
    BY <1>0, <1>1, <1>2
  <2> QED
    BY <1>1, <2>1
<1>3. CASE n < r
  <2>1. n + 1 \in 1..Len(es) /\ n + 1 <= r /\ ~(n + 1 <= n)
    BY <1>0, <1>1, <1>3
  <2> QED
    BY <1>1, <2>1
<1>4. r = n
  BY <1>0, <1>1, <1>2, <1>3
<1> QED
  BY <1>4 DEF r

LEMMA ReadUpToOK ==
    ASSUME NEW es \in Seq(Entry), Sorted(es), NEW s \in Nat
    PROVE  /\ ReadUpTo(es, s) \in 0..Len(es)
           /\ \A k \in 1..Len(es) : es[k].slot <= s <=> k <= ReadUpTo(es, s)
<1> DEFINE P == {0} \cup {k \in 1..Len(es) : es[k].slot <= s}
           n == Max(P)
<1>0. Len(es) \in Nat /\ \A k \in 1..Len(es) : es[k].slot \in Nat
  BY EntryTypes
<1>1. P \subseteq Nat /\ 0 \in P /\ \A x \in P : x <= Len(es)
  BY <1>0
<1>2. n \in P /\ \A x \in P : x <= n
  <2> HIDE DEF P
  <2> QED
    BY <1>0, <1>1, MaxOfNats
<1> HIDE DEF n
<1>3. n \in 0..Len(es)
  BY <1>0, <1>2
<1>4. ASSUME NEW k \in 1..Len(es) PROVE es[k].slot <= s <=> k <= n
  <2>1. ASSUME es[k].slot <= s PROVE k <= n
    BY <1>2, <2>1
  <2>2. ASSUME k <= n PROVE es[k].slot <= s
    <3>1. n \in 1..Len(es) /\ es[n].slot <= s
      BY <1>0, <1>2, <2>2
    <3>2. es[k].slot <= es[n].slot
      BY <2>2, <3>1 DEF Sorted
    <3>3. es[k].slot \in Nat /\ es[n].slot \in Nat
      BY <1>0, <3>1
    <3> QED
      BY <3>1, <3>2, <3>3
  <2> QED
    BY <2>1, <2>2
<1>5. ReadUpTo(es, s) = n
  BY <1>3, <1>4, ReadUpToIs
<1> QED
  BY <1>3, <1>4, <1>5

LEMMA ReadUpToZero ==
    ASSUME NEW es \in Seq(Entry)
    PROVE  ReadUpTo(es, 0) = 0
<1>1. \A k \in 1..Len(es) : es[k].slot \in Nat \ {0}
  BY EntryTypes DEF Entry
<1>2. \A k \in 1..Len(es) : es[k].slot <= 0 <=> k <= 0
  BY <1>1
<1>3. 0 \in 0..Len(es)
  OBVIOUS
<1> QED
  BY <1>2, <1>3, ReadUpToIs

\* No slot has entries on both sides of q.
Boundary(es, q) == \A j \in 1..q : \A k \in (q + 1)..Len(es) : es[j].slot < es[k].slot

LEMMA BoundaryIsReadUpTo ==
    ASSUME NEW es \in Seq(Entry), Sorted(es), NEW q \in 1..Len(es), Boundary(es, q)
    PROVE  ReadUpTo(es, es[q].slot) = q
<1>0. Len(es) \in Nat /\ \A k \in 1..Len(es) : es[k].slot \in Nat
  BY EntryTypes
<1>1. ASSUME NEW k \in 1..Len(es) PROVE es[k].slot <= es[q].slot <=> k <= q
  <2>1. CASE k <= q
    BY <2>1 DEF Sorted
  <2>2. CASE ~(k <= q)
    <3>1. k \in (q + 1)..Len(es) /\ q \in 1..q
      BY <1>0, <2>2
    <3>2. es[q].slot < es[k].slot
      BY <3>1 DEF Boundary
    <3> QED
      BY <1>0, <2>2, <3>2
  <2> QED
    BY <2>1, <2>2
<1>2. q \in 0..Len(es) /\ es[q].slot \in Nat
  BY <1>0
<1> QED
  BY <1>1, <1>2, ReadUpToIs

\* Between two entries of different slots there is a boundary.
LEMMA BoundaryBetween ==
    ASSUME NEW es \in Seq(Entry), Sorted(es), NEW p \in 1..Len(es), p + 1 <= Len(es),
           es[p].slot # es[p + 1].slot
    PROVE  Boundary(es, p)
<1>0. Len(es) \in Nat /\ \A k \in 1..Len(es) : es[k].slot \in Nat
  BY EntryTypes
<1> SUFFICES ASSUME NEW j \in 1..p, NEW k \in (p + 1)..Len(es)
             PROVE  es[j].slot < es[k].slot
  BY DEF Boundary
<1>1. j \in 1..Len(es) /\ k \in 1..Len(es) /\ p + 1 \in 1..Len(es) /\ j <= p /\ p + 1 <= k /\ p <= p + 1
  BY <1>0
<1>2. es[j].slot <= es[p].slot /\ es[p].slot <= es[p + 1].slot /\ es[p + 1].slot <= es[k].slot
  BY <1>1 DEF Sorted
<1> QED
  BY <1>0, <1>1, <1>2

\* Reading over an entry that does not extend what is settled.
LEMMA ReadOver ==
    ASSUME NEW es \in Seq(Entry), NEW p \in Nat, NEW h \in 0..Len(es), p <= h, p + 1 <= Len(es),
           es[p + 1].msg.kind = "block" => ~Extending(ChainAt(es, h), es[p + 1].msg.block)
    PROVE  \E n \in 0..Len(es) : /\ h <= n /\ p + 1 <= n /\ (n = h \/ n = p + 1)
                                 /\ ChainAt(es, n) = ChainAt(es, h)
<1>0. Len(es) \in Nat
  OBVIOUS
<1>1. CASE p < h
  BY <1>0, <1>1
<1>2. CASE p = h
  <2>1. p + 1 \in 1..Len(es) /\ (p + 1) - 1 = h /\ p + 1 \in 0..Len(es) /\ h <= p + 1
    BY <1>0, <1>2
  <2>2. ChainAt(es, p + 1) = ChainAt(es, h)
    BY <2>1, ChainAtStep DEF Settle, Extending
  <2> QED
    BY <2>1, <2>2
<1> QED
  BY <1>0, <1>1, <1>2

\* On a channel in order, an entry that extends what is settled is the next one.
LEMMA ReadOn ==
    ASSUME NEW es \in Seq(Entry), InOrder(es), NEW p \in Nat, NEW h \in 0..Len(es), p <= h,
           p + 1 <= Len(es), es[p + 1].msg.kind = "block",
           Extending(ChainAt(es, h), es[p + 1].msg.block)
    PROVE  h = p /\ ChainAt(es, p + 1) = Append(ChainAt(es, h), es[p + 1].msg.block)
<1>0. Len(es) \in Nat
  OBVIOUS
<1>1. ~(p < h)
  <2> SUFFICES ASSUME p < h PROVE FALSE
    OBVIOUS
  <2>1. p + 1 \in 1..h
    BY <1>0
  <2> QED
    BY <2>1, RereadingAddsNothing
<1>2. h = p /\ p + 1 \in 1..Len(es) /\ (p + 1) - 1 = h
  BY <1>0, <1>1
<1>3. ChainAt(es, p + 1) = Append(ChainAt(es, h), es[p + 1].msg.block)
  BY <1>2, ChainAtStep DEF Settle, Extending
<1> QED
  BY <1>2, <1>3

-----------------------------------------------------------------------------
(* A slot is finalized.                                                    *)

Stamped(s, ms) == [k \in 1..Len(ms) |-> [slot |-> s, msg |-> ms[k]]]

\* The channel after the messages ms of slot s + 1.
Finalized(es, s, ms) == es \o Stamped(s + 1, ms)

LEMMA ConcatEntries ==
    ASSUME NEW es \in Seq(Entry), NEW s \in Nat, NEW ms \in Seq(Messages)
    PROVE  /\ Stamped(s + 1, ms) \in Seq(Entry) /\ es \o Stamped(s + 1, ms) \in Seq(Entry)
           /\ Len(es \o Stamped(s + 1, ms)) = Len(es) + Len(ms)
           /\ \A k \in 1..Len(es) : (es \o Stamped(s + 1, ms))[k] = es[k]
           /\ \A k \in (Len(es) + 1)..(Len(es) + Len(ms)) :
                 (es \o Stamped(s + 1, ms))[k].slot = s + 1
<1> DEFINE fs == Stamped(s + 1, ms)
<1>0. Len(es) \in Nat /\ Len(ms) \in Nat
  OBVIOUS
<1>1. ASSUME NEW k \in 1..Len(ms) PROVE fs[k] \in Entry /\ fs[k].slot = s + 1
  <2>1. ms[k] \in Messages
    BY ElementOfSeq
  <2>2. fs[k] = [slot |-> s + 1, msg |-> ms[k]]
    BY DEF Stamped
  <2> QED
    BY <2>1, <2>2 DEF Entry
<1>2. fs \in Seq(Entry) /\ Len(fs) = Len(ms)
  <2>1. DOMAIN fs = 1..Len(ms) /\ fs = [k \in 1..Len(ms) |-> fs[k]]
    BY DEF Stamped
  <2> HIDE DEF fs
  <2>2. fs \in [1..Len(ms) -> Entry]
    BY <1>1, <2>1
  <2> QED
    BY <1>0, <2>2
<1> HIDE DEF fs
<1>3. /\ es \o fs \in Seq(Entry) /\ Len(es \o fs) = Len(es) + Len(fs)
      /\ \A k \in 1..(Len(es) + Len(fs)) :
            (es \o fs)[k] = IF k <= Len(es) THEN es[k] ELSE fs[k - Len(es)]
  BY <1>2, ConcatProperties
<1>4. ASSUME NEW k \in 1..Len(es) PROVE (es \o fs)[k] = es[k]
  BY <1>0, <1>2, <1>3
<1>5. ASSUME NEW k \in (Len(es) + 1)..(Len(es) + Len(ms)) PROVE (es \o fs)[k].slot = s + 1
  <2>1. k - Len(es) \in 1..Len(ms) /\ ~(k <= Len(es)) /\ k \in 1..(Len(es) + Len(fs))
    BY <1>0, <1>2
  <2> QED
    BY <1>1, <1>3, <2>1
<1> QED
  BY <1>2, <1>3, <1>4, <1>5 DEF fs

\* What was finalized before keeps its place, its order and what it settles.
LEMMA SlotFinalized ==
    ASSUME NEW es \in Seq(Entry), Sorted(es), NEW s \in Nat, NEW ms \in Seq(Messages),
           \A k \in 1..Len(es) : es[k].slot <= s
    PROVE  LET gs == Finalized(es, s, ms)
           IN  /\ gs \in Seq(Entry) /\ Sorted(gs) /\ Len(es) <= Len(gs)
               /\ \A k \in 1..Len(gs) : gs[k].slot <= s + 1
               /\ \A k \in 1..Len(es) : gs[k] = es[k]
               /\ \A c \in 0..s : ReadUpTo(gs, c) = ReadUpTo(es, c)
               /\ \A n \in 0..Len(es) : ChainAt(gs, n) = ChainAt(es, n)
               /\ \A q \in 0..Len(es) : Boundary(es, q) => Boundary(gs, q)
               /\ \A p, q \in 0..Len(es) : SubSeq(gs, p + 1, q) = SubSeq(es, p + 1, q)
<1> DEFINE fs == Stamped(s + 1, ms)
           gs == Finalized(es, s, ms)
<1>0. /\ Len(es) \in Nat /\ Len(ms) \in Nat /\ \A k \in 1..Len(es) : es[k].slot \in Nat
  BY EntryTypes
<1>1. /\ fs \in Seq(Entry) /\ gs \in Seq(Entry) /\ Len(gs) = Len(es) + Len(ms)
      /\ \A k \in 1..Len(es) : gs[k] = es[k]
      /\ \A k \in (Len(es) + 1)..(Len(es) + Len(ms)) : gs[k].slot = s + 1
  BY ConcatEntries DEF Finalized
<1> HIDE DEF fs, gs
<1>2. ASSUME NEW k \in 1..Len(gs)
      PROVE  /\ k <= Len(es) => k \in 1..Len(es) /\ gs[k] = es[k]
             /\ ~(k <= Len(es)) => gs[k].slot = s + 1
             /\ gs[k].slot <= s + 1 /\ gs[k].slot \in Nat
  <2>1. CASE k <= Len(es)
    <3>1. k \in 1..Len(es)
      BY <1>0, <2>1
    <3> QED
      BY <1>0, <1>1, <2>1, <3>1
  <2>2. CASE ~(k <= Len(es))
    <3>1. k \in (Len(es) + 1)..(Len(es) + Len(ms))
      BY <1>0, <1>1, <2>2
    <3>2. gs[k].slot = s + 1
      BY <1>1, <3>1
    <3> QED
      BY <1>0, <2>2, <3>2
  <2> QED
    BY <2>1, <2>2
<1>3. Sorted(gs)
  <2> SUFFICES ASSUME NEW i \in 1..Len(gs), NEW j \in 1..Len(gs), i <= j
               PROVE  gs[i].slot <= gs[j].slot
    BY DEF Sorted
  <2>1. CASE j <= Len(es)
    <3>1. i <= Len(es)
      BY <1>0, <2>1
    <3>2. gs[i] = es[i] /\ gs[j] = es[j] /\ i \in 1..Len(es) /\ j \in 1..Len(es)
      BY <1>2, <2>1, <3>1
    <3> QED
      BY <3>2 DEF Sorted
  <2>2. CASE ~(j <= Len(es))
    BY <1>2, <2>2
  <2> QED
    BY <2>1, <2>2
<1>4. ASSUME NEW c \in 0..s PROVE ReadUpTo(gs, c) = ReadUpTo(es, c)
  <2> DEFINE r == ReadUpTo(es, c)
  <2>0. c \in Nat
    OBVIOUS
  <2>1. r \in 0..Len(es) /\ \A k \in 1..Len(es) : es[k].slot <= c <=> k <= r
    BY <2>0, ReadUpToOK, Zenon
  <2> HIDE DEF r
  <2>2. ASSUME NEW k \in 1..Len(gs) PROVE gs[k].slot <= c <=> k <= r
    <3>1. CASE k <= Len(es)
      BY <1>2, <2>1, <3>1
    <3>2. CASE ~(k <= Len(es))
      <4>1. gs[k].slot = s + 1
        BY <1>2, <3>2
      <4> QED
        BY <1>0, <2>1, <3>2, <4>1
    <3> QED
      BY <3>1, <3>2
  <2>3. r \in 0..Len(gs) /\ c \in Nat
    BY <1>0, <1>1, <2>1
  <2>4. ReadUpTo(gs, c) = r
    BY <1>1, <2>2, <2>3, ReadUpToIs
  <2> QED
    BY <2>4 DEF r
<1>5. ASSUME NEW n \in 0..Len(es) PROVE ChainAt(gs, n) = ChainAt(es, n)
  BY <1>1, ChainAtConcat DEF fs, gs, Finalized
<1>6. ASSUME NEW q \in 0..Len(es), Boundary(es, q) PROVE Boundary(gs, q)
  <2> SUFFICES ASSUME NEW j \in 1..q, NEW k \in (q + 1)..Len(gs) PROVE gs[j].slot < gs[k].slot
    BY DEF Boundary
  <2>1. j \in 1..Len(es) /\ k \in 1..Len(gs) /\ gs[j] = es[j] /\ es[j].slot <= s /\ es[j].slot \in Nat
    BY <1>0, <1>1
  <2>2. CASE k <= Len(es)
    <3>1. k \in (q + 1)..Len(es) /\ gs[k] = es[k]
      BY <1>0, <1>2, <2>1, <2>2
    <3> QED
      BY <1>6, <2>1, <3>1 DEF Boundary
  <2>3. CASE ~(k <= Len(es))
    <3>1. gs[k].slot = s + 1
      BY <1>2, <2>1, <2>3
    <3> QED
      BY <2>1, <3>1
  <2> QED
    BY <2>2, <2>3
<1>7. ASSUME NEW p \in 0..Len(es), NEW q \in 0..Len(es)
      PROVE  SubSeq(gs, p + 1, q) = SubSeq(es, p + 1, q)
  <2>0. \A i \in (p + 1)..q : i \in 1..Len(es)
    BY <1>0
  <2>1. \A i \in (p + 1)..q : gs[i] = es[i]
    BY <1>1, <2>0
  <2> QED
    BY <1>0, <1>1, <2>1
<1>8. Len(es) <= Len(gs)
  BY <1>0, <1>1
<1> QED
  BY <1>1, <1>2, <1>3, <1>4, <1>5, <1>6, <1>7, <1>8 DEF gs

\* Reading on only adds blocks.
LEMMA BlocksGrow ==
    ASSUME NEW es \in Seq(Entry), NEW n \in 0..Len(es)
    PROVE  Extends(BlocksIn(SubSeq(es, 1, n)), BlocksIn(es))
<1> DEFINE U(k) == BlocksIn(SubSeq(es, 1, k))
           A == BlocksUpTo(es)
           S == {k \in Nat : n + k <= Len(es) => Extends(U(n), U(n + k))}
<1>0. Len(es) \in Nat
  OBVIOUS
<1>1. \A k \in 0..Len(es) : U(k) \in Seq(Block)
  BY ChainAtStep, Zenon
<1>2. ASSUME NEW k \in 1..Len(es)
      PROVE  U(k) = IF es[k].msg.kind = "block" THEN Append(U(k - 1), es[k].msg.block) ELSE U(k - 1)
  <2>1. k \in 0..Len(es) /\ k - 1 \in 0..Len(es)
    BY <1>0
  <2>2. U(k) = A[k] /\ U(k - 1) = A[k - 1]
    BY <2>1, EntriesPrefix, Zenon
  <2>3. A[k] = IF es[k].msg.kind = "block" THEN Append(A[k - 1], es[k].msg.block) ELSE A[k - 1]
    BY <1>0, BlocksUnfold, Zenon
  <2> HIDE DEF U, A
  <2> QED
    BY <2>2, <2>3
<1> HIDE DEF U
<1>3. 0 \in S
  <2>1. U(n) \in Seq(Block) /\ n + 0 = n
    BY <1>1
  <2> QED
    BY <2>1, PrefixRefl
<1>4. ASSUME NEW k \in Nat, k \in S PROVE k + 1 \in S
  <2> DEFINE j == n + k
  <2> SUFFICES ASSUME n + (k + 1) <= Len(es) PROVE Extends(U(n), U(n + (k + 1)))
    OBVIOUS
  <2>1. /\ Extends(U(n), U(j)) /\ j + 1 \in 1..Len(es) /\ j \in 0..Len(es) /\ (j + 1) - 1 = j
        /\ n + (k + 1) = j + 1 /\ j + 1 \in 0..Len(es)
    BY <1>0, <1>4
  <2> HIDE DEF j
  <2>2. U(n) \in Seq(Block) /\ U(j) \in Seq(Block) /\ U(j + 1) \in Seq(Block)
    BY <1>1, <2>1
  <2>3. Extends(U(j), U(j + 1))
    <3>1. CASE es[j + 1].msg.kind = "block"
      <4>1. es[j + 1].msg.block \in Block
        BY <2>1, <3>1, EntryTypes
      <4>2. U(j + 1) = Append(U(j), es[j + 1].msg.block)
        BY <1>2, <2>1, <3>1
      <4> QED
        BY <2>2, <4>1, <4>2, PrefixOfAppend
    <3>2. CASE es[j + 1].msg.kind # "block"
      <4>1. U(j + 1) = U(j)
        BY <1>2, <2>1, <3>2
      <4> QED
        BY <2>2, <4>1, PrefixRefl
    <3> QED
      BY <3>1, <3>2
  <2>4. Extends(U(n), U(j + 1))
    BY <2>1, <2>2, <2>3, ExtendsTransitive
  <2> QED
    BY <2>1, <2>4
<1>5. Len(es) - n \in S /\ n + (Len(es) - n) = Len(es) /\ Len(es) - n \in Nat
  <2>1. Len(es) - n \in Nat /\ n + (Len(es) - n) = Len(es)
    BY <1>0
  <2> HIDE DEF S
  <2> QED
    BY <1>3, <1>4, <2>1, SetInduction
<1>6. Extends(U(n), U(Len(es)))
  BY <1>0, <1>5
<1> QED
  BY <1>6, SubSeqFull DEF U

\* The head and the rest of the entries p + 1 to q.
LEMMA HeadAndTail ==
    ASSUME NEW es \in Seq(Entry), NEW p \in 0..Len(es), NEW q \in 0..Len(es), p <= q
    PROVE  /\ SubSeq(es, p + 1, q) = <<>> <=> p = q
           /\ p < q => /\ Head(SubSeq(es, p + 1, q)) = es[p + 1]
                       /\ Tail(SubSeq(es, p + 1, q)) = SubSeq(es, (p + 1) + 1, q)
           /\ SubSeq(es, p + 1, q) \in Seq(Entry)
           /\ \A k \in 1..Len(SubSeq(es, p + 1, q)) : \E i \in 1..Len(es) :
                 SubSeq(es, p + 1, q)[k] = es[i]
<1> DEFINE t == SubSeq(es, p + 1, q)
           u == SubSeq(es, (p + 1) + 1, q)
<1>0. Len(es) \in Nat
  OBVIOUS
<1>1. t \in Seq(Entry) /\ Len(t) = q - p /\ \A i \in 1..(q - p) : t[i] = es[p + i]
  BY <1>0
<1>2. p < q => u \in Seq(Entry) /\ Len(u) = (q - p) - 1 /\ \A i \in 1..((q - p) - 1) : u[i] = es[(p + 1) + i]
  BY <1>0
<1> HIDE DEF t, u
<1>3. t = <<>> <=> p = q
  <2>1. t = <<>> <=> Len(t) = 0
    BY <1>1, EmptySeq
  <2> QED
    BY <1>0, <1>1, <2>1
<1>4. ASSUME p < q PROVE Head(t) = es[p + 1] /\ Tail(t) = u
  <2>1. t # <<>> /\ 1 \in 1..(q - p)
    BY <1>0, <1>3, <1>4
  <2>2. Head(t) = es[p + 1]
    BY <1>1, <2>1
  <2>3. /\ Tail(t) \in Seq(Entry) /\ Len(Tail(t)) = (q - p) - 1
        /\ \A i \in 1..((q - p) - 1) : Tail(t)[i] = t[i + 1]
    BY <1>0, <1>1, <2>1, HeadTailProperties
  <2>4. ASSUME NEW i \in 1..((q - p) - 1) PROVE Tail(t)[i] = u[i]
    <3>1. i + 1 \in 1..(q - p) /\ p + (i + 1) = (p + 1) + i
      BY <1>0
    <3> QED
      BY <1>1, <1>2, <1>4, <2>3, <3>1
  <2>5. Tail(t) = u
    BY <1>2, <1>4, <2>3, <2>4, SeqEqual
  <2> QED
    BY <2>2, <2>5
<1>5. ASSUME NEW k \in 1..Len(t) PROVE \E i \in 1..Len(es) : t[k] = es[i]
  <2>1. p + k \in 1..Len(es) /\ t[k] = es[p + k]
    BY <1>0, <1>1
  <2> QED
    BY <2>1
<1> QED
  BY <1>1, <1>3, <1>4, <1>5 DEF t, u
=============================================================================
