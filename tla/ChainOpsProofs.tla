--------------------------- MODULE ChainOpsProofs ---------------------------
(***************************************************************************)
(* What the methods of ChainState preserve, for every set of blocks: the   *)
(* lemmas that the invariance proofs of the machines owning a ChainState   *)
(* rest on.                                                                *)
(***************************************************************************)
EXTENDS ChainOps, BlocksProofs

\* The invariant of the struct: head_state is the final tier replayed through
\* head_blocks, both tiers form one valid chain, and no `expect` has failed.
ChainOK(c) ==
    /\ c \in Chains
    /\ c.head_state = c.final_state \o BlocksOf(c.head_blocks)
    /\ IsChain(c.head_state)
    /\ c.final_tip = TipOfChain(c.final_state)
    /\ ~c.panicked

-----------------------------------------------------------------------------
(* Sequences of blocks.                                                    *)

\* The blocks of a list of head entries.
LEMMA BlocksOfProperties ==
    ASSUME NEW es \in Seq(HeadEntries)
    PROVE  /\ BlocksOf(es) \in Seq(Block)
           /\ Len(BlocksOf(es)) = Len(es)
           /\ \A i \in 1..Len(es) : BlocksOf(es)[i] = es[i].block
<1>0. \A i \in 1..Len(es) : es[i] \in HeadEntries
  BY ElementOfSeq
<1>1. \A i \in 1..Len(es) : es[i].block \in Block
  BY <1>0 DEF HeadEntries
<1>2. Len(es) \in Nat
  OBVIOUS
<1> QED
  BY <1>1, <1>2 DEF BlocksOf

\* The blocks of a prefix, a suffix and an extension of head_blocks.
LEMMA BlocksOfPrefix ==
    ASSUME NEW es \in Seq(HeadEntries), NEW n \in 0..Len(es)
    PROVE  BlocksOf(SubSeq(es, 1, n)) = SubSeq(BlocksOf(es), 1, n)
<1> DEFINE p == SubSeq(es, 1, n)
           r == SubSeq(BlocksOf(es), 1, n)
<1>1. p \in Seq(HeadEntries) /\ Len(p) = n /\ \A i \in 1..n : p[i] = es[i]
  BY PrefixProperties
<1>2. /\ BlocksOf(es) \in Seq(Block) /\ Len(BlocksOf(es)) = Len(es)
      /\ \A i \in 1..Len(es) : BlocksOf(es)[i] = es[i].block
  BY BlocksOfProperties
<1>3. r \in Seq(Block) /\ Len(r) = n /\ \A i \in 1..n : r[i] = BlocksOf(es)[i]
  BY <1>2, PrefixProperties
<1> HIDE DEF p, r
<1>4. /\ BlocksOf(p) \in Seq(Block) /\ Len(BlocksOf(p)) = n
      /\ \A i \in 1..n : BlocksOf(p)[i] = p[i].block
  BY <1>1, BlocksOfProperties
<1>5. \A i \in 1..n : BlocksOf(p)[i] = r[i]
  BY <1>1, <1>2, <1>3, <1>4
<1>6. BlocksOf(p) = r
  BY <1>3, <1>4, <1>5, SeqEqual
<1> QED
  BY <1>6 DEF p, r

LEMMA BlocksOfSuffix ==
    ASSUME NEW es \in Seq(HeadEntries), NEW n \in 0..Len(es)
    PROVE  BlocksOf(SubSeq(es, n + 1, Len(es))) = SubSeq(BlocksOf(es), n + 1, Len(es))
<1> DEFINE p == SubSeq(es, n + 1, Len(es))
           r == SubSeq(BlocksOf(es), n + 1, Len(es))
           m == Len(es) - n
<1>0. m \in Nat /\ Len(es) \in Nat /\ \A i \in 1..m : n + i \in 1..Len(es)
  OBVIOUS
<1>1. p \in Seq(HeadEntries) /\ Len(p) = m /\ \A i \in 1..m : p[i] = es[n + i]
  BY SuffixProperties
<1>2. /\ BlocksOf(es) \in Seq(Block) /\ Len(BlocksOf(es)) = Len(es)
      /\ \A i \in 1..Len(es) : BlocksOf(es)[i] = es[i].block
  BY BlocksOfProperties
<1>3. r \in Seq(Block) /\ Len(r) = m /\ \A i \in 1..m : r[i] = BlocksOf(es)[n + i]
  BY <1>2, SuffixProperties
<1> HIDE DEF p, r, m
<1>4. /\ BlocksOf(p) \in Seq(Block) /\ Len(BlocksOf(p)) = m
      /\ \A i \in 1..m : BlocksOf(p)[i] = p[i].block
  BY <1>1, BlocksOfProperties
<1>5. \A i \in 1..m : BlocksOf(p)[i] = r[i]
  BY <1>0, <1>1, <1>2, <1>3, <1>4
<1>6. BlocksOf(p) = r
  BY <1>3, <1>4, <1>5, SeqEqual
<1> QED
  BY <1>6 DEF p, r

LEMMA BlocksOfAppend ==
    ASSUME NEW es \in Seq(HeadEntries), NEW e \in HeadEntries
    PROVE  BlocksOf(Append(es, e)) = Append(BlocksOf(es), e.block)
<1> DEFINE a == Append(es, e)
           r == Append(BlocksOf(es), e.block)
<1>0. e.block \in Block /\ Len(es) \in Nat
  BY DEF HeadEntries
<1>1. /\ a \in Seq(HeadEntries) /\ Len(a) = Len(es) + 1
      /\ \A i \in 1..Len(es) : a[i] = es[i]
      /\ a[Len(es) + 1] = e
  BY AppendProperties
<1>2. /\ BlocksOf(es) \in Seq(Block) /\ Len(BlocksOf(es)) = Len(es)
      /\ \A i \in 1..Len(es) : BlocksOf(es)[i] = es[i].block
  BY BlocksOfProperties
<1>3. /\ r \in Seq(Block) /\ Len(r) = Len(es) + 1
      /\ \A i \in 1..Len(es) : r[i] = BlocksOf(es)[i]
      /\ r[Len(es) + 1] = e.block
  BY <1>0, <1>2, AppendProperties
<1> HIDE DEF a, r
<1>4. /\ BlocksOf(a) \in Seq(Block) /\ Len(BlocksOf(a)) = Len(es) + 1
      /\ \A i \in 1..(Len(es) + 1) : BlocksOf(a)[i] = a[i].block
  BY <1>1, BlocksOfProperties
<1>5. \A i \in 1..(Len(es) + 1) : BlocksOf(a)[i] = r[i]
  BY <1>0, <1>1, <1>2, <1>3, <1>4
<1>6. BlocksOf(a) = r
  BY <1>3, <1>4, <1>5, SeqEqual
<1> QED
  BY <1>6 DEF a, r

-----------------------------------------------------------------------------
(* The helpers of the methods.                                             *)

\* Facts about a ChainState that satisfies the invariant.
LEMMA ChainFacts ==
    ASSUME NEW c, ChainOK(c)
    PROVE  /\ c.final_state \in Seq(Block) /\ c.head_state \in Seq(Block)
           /\ c.head_blocks \in Seq(HeadEntries)
           /\ c.final_tip \in Tips \cup {NoTip}
           /\ c.final_stall \in Stalls \cup {NoStall}
           /\ c.panicked = FALSE
           /\ Len(c.head_blocks) \in Nat
           /\ Len(c.final_state) \in Nat
           /\ c.head_state = c.final_state \o BlocksOf(c.head_blocks)
           /\ IsChain(c.final_state \o BlocksOf(c.head_blocks))
           /\ IsChain(c.head_state)
           /\ c.final_tip = TipOfChain(c.final_state)
<1>1. c.head_blocks \in Seq(HeadEntries) /\ c.final_state \in Seq(Block)
  BY DEF ChainOK, Chains
<1>2. Len(c.head_blocks) \in Nat /\ Len(c.final_state) \in Nat
  BY <1>1, LenProperties
<1>3. /\ c.head_state \in Seq(Block)
      /\ c.final_tip \in Tips \cup {NoTip}
      /\ c.final_stall \in Stalls \cup {NoStall}
      /\ c.panicked = FALSE
  BY DEF ChainOK, Chains
<1> QED
  BY <1>1, <1>2, <1>3, Zenon DEF ChainOK

\* The tip after the first n of bs are applied on a tier with the given tip.
TipAfter(tip, bs, n) == IF n = 0 THEN tip ELSE TipOf(bs[n])

\* Replaying n head entries on the final tier, in terms of sequences.
LEMMA HeadPrefix ==
    ASSUME NEW f \in Seq(Block), NEW hb \in Seq(HeadEntries), IsChain(f \o BlocksOf(hb)),
           NEW n \in 0..Len(hb), NEW bs, bs = BlocksOf(SubSeq(hb, 1, n))
    PROVE  /\ bs \in Seq(Block) /\ f \o bs \in Seq(Block)
           /\ f \o bs = SubSeq(f \o BlocksOf(hb), 1, Len(f) + n)
           /\ IsChain(f \o bs)
           /\ Replays(TipOfChain(f), f, bs)
           /\ TipOfChain(f \o bs) = TipAfter(TipOfChain(f), bs, n)
<1>1. /\ BlocksOf(hb) \in Seq(Block) /\ Len(BlocksOf(hb)) = Len(hb)
      /\ Len(hb) \in Nat /\ Len(f) \in Nat
  BY BlocksOfProperties
<1>2. SubSeq(hb, 1, n) \in Seq(HeadEntries) /\ Len(SubSeq(hb, 1, n)) = n
  BY PrefixProperties
<1>3. bs \in Seq(Block) /\ Len(bs) = n
  BY <1>2, BlocksOfProperties
<1>4. bs = SubSeq(BlocksOf(hb), 1, n)
  BY BlocksOfPrefix
<1>5. f \o bs = SubSeq(f \o BlocksOf(hb), 1, Len(f) + n)
  <2>1. n \in 0..Len(BlocksOf(hb))
    BY <1>1
  <2>2. SubSeq(f \o BlocksOf(hb), 1, Len(f) + n) = f \o SubSeq(BlocksOf(hb), 1, n)
    BY <1>1, <2>1, PrefixOfConcat, Zenon
  <2> QED
    BY <1>4, <2>2, Zenon
<1>6. IsChain(f \o bs)
  <2>1. Len(f) + n \in 0..Len(f \o BlocksOf(hb))
    BY <1>1, ConcatProperties
  <2> QED
    BY <1>5, <2>1, PrefixIsChain
<1>7. Replays(TipOfChain(f), f, bs)
  BY <1>3, <1>6, ReplaysOnPrefix
<1>8. TipOfChain(f \o bs) = TipAfter(TipOfChain(f), bs, n)
  <2>1. CASE n = 0
    <3>1. bs = <<>>
      BY <1>3, <2>1
    <3>2. f \o bs = f
      BY <3>1, ConcatEmptySeq
    <3> QED
      BY <2>1, <3>2 DEF TipAfter
  <2>2. CASE n # 0
    <3>0. /\ Len(f \o bs) = Len(f) + Len(bs)
          /\ \A i \in 1..(Len(f) + Len(bs)) :
                (f \o bs)[i] = IF i <= Len(f) THEN f[i] ELSE bs[i - Len(f)]
      BY <1>3, ConcatProperties
    <3>1. Len(f \o bs) = Len(f) + n /\ (f \o bs)[Len(f) + n] = bs[n]
      BY <1>1, <1>3, <2>2, <3>0
    <3>2. f \o bs # <<>>
      BY <1>1, <2>2, <3>1
    <3> QED
      BY <2>2, <3>1, <3>2 DEF TipOfChain, TipAfter
  <2> QED
    BY <2>1, <2>2
<1>9. f \o bs \in Seq(Block)
  BY <1>3, ConcatProperties
<1> QED
  BY <1>3, <1>5, <1>6, <1>7, <1>8, <1>9

\* replay_head_prefix succeeds and gives the chain up to that head entry.
LEMMA ReplayHeadPrefix ==
    ASSUME NEW c, ChainOK(c), NEW n \in 0..Len(c.head_blocks),
           NEW r, r = replay_head_prefix(c, n)
    PROVE  /\ r.ok = TRUE
           /\ r.state = c.final_state \o BlocksOf(SubSeq(c.head_blocks, 1, n))
           /\ r.state = SubSeq(c.head_state, 1, Len(c.final_state) + n)
           /\ r.state \in Seq(Block)
           /\ IsChain(r.state)
           /\ r.tip = TipOfChain(r.state)
<1> DEFINE hb == c.head_blocks
           f  == c.final_state
           bs == BlocksOf(SubSeq(hb, 1, n))
<1>1. /\ hb \in Seq(HeadEntries) /\ f \in Seq(Block) /\ IsChain(f \o BlocksOf(hb))
      /\ c.head_state = f \o BlocksOf(hb) /\ c.final_tip = TipOfChain(f)
  BY ChainFacts, Zenon
<1>2. n \in 0..Len(hb)
  OBVIOUS
<1>3. /\ r.state = f \o bs
      /\ r.tip = TipAfter(c.final_tip, bs, n)
      /\ r.ok = Replays(c.final_tip, f, bs)
  BY DEF replay_head_prefix, TipAfter
<1>0. bs = BlocksOf(SubSeq(hb, 1, n))
  OBVIOUS
<1> HIDE DEF hb, f, bs
<1>4. /\ f \o bs \in Seq(Block)
      /\ f \o bs = SubSeq(f \o BlocksOf(hb), 1, Len(f) + n)
      /\ IsChain(f \o bs)
      /\ Replays(TipOfChain(f), f, bs)
      /\ TipOfChain(f \o bs) = TipAfter(TipOfChain(f), bs, n)
  <2>1. f \in Seq(Block) /\ hb \in Seq(HeadEntries) /\ IsChain(f \o BlocksOf(hb))
    BY <1>1
  <2> QED
    BY <1>0, <1>2, <2>1, HeadPrefix, Zenon
<1>5. /\ r.ok = TRUE /\ r.state = f \o bs
      /\ r.state = SubSeq(c.head_state, 1, Len(f) + n)
      /\ r.state \in Seq(Block) /\ IsChain(r.state) /\ r.tip = TipOfChain(r.state)
  BY <1>1, <1>3, <1>4
<1> QED
  BY <1>5 DEF f, bs, hb

\* head_tip is the tip of the chain that head_state executed.
LEMMA HeadTip ==
    ASSUME NEW c, ChainOK(c)
    PROVE  head_tip(c) = TipOfChain(c.head_state)
<1> DEFINE n == Len(c.head_blocks)
<1>1. n \in Nat /\ c.head_blocks \in Seq(HeadEntries)
  BY ChainFacts
<1>2. SubSeq(c.head_blocks, 1, n) = c.head_blocks
  BY <1>1, SubSeqFull
<1>3. n \in 0..n
  BY <1>1
<1> DEFINE r == replay_head_prefix(c, n)
<1>0. r = replay_head_prefix(c, n)
  OBVIOUS
<1>4. r.tip = TipOfChain(c.head_state)
  <2> HIDE DEF r
  <2>1. r.tip = TipOfChain(r.state) /\ r.state = c.final_state \o BlocksOf(SubSeq(c.head_blocks, 1, n))
    BY <1>0, <1>3, ReplayHeadPrefix, Zenon
  <2>2. c.head_state = c.final_state \o BlocksOf(c.head_blocks)
    BY ChainFacts, Zenon
  <2> QED
    BY <1>2, <2>1, <2>2, Zenon
<1>5. n = 0 <=> c.head_blocks = <<>>
  BY <1>1
<1>6. n # 0 => BlocksOf(c.head_blocks)[n] = c.head_blocks[n].block
  BY <1>1, <1>3, BlocksOfProperties
<1> QED
  BY <1>2, <1>4, <1>5, <1>6 DEF replay_head_prefix, head_tip

-----------------------------------------------------------------------------
(* The methods: each keeps the invariant, and none rewrites the final tier.*)

\* truncate followed by rederive_head.
LEMMA TruncateOK ==
    ASSUME NEW c, ChainOK(c), NEW n \in 0..Len(c.head_blocks),
           NEW d, d = truncate_and_rederive(c, n)
    PROVE  /\ ChainOK(d)
           /\ d.final_state = c.final_state
           /\ d.head_state = SubSeq(c.head_state, 1, Len(c.final_state) + n)
<1> DEFINE r  == replay_head_prefix(c, n)
           hb == SubSeq(c.head_blocks, 1, n)
<1>0. r = replay_head_prefix(c, n) /\ hb = SubSeq(c.head_blocks, 1, n)
  OBVIOUS
<1>1. c \in Chains /\ c.panicked = FALSE
  BY ChainFacts DEF ChainOK
<1> HIDE DEF r
<1>2. /\ r.ok = TRUE /\ r.state = c.final_state \o BlocksOf(hb)
      /\ r.state = SubSeq(c.head_state, 1, Len(c.final_state) + n)
      /\ r.state \in Seq(Block) /\ IsChain(r.state)
  BY <1>0, ReplayHeadPrefix, Zenon
<1>3. hb \in Seq(HeadEntries)
  BY ChainFacts, PrefixProperties
<1>4. d = [c EXCEPT !.head_blocks = hb, !.head_state = r.state, !.panicked = FALSE]
  BY <1>1, <1>2 DEF truncate_and_rederive, r
<1> HIDE DEF hb
<1>5. /\ d \in Chains /\ d.final_state = c.final_state /\ d.final_tip = c.final_tip
      /\ d.head_blocks = hb /\ d.head_state = r.state /\ d.panicked = FALSE
  BY <1>1, <1>2, <1>3, <1>4 DEF Chains
<1>6. c.final_tip = TipOfChain(c.final_state)
  BY ChainFacts, Zenon
<1> QED
  BY <1>2, <1>5, <1>6, Zenon DEF ChainOK

\* The head position of a block is an index of head_blocks.
LEMMA HeadPosition ==
    ASSUME NEW c, ChainOK(c), NEW P, P \subseteq 1..Len(c.head_blocks), P # {}
    PROVE  /\ Min(P) \in P /\ \A i \in P : Min(P) <= i
           /\ Min(P) \in 1..Len(c.head_blocks)
           /\ Min(P) - 1 \in 0..Len(c.head_blocks)
<1>1. Len(c.head_blocks) \in Nat
  BY ChainFacts
<1>2. P \subseteq Nat
  BY <1>1
<1>3. Min(P) \in P /\ \A i \in P : Min(P) <= i
  BY <1>2, MinOfNats
<1>4. Min(P) \in 1..Len(c.head_blocks)
  BY <1>3
<1>5. Min(P) - 1 \in 0..Len(c.head_blocks)
  BY <1>1, <1>4
<1> QED
  BY <1>3, <1>4, <1>5, Zenon

\* revert_orphan.
LEMMA RevertOrphanOK ==
    ASSUME NEW c, ChainOK(c), NEW m, NEW b
    PROVE  /\ ChainOK(revert_orphan(c, m, b))
           /\ revert_orphan(c, m, b).final_state = c.final_state
<1> DEFINE P == head_position_of(c, m, b)
<1>1. P \subseteq 1..Len(c.head_blocks)
  BY DEF head_position_of
<1>2. CASE P = {}
  BY <1>2 DEF revert_orphan
<1>3. CASE P # {}
  <2>1. Min(P) - 1 \in 0..Len(c.head_blocks)
    BY <1>1, <1>3, HeadPosition
  <2>2. revert_orphan(c, m, b) = truncate_and_rederive(c, Min(P) - 1)
    BY <1>3, Zenon DEF revert_orphan
  <2> DEFINE d == truncate_and_rederive(c, Min(P) - 1)
  <2>3. d = truncate_and_rederive(c, Min(P) - 1)
    OBVIOUS
  <2> HIDE DEF d, P
  <2>4. ChainOK(d) /\ d.final_state = c.final_state
    BY <2>1, <2>3, TruncateOK, Zenon
  <2> QED
    BY <2>2, <2>4, Zenon DEF d
<1> QED
  BY <1>2, <1>3

\* The orphans of a channel update.
LEMMA RevertOrphansOK ==
    ASSUME NEW c, ChainOK(c), NEW orphaned
    PROVE  /\ ChainOK(revert_orphans(c, orphaned))
           /\ revert_orphans(c, orphaned).final_state = c.final_state
<1> DEFINE P == UNION {head_position_of(c, orphaned[k].msg, orphaned[k].block) :
                          k \in 1..Len(orphaned)}
<1>1. P \subseteq 1..Len(c.head_blocks)
  BY DEF head_position_of
<1>2. CASE P = {}
  BY <1>2 DEF revert_orphans
<1>3. CASE P # {}
  <2>1. Min(P) - 1 \in 0..Len(c.head_blocks)
    <3> HIDE DEF P
    <3> QED
      BY <1>1, <1>3, HeadPosition
  <2>2. revert_orphans(c, orphaned) = truncate_and_rederive(c, Min(P) - 1)
    BY <1>3, Zenon DEF revert_orphans
  <2> DEFINE d == truncate_and_rederive(c, Min(P) - 1)
  <2>3. d = truncate_and_rederive(c, Min(P) - 1)
    OBVIOUS
  <2> HIDE DEF d, P
  <2>4. ChainOK(d) /\ d.final_state = c.final_state
    BY <2>1, <2>3, TruncateOK, Zenon
  <2> QED
    BY <2>2, <2>4, Zenon DEF d
<1> QED
  BY <1>2, <1>3

\* Pushing a block that applies on (a prefix of) the head.
LEMMA PushOK ==
    ASSUME NEW f \in Seq(Block), NEW hb \in Seq(HeadEntries), NEW e \in HeadEntries,
           IsChain(f \o BlocksOf(hb)),
           apply_block(TipOfChain(f \o BlocksOf(hb)), e.block, f \o BlocksOf(hb)) = Ok
    PROVE  /\ Append(hb, e) \in Seq(HeadEntries)
           /\ Append(f \o BlocksOf(hb), e.block) \in Seq(Block)
           /\ Append(f \o BlocksOf(hb), e.block) = f \o BlocksOf(Append(hb, e))
           /\ IsChain(Append(f \o BlocksOf(hb), e.block))
<1> DEFINE b    == e.block
           base == f \o BlocksOf(hb)
<1>2. b \in Block
  BY DEF HeadEntries
<1>3. BlocksOf(hb) \in Seq(Block)
  BY BlocksOfProperties
<1>4. base \in Seq(Block)
  BY DEF IsChain
<1>5. IsChain(Append(base, b))
  <2> HIDE DEF base, b
  <2> QED
    BY <1>2, AppendIsChain DEF base, b
<1>6. Append(base, b) = f \o BlocksOf(Append(hb, e))
  <2>1. BlocksOf(Append(hb, e)) = Append(BlocksOf(hb), b)
    BY BlocksOfAppend
  <2>2. f \o Append(BlocksOf(hb), b) = Append(base, b)
    BY <1>2, <1>3, ConcatAppend
  <2> QED
    BY <2>1, <2>2, Zenon
<1>7. Append(hb, e) \in Seq(HeadEntries)
  BY AppendProperties
<1>8. Append(base, b) \in Seq(Block)
  BY <1>5 DEF IsChain
<1> QED
  BY <1>5, <1>6, <1>7, <1>8, Zenon

\* No head block at the height of b or above; and what then happens to the head.
NothingAbove(c, b) ==
    \A i \in 1..Len(c.head_blocks) : ~ (c.head_blocks[i].block.id >= b.id)

ExtendedBy(c, d, b) ==
    d.head_state = c.head_state \/ d.head_state = Append(c.head_state, b)

\* apply_adopted.
LEMMA ApplyAdoptedOK ==
    ASSUME NEW c, ChainOK(c), NEW m \in Msg, NEW b \in Block
    PROVE  /\ ChainOK(apply_adopted(c, m, b).chain)
           /\ apply_adopted(c, m, b).chain.final_state = c.final_state
           /\ NothingAbove(c, b) => ExtendedBy(c, apply_adopted(c, m, b).chain, b)
<1> DEFINE d == apply_adopted(c, m, b).chain
<1> DEFINE above == {i \in 1..Len(c.head_blocks) : c.head_blocks[i].block.id >= b.id}
           kept  == IF above = {} THEN Len(c.head_blocks) ELSE Min(above) - 1
           base  == IF above = {}
                    THEN [state |-> c.head_state, tip |-> head_tip(c), ok |-> TRUE]
                    ELSE replay_head_prefix(c, kept)
           hb    == SubSeq(c.head_blocks, 1, kept)
           e     == [msg |-> m, block |-> b]
<1>1. kept \in 0..Len(c.head_blocks)
  <2>1. above \subseteq 1..Len(c.head_blocks) /\ Len(c.head_blocks) \in Nat
    BY ChainFacts
  <2> HIDE DEF above
  <2>2. ASSUME above # {} PROVE Min(above) - 1 \in 0..Len(c.head_blocks)
    BY <2>1, <2>2, HeadPosition, Zenon
  <2> QED
    BY <2>1, <2>2
<1>2. /\ base.state = c.final_state \o BlocksOf(hb)
      /\ base.tip = TipOfChain(base.state) /\ base.ok = TRUE
      /\ IsChain(base.state)
  <2>1. CASE above = {}
    <3>1. base.state = c.head_state /\ base.tip = head_tip(c) /\ base.ok = TRUE
      BY <2>1
    <3>2. hb = c.head_blocks
      BY <2>1, ChainFacts, SubSeqFull
    <3>3. /\ c.head_state = c.final_state \o BlocksOf(c.head_blocks)
          /\ IsChain(c.head_state) /\ head_tip(c) = TipOfChain(c.head_state)
      BY ChainFacts, HeadTip, Zenon
    <3> HIDE DEF base, hb
    <3> QED
      BY <3>1, <3>2, <3>3
  <2>2. CASE above # {}
    <3>1. base = replay_head_prefix(c, kept)
      BY <2>2
    <3> HIDE DEF base, kept
    <3> QED
      BY <1>1, <3>1, ReplayHeadPrefix, Zenon
  <2> QED
    BY <2>1, <2>2
<1>3. c \in Chains /\ c.panicked = FALSE
  BY ChainFacts DEF ChainOK
<1>4. [c EXCEPT !.panicked = @ \/ ~base.ok] = c
  <2> HIDE DEF base
  <2> QED
    BY <1>2, <1>3 DEF Chains
<1> DEFINE pushed == [c EXCEPT !.head_blocks = Append(hb, e), !.head_state = Append(base.state, b)]
<1>5. d = c \/ (apply_block(base.tip, b, base.state) = Ok /\ d = pushed)
  <2> DEFINE x == [c EXCEPT !.panicked = @ \/ ~base.ok]
             p == [x EXCEPT !.head_blocks = Append(SubSeq(@, 1, kept), e),
                            !.head_state  = Append(base.state, b)]
  <2>1. \/ d = c \/ d = x
        \/ apply_block(base.tip, b, base.state) = Ok /\ d = p
    <3> HIDE DEF x, p, base, kept, above
    <3> QED
      BY DEF d, apply_adopted, Result, x, p, base, kept, above
  <2>2. x = c
    BY <1>4
  <2>3. p = pushed
    <3> HIDE DEF x, base, kept, e
    <3> QED
      BY <2>2, Zenon
  <2> HIDE DEF p, pushed, x, base, d
  <2> QED
    BY <2>1, <2>2, <2>3
<1>6. hb \in Seq(HeadEntries) /\ e \in HeadEntries /\ e.block = b
  <2>1. hb \in Seq(HeadEntries)
    <3> HIDE DEF kept
    <3> QED
      BY <1>1, ChainFacts, PrefixProperties
  <2> QED
    BY <2>1 DEF HeadEntries
<1> HIDE DEF d
<1>7. ASSUME apply_block(base.tip, b, base.state) = Ok, d = pushed
      PROVE  ChainOK(d) /\ d.final_state = c.final_state /\ d.head_state = Append(base.state, b)
  <2> HIDE DEF base, hb, e
  <2> DEFINE f  == c.final_state
             hs == Append(base.state, b)
             nb == Append(hb, e)
  <2>1. /\ f \in Seq(Block) /\ base.state = f \o BlocksOf(hb)
        /\ IsChain(f \o BlocksOf(hb))
    BY <1>2, ChainFacts, Zenon
  <2>2. apply_block(TipOfChain(f \o BlocksOf(hb)), e.block, f \o BlocksOf(hb)) = Ok
    BY <1>2, <1>6, <1>7, Zenon
  <2>3. d = [c EXCEPT !.head_blocks = nb, !.head_state = hs]
    BY <1>7, Zenon
  <2>4. hs = Append(f \o BlocksOf(hb), e.block)
    BY <1>6, <2>1, Zenon
  <2> HIDE DEF f, hs
  <2>5. /\ nb \in Seq(HeadEntries) /\ hs \in Seq(Block)
        /\ hs = f \o BlocksOf(nb) /\ IsChain(hs)
    <3>1. /\ Append(hb, e) \in Seq(HeadEntries)
          /\ Append(f \o BlocksOf(hb), e.block) \in Seq(Block)
          /\ Append(f \o BlocksOf(hb), e.block) = f \o BlocksOf(Append(hb, e))
          /\ IsChain(Append(f \o BlocksOf(hb), e.block))
      BY <1>6, <2>1, <2>2, PushOK
    <3> QED
      BY <2>4, <3>1, Zenon
  <2> HIDE DEF nb
  <2>6. /\ d \in Chains /\ d.final_state = c.final_state /\ d.final_tip = c.final_tip
        /\ d.head_blocks = nb /\ d.head_state = hs /\ d.panicked = FALSE
    BY <1>3, <2>3, <2>5 DEF Chains
  <2>7. c.final_tip = TipOfChain(c.final_state)
    BY ChainFacts, Zenon
  <2>8. ChainOK(d)
    BY <2>5, <2>6, <2>7, Zenon DEF ChainOK, f
  <2> QED
    BY <2>6, <2>8, Zenon DEF hs
<1>8. NothingAbove(c, b) => base.state = c.head_state
  <2> SUFFICES ASSUME NothingAbove(c, b)
               PROVE  base.state = c.head_state
    OBVIOUS
  <2>1. above = {}
    BY Zenon DEF NothingAbove
  <2> HIDE DEF above
  <2> QED
    BY <2>1
<1> HIDE DEF base, pushed
<1> QED
  BY <1>5, <1>7, <1>8 DEF ExtendedBy, d

\* The i-th step of the fold: the i-th inscription is adopted.
AdoptStep(A, adopted, i) ==
    A[i] = apply_adopted(A[i - 1], adopted[i].msg, adopted[i].block).chain

\* The fold of apply_channel_update over the adopted inscriptions.
LEMMA AdoptAllUnfolds ==
    ASSUME NEW c, NEW adopted, Len(adopted) \in Nat
    PROVE  /\ AdoptAll(c, adopted)[0] = c
           /\ \A i \in 1..Len(adopted) : AdoptStep(AdoptAll(c, adopted), adopted, i)
<1> DEFINE F(x, i) == apply_adopted(x, adopted[i].msg, adopted[i].block).chain
           S == {k \in Nat : \E g : g = [i \in 0..k |-> IF i = 0 THEN c ELSE F(g[i - 1], i)]}
<1>1. 0 \in S
  <2> HIDE DEF F
  <2> DEFINE g == [i \in 0..0 |-> c]
  <2>1. g = [i \in 0..0 |-> IF i = 0 THEN c ELSE F(g[i - 1], i)]
    OBVIOUS
  <2> HIDE DEF g
  <2> QED
    BY <2>1
<1>2. ASSUME NEW k \in Nat, k \in S PROVE k + 1 \in S
  <2> HIDE DEF F
  <2>1. PICK g : g = [i \in 0..k |-> IF i = 0 THEN c ELSE F(g[i - 1], i)]
    BY <1>2
  <2> DEFINE h == [i \in 0..(k + 1) |-> IF i <= k THEN g[i] ELSE F(g[k], k + 1)]
  <2>2. ASSUME NEW i \in 0..(k + 1)
        PROVE  h[i] = IF i = 0 THEN c ELSE F(h[i - 1], i)
    <3>1. CASE i = 0
      BY <2>1, <3>1
    <3>2. CASE i # 0 /\ i <= k
      <4>1. i - 1 \in 0..k /\ i \in 0..k /\ i - 1 \in 0..(k + 1)
        BY <3>2
      <4>2. h[i] = g[i] /\ h[i - 1] = g[i - 1] /\ g[i] = F(g[i - 1], i)
        BY <2>1, <3>2, <4>1
      <4> QED
        BY <3>2, <4>2
    <3>3. CASE i = k + 1
      <4>1. h[k + 1] = F(g[k], k + 1) /\ h[k] = g[k] /\ (k + 1) - 1 = k
        OBVIOUS
      <4> QED
        BY <3>3, <4>1
    <3> QED
      BY <3>1, <3>2, <3>3
  <2>3. h = [i \in 0..(k + 1) |-> IF i = 0 THEN c ELSE F(h[i - 1], i)]
    <3>1. h = [i \in 0..(k + 1) |-> h[i]]
      OBVIOUS
    <3> HIDE DEF h
    <3> QED
      BY <2>2, <3>1
  <2> HIDE DEF h
  <2> QED
    BY <2>3
<1>3. Len(adopted) \in S
  <2> HIDE DEF S
  <2> QED
    BY <1>1, <1>2, SetInduction
<1> DEFINE A == AdoptAll(c, adopted)
<1>4. A = [i \in 0..Len(adopted) |-> IF i = 0 THEN c ELSE F(A[i - 1], i)]
  <2> HIDE DEF F
  <2>1. A = CHOOSE g : g = [i \in 0..Len(adopted) |-> IF i = 0 THEN c ELSE F(g[i - 1], i)]
    BY Zenon DEF AdoptAll, F
  <2>2. \E g : g = [i \in 0..Len(adopted) |-> IF i = 0 THEN c ELSE F(g[i - 1], i)]
    BY <1>3
  <2> HIDE DEF A
  <2> QED
    BY <2>1, <2>2, Zenon
<1> HIDE DEF A, F
<1>5. A[0] = c /\ \A i \in 1..Len(adopted) : A[i] = F(A[i - 1], i)
  BY <1>4
<1> QED
  BY <1>5, Zenon DEF A, F, AdoptStep

\* apply_channel_update.
LEMMA ApplyChannelUpdateOK ==
    ASSUME NEW c, ChainOK(c), NEW orphaned, NEW adopted \in Seq(HeadEntries)
    PROVE  /\ ChainOK(apply_channel_update(c, orphaned, adopted))
           /\ apply_channel_update(c, orphaned, adopted).final_state = c.final_state
<1> DEFINE r == revert_orphans(c, orphaned)
           A == AdoptAll(r, adopted)
           n == Len(adopted)
           Good(x) == ChainOK(x) /\ x.final_state = c.final_state
           S == {i \in Nat : i <= n => Good(A[i])}
<1>1. Good(r)
  BY RevertOrphansOK
<1>2. n \in Nat
  OBVIOUS
<1>3. A[0] = r /\ \A i \in 1..n : AdoptStep(A, adopted, i)
  <2> HIDE DEF r
  <2> QED
    BY <1>2, AdoptAllUnfolds, Zenon
<1> HIDE DEF r, A
<1>4. 0 \in S
  BY <1>1, <1>3
<1>5. ASSUME NEW i \in Nat, i \in S PROVE i + 1 \in S
  <2> SUFFICES ASSUME i + 1 <= n PROVE Good(A[i + 1])
    OBVIOUS
  <2> HIDE DEF n
  <2>1. i <= n /\ i + 1 \in 1..n /\ (i + 1) - 1 = i
    BY <1>2
  <2>2. ChainOK(A[i]) /\ A[i].final_state = c.final_state
    BY <1>5, <2>1
  <2>3. A[i + 1] = apply_adopted(A[i], adopted[i + 1].msg, adopted[i + 1].block).chain
    BY <1>3, <2>1 DEF AdoptStep
  <2>4. adopted[i + 1] \in HeadEntries
    BY <2>1, ElementOfSeq DEF n
  <2>5. adopted[i + 1].msg \in Msg /\ adopted[i + 1].block \in Block
    BY <2>4 DEF HeadEntries
  <2> DEFINE x == A[i]
             m == adopted[i + 1].msg
             b == adopted[i + 1].block
  <2> HIDE DEF x, m, b
  <2>6. ChainOK(x) /\ m \in Msg /\ b \in Block
    BY <2>2, <2>5 DEF x, m, b
  <2>7. ChainOK(apply_adopted(x, m, b).chain) /\ apply_adopted(x, m, b).chain.final_state = x.final_state
    BY <2>6, ApplyAdoptedOK, Zenon
  <2> QED
    BY <2>2, <2>3, <2>7, Zenon DEF x, m, b
<1>6. n \in S
  <2> HIDE DEF S
  <2> QED
    BY <1>2, <1>4, <1>5, SetInduction
<1>7. Good(A[n])
  BY <1>2, <1>6
<1> QED
  BY <1>7, Zenon DEF apply_channel_update, A, r

\* apply_produced, which keeps the old head whole.
LEMMA ApplyProducedOK ==
    ASSUME NEW c, ChainOK(c), NEW m \in Msg, NEW b \in Block
    PROVE  /\ ChainOK(apply_produced(c, m, b).chain)
           /\ apply_produced(c, m, b).chain.final_state = c.final_state
           /\ Extends(c.head_state, apply_produced(c, m, b).chain.head_state)
<1> DEFINE hs == c.head_state
           d  == apply_produced(c, m, b).chain
<1>1. hs \in Seq(Block) /\ IsChain(hs)
  BY ChainFacts, Zenon
<1> DEFINE behind == head_tip(c) # NoTip /\ b.id <= head_tip(c).block_id
<1>2. d = c \/ (~behind /\ d = apply_adopted(c, m, b).chain)
  <2>1. apply_produced(c, m, b) = IF behind THEN Result(c, "AlreadyApplied")
                                            ELSE apply_adopted(c, m, b)
    BY Zenon DEF apply_produced
  <2>2. Result(c, "AlreadyApplied").chain = c
    BY DEF Result
  <2> HIDE DEF behind
  <2> QED
    BY <2>1, <2>2
<1> SUFFICES /\ ChainOK(d) /\ d.final_state = c.final_state
             /\ Extends(c.head_state, d.head_state)
  OBVIOUS
<1> HIDE DEF d
<1>3. CASE d = c
  BY <1>1, <1>3, PrefixRefl
<1>4. CASE ~behind /\ d = apply_adopted(c, m, b).chain
  <2>1. ASSUME NEW i \in 1..Len(c.head_blocks) PROVE ~ (c.head_blocks[i].block.id >= b.id)
    <3> DEFINE hb == c.head_blocks
               f  == c.final_state
               n  == Len(hs)
    <3>1. /\ hb \in Seq(HeadEntries) /\ f \in Seq(Block) /\ hs = f \o BlocksOf(hb)
          /\ head_tip(c) = TipOfChain(hs)
      BY ChainFacts, HeadTip, Zenon
    <3>2. i \in 1..Len(hb)
      OBVIOUS
    <3> HIDE DEF hb, f, hs
    <3>3. /\ BlocksOf(hb) \in Seq(Block) /\ Len(BlocksOf(hb)) = Len(hb)
          /\ BlocksOf(hb)[i] = hb[i].block
      BY <3>1, <3>2, BlocksOfProperties
    <3>4. /\ Len(f \o BlocksOf(hb)) = Len(f) + Len(BlocksOf(hb))
          /\ \A k \in 1..(Len(f) + Len(BlocksOf(hb))) :
                (f \o BlocksOf(hb))[k] =
                    IF k <= Len(f) THEN f[k] ELSE BlocksOf(hb)[k - Len(f)]
      <4>1. f \in Seq(Block) /\ BlocksOf(hb) \in Seq(Block)
        BY <3>1, <3>3, Zenon
      <4> QED
        BY <4>1, ConcatProperties
    <3>5. Len(f) \in Nat /\ Len(hb) \in Nat
      BY <3>1
    <3>6. Len(f) + i \in 1..n /\ hs[Len(f) + i] = hb[i].block /\ n \in 1..n /\ Len(f) + i <= n
      <4>1. Len(f \o BlocksOf(hb)) = Len(f) + Len(hb)
        BY <3>3, <3>4
      <4>2. (f \o BlocksOf(hb))[Len(f) + i] = hb[i].block
        BY <3>2, <3>3, <3>4, <3>5
      <4>3. n = Len(f) + Len(hb) /\ hs[Len(f) + i] = hb[i].block
        BY <3>1, <4>1, <4>2, Zenon
      <4> HIDE DEF n
      <4> QED
        BY <3>2, <3>5, <4>3
    <3>7. hs[Len(f) + i].id = Len(f) + i /\ hs[n].id = n
      BY <1>1, <3>6, ChainIds
    <3>8. hs[n] \in Block /\ hs # <<>>
      BY <1>1, <3>6, ElementOfSeq
    <3>9. head_tip(c) = TipOf(hs[n]) /\ TipOf(hs[n]).block_id = n /\ TipOf(hs[n]) # NoTip
      BY <3>1, <3>7, <3>8, TipTypes DEF TipOfChain, TipOf
    <3>10. ~ (b.id <= n)
      BY <1>4, <3>9
    <3>11. b.id \in Nat /\ n \in Nat
      BY <1>1, BlockAssumption
    <3>12. ~ (hb[i].block.id >= b.id)
      BY <3>5, <3>6, <3>7, <3>10, <3>11
    <3> QED
      BY <3>12 DEF hb
  <2>2. /\ ChainOK(d) /\ d.final_state = c.final_state
        /\ d.head_state = hs \/ d.head_state = Append(hs, b)
    <3>1. NothingAbove(c, b)
      BY <2>1 DEF NothingAbove
    <3>2. ChainOK(d) /\ d.final_state = c.final_state /\ ExtendedBy(c, d, b)
      <4>1. /\ ChainOK(apply_adopted(c, m, b).chain)
            /\ apply_adopted(c, m, b).chain.final_state = c.final_state
            /\ ExtendedBy(c, apply_adopted(c, m, b).chain, b)
        BY <3>1, ApplyAdoptedOK, Zenon
      <4> QED
        BY <1>4, <4>1, Zenon
    <3> QED
      BY <3>2 DEF ExtendedBy
  <2>3. Extends(hs, d.head_state)
    <3> HIDE DEF hs
    <3> QED
      BY <1>1, <2>2, PrefixRefl, PrefixOfAppend
  <2> QED
    BY <2>2, <2>3
<1> QED
  BY <1>2, <1>3, <1>4

\* restore_head_block.
LEMMA RestoreHeadBlockOK ==
    ASSUME NEW c, ChainOK(c), NEW b \in Block
    PROVE  /\ ChainOK(restore_head_block(c, b).chain)
           /\ restore_head_block(c, b).chain.final_state = c.final_state
<1> DEFINE d   == restore_head_block(c, b).chain
           err == apply_block(head_tip(c), b, c.head_state)
           e   == [msg |-> b.hash, block |-> b]
           f   == c.final_state
           hb  == c.head_blocks
           nb  == Append(hb, e)
           hs  == Append(c.head_state, b)
<1>1. d = IF err # Ok THEN c ELSE [c EXCEPT !.head_state = hs, !.head_blocks = nb]
  BY DEF restore_head_block
<1>2. CASE err # Ok
  <2> HIDE DEF err, d
  <2> QED
    BY <1>1, <1>2 DEF d
<1>3. CASE err = Ok
  <2>1. e \in HeadEntries /\ e.block = b
    BY BlockAssumption, MsgAssumption DEF HeadEntries
  <2>2. /\ f \in Seq(Block) /\ hb \in Seq(HeadEntries) /\ c.head_state = f \o BlocksOf(hb)
        /\ IsChain(f \o BlocksOf(hb)) /\ head_tip(c) = TipOfChain(c.head_state)
        /\ c.final_tip = TipOfChain(f)
    BY ChainFacts, HeadTip, Zenon
  <2>3. d = [c EXCEPT !.head_state = hs, !.head_blocks = nb]
    <3> HIDE DEF err, d, hs, nb
    <3> QED
      BY <1>1, <1>3
  <2>4. apply_block(TipOfChain(f \o BlocksOf(hb)), e.block, f \o BlocksOf(hb)) = Ok
    <3> HIDE DEF f, hb, e
    <3> QED
      BY <1>3, <2>1, <2>2, Zenon
  <2>5. hs = Append(f \o BlocksOf(hb), e.block)
    <3> HIDE DEF f, hb, e
    <3> QED
      BY <2>1, <2>2, Zenon
  <2> HIDE DEF f, hb, e, hs
  <2>6. /\ Append(hb, e) \in Seq(HeadEntries)
        /\ Append(f \o BlocksOf(hb), e.block) \in Seq(Block)
        /\ Append(f \o BlocksOf(hb), e.block) = f \o BlocksOf(Append(hb, e))
        /\ IsChain(Append(f \o BlocksOf(hb), e.block))
    BY <2>1, <2>2, <2>4, PushOK
  <2>7. /\ nb \in Seq(HeadEntries) /\ hs \in Seq(Block)
        /\ hs = f \o BlocksOf(nb) /\ IsChain(hs)
    BY <2>5, <2>6, Zenon
  <2>8. c \in Chains /\ c.panicked = FALSE
    BY ChainFacts DEF ChainOK
  <2> HIDE DEF nb, d
  <2>9. /\ d \in Chains /\ d.final_state = c.final_state /\ d.final_tip = c.final_tip
        /\ d.head_blocks = nb /\ d.head_state = hs /\ d.panicked = FALSE
    BY <2>3, <2>7, <2>8 DEF Chains
  <2>10. ChainOK(d)
    BY <2>2, <2>7, <2>9, Zenon DEF ChainOK, f
  <2> QED
    BY <2>9, <2>10, Zenon DEF d
<1> QED
  BY <1>2, <1>3

\* finalize_through moves a prefix of the head below the line and leaves the
\* chain as a whole alone.
LEMMA FinalizeThroughOK ==
    ASSUME NEW c, ChainOK(c), NEW n \in 1..Len(c.head_blocks)
    PROVE  /\ ChainOK(finalize_through(c, n))
           /\ Extends(c.final_state, finalize_through(c, n).final_state)
           /\ finalize_through(c, n).head_state = c.head_state
<1> DEFINE d  == finalize_through(c, n)
           r  == replay_head_prefix(c, n)
           f  == c.final_state
           hb == c.head_blocks
           nb == SubSeq(hb, n + 1, Len(hb))
           b1 == BlocksOf(SubSeq(hb, 1, n))
<1>1. c \in Chains /\ c.panicked = FALSE
  BY ChainFacts DEF ChainOK
<1>2. /\ f \in Seq(Block) /\ hb \in Seq(HeadEntries) /\ c.head_state = f \o BlocksOf(hb)
      /\ IsChain(c.head_state) /\ Len(hb) \in Nat
  BY ChainFacts, Zenon
<1>3. n \in 0..Len(hb) /\ n \in 1..Len(hb)
  BY <1>2
<1>4. /\ r.ok = TRUE /\ r.state = f \o b1 /\ r.state \in Seq(Block)
      /\ r.tip = TipOfChain(r.state)
  <2>0. r = replay_head_prefix(c, n)
    OBVIOUS
  <2> HIDE DEF r
  <2> QED
    BY <1>3, <2>0, ReplayHeadPrefix, Zenon
<1>5. r.tip \in Tips \cup {NoTip}
  <2> HIDE DEF r
  <2> QED
    BY <1>4, TipTypes
<1>6. nb \in Seq(HeadEntries)
  <2> HIDE DEF hb
  <2> QED
    BY <1>2, <1>3, SuffixProperties
<1>7. d = [c EXCEPT !.final_state = r.state, !.final_tip = r.tip, !.final_stall = NoStall,
                    !.head_blocks = nb, !.panicked = FALSE]
  <2> HIDE DEF r
  <2> QED
    BY <1>1, <1>4 DEF finalize_through, r
<1>8. c.head_state = r.state \o BlocksOf(nb) /\ b1 \in Seq(Block)
  <2> DEFINE t  == BlocksOf(hb)
             t1 == SubSeq(t, 1, n)
             t2 == SubSeq(t, n + 1, Len(t))
  <2> HIDE DEF f, hb, r
  <2>1. t \in Seq(Block) /\ Len(t) = Len(hb)
    BY <1>2, BlocksOfProperties
  <2>2. b1 = t1 /\ BlocksOf(nb) = t2
    <3>1. BlocksOf(SubSeq(hb, 1, n)) = SubSeq(BlocksOf(hb), 1, n)
      BY <1>2, <1>3, BlocksOfPrefix, Zenon
    <3>2. BlocksOf(SubSeq(hb, n + 1, Len(hb))) = SubSeq(BlocksOf(hb), n + 1, Len(hb))
      BY <1>2, <1>3, BlocksOfSuffix, Zenon
    <3> QED
      BY <2>1, <3>1, <3>2, Zenon
  <2> HIDE DEF t, b1
  <2>3. t1 \o t2 = t
    <3>1. /\ 1 \in 1..(Len(t) + 1) /\ n \in (1 - 1)..Len(t) /\ Len(t) \in n..Len(t)
      BY <1>2, <1>3, <2>1
    <3>2. t1 \o t2 = SubSeq(t, 1, Len(t))
      BY <2>1, <3>1, ConcatAdjacentSubSeq
    <3> QED
      BY <2>1, <3>2, SubSeqFull
  <2>4. t1 \in Seq(Block) /\ t2 \in Seq(Block)
    BY <1>2, <1>3, <2>1, PrefixProperties, SuffixProperties
  <2> HIDE DEF t1, t2
  <2>5. (f \o t1) \o t2 = f \o (t1 \o t2)
    <3>1. f \in Seq(Block)
      BY <1>2
    <3> QED
      BY <2>4, <3>1, ConcatAssociative
  <2> QED
    BY <1>2, <1>4, <2>2, <2>3, <2>4, <2>5, Zenon DEF t
<1> HIDE DEF r, nb, d
<1>9. /\ d \in Chains /\ d.final_state = r.state /\ d.final_tip = r.tip
      /\ d.head_blocks = nb /\ d.head_state = c.head_state /\ d.panicked = FALSE
  BY <1>1, <1>4, <1>5, <1>6, <1>7 DEF Chains
<1>10. ChainOK(d)
  BY <1>2, <1>4, <1>8, <1>9, Zenon DEF ChainOK
<1>11. Extends(f, f \o b1)
  <2> HIDE DEF f, b1
  <2> QED
    BY <1>2, <1>8, PrefixOfExtension
<1> QED
  BY <1>4, <1>9, <1>10, <1>11, Zenon DEF d

\* What apply_block can answer.
LEMMA ApplyBlockErrors ==
    ASSUME NEW tip, NEW b \in Block, NEW state
    PROVE  apply_block(tip, b, state) \in IngestErrors \cup {Ok}
<1>1. validate_against_tip(tip, b) \in IngestErrors \cup {Ok}
  <2>1. CASE ~b.intact
    BY <2>1 DEF validate_against_tip, IngestErrors
  <2>2. CASE b.intact /\ tip = NoTip
    BY <2>2 DEF validate_against_tip, IngestErrors
  <2>3. CASE b.intact /\ tip # NoTip
    BY <2>3 DEF validate_against_tip, IngestErrors
  <2> QED
    BY <2>1, <2>2, <2>3, BlockAssumption
<1>2. apply_block_to_state(b, state) \in IngestErrors \cup {Ok}
  BY BlockAssumption DEF apply_block_to_state, IngestErrors
<1> QED
  BY <1>1, <1>2 DEF apply_block

\* apply_finalized_direct.
LEMMA ApplyFinalizedDirectOK ==
    ASSUME NEW c, ChainOK(c), NEW b \in Block
    PROVE  /\ ChainOK(apply_finalized_direct(c, b).chain)
           /\ Extends(c.final_state, apply_finalized_direct(c, b).chain.final_state)
<1> DEFINE d     == apply_finalized_direct(c, b).chain
           f     == c.final_state
           err   == apply_block(c.final_tip, b, f)
           stale == /\ c.final_tip # NoTip
                    /\ \/ b.id < c.final_tip.block_id
                       \/ b.id = c.final_tip.block_id /\ b.hash = c.final_tip.hash
           fs    == Append(f, b)
           st    == record_final_stall(c, b, err)
           onto  == [c EXCEPT !.final_state = fs, !.final_tip = TipOf(b), !.final_stall = NoStall,
                              !.head_blocks = <<>>, !.head_state = fs]
           stuck == [c EXCEPT !.final_stall = st]
<1>1. d = c \/ (err = Ok /\ d = onto) \/ (err # Ok /\ d = stuck)
  <2>1. apply_finalized_direct(c, b) =
            IF stale THEN Result(c, "AlreadyApplied")
            ELSE IF err = Ok THEN Result(onto, "Applied") ELSE Result(stuck, "Parked")
    BY Zenon DEF apply_finalized_direct
  <2> HIDE DEF stale, err, onto, stuck
  <2> QED
    BY <2>1 DEF Result
<1>2. c \in Chains /\ c.panicked = FALSE
  BY ChainFacts DEF ChainOK
<1>3. /\ f \in Seq(Block) /\ c.final_tip = TipOfChain(f) /\ IsChain(c.head_state)
      /\ c.head_state = f \o BlocksOf(c.head_blocks) /\ c.head_blocks \in Seq(HeadEntries)
  BY ChainFacts, Zenon
<1>4. CASE d = c
  <2> HIDE DEF d, f
  <2>1. Extends(f, f)
    BY <1>3, PrefixRefl
  <2> QED
    BY <1>4, <2>1, Zenon DEF d, f
<1>5. CASE err = Ok /\ d = onto
  <2>1. IsChain(f)
    <3> DEFINE r == replay_head_prefix(c, 0)
    <3>0. r = replay_head_prefix(c, 0) /\ 0 \in 0..Len(c.head_blocks)
      BY ChainFacts
    <3> HIDE DEF r
    <3>1. r.state = f \o BlocksOf(SubSeq(c.head_blocks, 1, 0)) /\ IsChain(r.state)
      BY <3>0, ReplayHeadPrefix, Zenon
    <3>2. SubSeq(c.head_blocks, 1, 0) = <<>>
      BY SubSeqEmpty
    <3>3. BlocksOf(<<>>) = <<>>
      BY DEF BlocksOf
    <3>4. f \o <<>> = f
      <4> HIDE DEF f
      <4> QED
        BY <1>3, ConcatEmptySeq
    <3> QED
      BY <3>1, <3>2, <3>3, <3>4, Zenon
  <2>2. IsChain(fs) /\ TipOfChain(fs) = TipOf(b) /\ fs \in Seq(Block) /\ Extends(f, fs)
    <3>1. apply_block(TipOfChain(f), b, f) = Ok
      BY <1>3, <1>5, Zenon
    <3> HIDE DEF f
    <3> QED
      BY <1>3, <2>1, <3>1, AppendIsChain, AppendProperties, PrefixOfAppend
  <2>3. fs = fs \o BlocksOf(<<>>) /\ <<>> \in Seq(HeadEntries)
    <3>1. BlocksOf(<<>>) = <<>>
      BY DEF BlocksOf
    <3> HIDE DEF fs
    <3> QED
      BY <2>2, <3>1, ConcatEmptySeq
  <2>4. TipOf(b) \in Tips
    BY TipTypes
  <2> HIDE DEF fs, d
  <2>5. /\ d \in Chains /\ d.final_state = fs /\ d.final_tip = TipOf(b)
        /\ d.head_blocks = <<>> /\ d.head_state = fs /\ d.panicked = FALSE
    BY <1>2, <1>5, <2>2, <2>3, <2>4 DEF Chains
  <2>6. ChainOK(d)
    BY <2>2, <2>3, <2>5, Zenon DEF ChainOK
  <2> QED
    BY <2>2, <2>5, <2>6, Zenon DEF d
<1>6. CASE err # Ok /\ d = stuck
  <2>1. st \in Stalls
    <3>1. err \in IngestErrors
      BY <1>6, ApplyBlockErrors
    <3>2. c.final_stall \in Stalls \cup {NoStall}
      BY ChainFacts, Zenon
    <3> HIDE DEF err
    <3> QED
      BY <3>1, <3>2, CountAssumption, BlockAssumption DEF record_final_stall, Stalls
  <2> HIDE DEF st, d
  <2>2. /\ d \in Chains /\ d.final_state = f /\ d.final_tip = c.final_tip
        /\ d.head_blocks = c.head_blocks /\ d.head_state = c.head_state /\ d.panicked = FALSE
    BY <1>2, <1>6, <2>1 DEF Chains
  <2>3. ChainOK(d)
    BY <1>3, <2>2, Zenon DEF ChainOK
  <2>4. Extends(f, f)
    <3> HIDE DEF f
    <3> QED
      BY <1>3, PrefixRefl
  <2> QED
    BY <2>2, <2>3, <2>4, Zenon DEF d
<1> QED
  BY <1>1, <1>4, <1>5, <1>6

\* apply_finalized.
LEMMA ApplyFinalizedOK ==
    ASSUME NEW c, ChainOK(c), NEW m \in Msg, NEW b \in Block
    PROVE  /\ ChainOK(apply_finalized(c, m, b).chain)
           /\ Extends(c.final_state, apply_finalized(c, m, b).chain.final_state)
<1> DEFINE at     == head_position_of(c, m, b)
           parent == {i \in 1..Len(c.head_blocks) : c.head_blocks[i].block.hash = b.prev}
           mid    == IF parent = {} THEN c ELSE finalize_through(c, Min(parent))
<1>1. at \subseteq 1..Len(c.head_blocks) /\ parent \subseteq 1..Len(c.head_blocks)
  BY DEF head_position_of
<1>2. c.final_state \in Seq(Block)
  BY ChainFacts, Zenon
<1>3. ASSUME NEW P, P \subseteq 1..Len(c.head_blocks), P # {}
      PROVE  ChainOK(finalize_through(c, Min(P))) /\ Extends(c.final_state, finalize_through(c, Min(P)).final_state)
  <2>1. Min(P) \in 1..Len(c.head_blocks)
    BY <1>3, HeadPosition, Zenon
  <2> QED
    BY <2>1, FinalizeThroughOK, Zenon
<1>4. CASE at # {}
  <2>1. apply_finalized(c, m, b).chain = finalize_through(c, Min(at))
    <3>1. apply_finalized(c, m, b) = Result(finalize_through(c, Min(at)), "Applied")
      BY <1>4, Zenon DEF apply_finalized
    <3> QED
      BY <3>1 DEF Result
  <2> HIDE DEF at
  <2> QED
    BY <1>1, <1>3, <1>4, <2>1, Zenon
<1>5. CASE at = {}
  <2>1. apply_finalized(c, m, b) = apply_finalized_direct(mid, b)
    BY <1>5, Zenon DEF apply_finalized
  <2>2. ChainOK(mid) /\ Extends(c.final_state, mid.final_state)
    <3>1. Extends(c.final_state, c.final_state)
      BY <1>2, PrefixRefl, Zenon
    <3> HIDE DEF parent
    <3>2. CASE parent = {}
      BY <3>1, <3>2, Zenon
    <3>3. CASE parent # {}
      BY <1>1, <1>3, <3>3
    <3> QED
      BY <3>2, <3>3
  <2> HIDE DEF mid
  <2>3. /\ ChainOK(apply_finalized_direct(mid, b).chain)
        /\ Extends(mid.final_state, apply_finalized_direct(mid, b).chain.final_state)
    BY <2>2, ApplyFinalizedDirectOK, Zenon
  <2>4. /\ mid.final_state \in Seq(Block)
        /\ apply_finalized_direct(mid, b).chain.final_state \in Seq(Block)
    BY <2>2, <2>3, ChainFacts, Zenon
  <2>5. Extends(c.final_state, apply_finalized_direct(mid, b).chain.final_state)
    BY <1>2, <2>2, <2>3, <2>4, ExtendsTransitive, Zenon
  <2> QED
    BY <2>1, <2>3, <2>5, Zenon
<1> QED
  BY <1>4, <1>5

-----------------------------------------------------------------------------
(* Where head entries come from, and what a second delivery does.          *)

\* The shape of what apply_adopted returns.
LEMMA AdoptedShape ==
    ASSUME NEW c, ChainOK(c), NEW m, NEW b
    PROVE  LET r == apply_adopted(c, m, b)
           IN  \/ r.outcome # "Applied" /\ r.chain.head_blocks = c.head_blocks
               \/ /\ r.outcome = "Applied"
                  /\ \E kept \in 0..Len(c.head_blocks) :
                        r.chain.head_blocks = Append(SubSeq(c.head_blocks, 1, kept),
                                                     [msg |-> m, block |-> b])
<1> DEFINE above == {i \in 1..Len(c.head_blocks) : c.head_blocks[i].block.id >= b.id}
           kept  == IF above = {} THEN Len(c.head_blocks) ELSE Min(above) - 1
           base  == IF above = {}
                    THEN [state |-> c.head_state, tip |-> head_tip(c), ok |-> TRUE]
                    ELSE replay_head_prefix(c, kept)
           d     == [c EXCEPT !.panicked = @ \/ ~base.ok]
           e     == [msg |-> m, block |-> b]
           p     == [d EXCEPT !.head_blocks = Append(SubSeq(@, 1, kept), e),
                              !.head_state  = Append(base.state, b)]
           r     == apply_adopted(c, m, b)
<1>1. kept \in 0..Len(c.head_blocks)
  <2>1. above \subseteq 1..Len(c.head_blocks) /\ Len(c.head_blocks) \in Nat
    BY ChainFacts
  <2> HIDE DEF above
  <2>2. ASSUME above # {} PROVE Min(above) - 1 \in 0..Len(c.head_blocks)
    BY <2>1, <2>2, HeadPosition, Zenon
  <2> QED
    BY <2>1, <2>2
<1>2. \/ r = Result(c, "AlreadyApplied") \/ r = Result(d, "Parked") \/ r = Result(p, "Applied")
  <2> HIDE DEF d, p, base, kept, above
  <2> QED
    BY Zenon DEF r, apply_adopted, d, p, e, base, kept, above
<1>3. c \in Chains
  BY DEF ChainOK
<1> HIDE DEF base, kept, e, r
<1>4. /\ d.head_blocks = c.head_blocks
      /\ p.head_blocks = Append(SubSeq(c.head_blocks, 1, kept), e)
  BY <1>3 DEF Chains
<1> HIDE DEF d, p
<1>5. CASE r = Result(p, "Applied")
  <2>1. r.outcome = "Applied" /\ r.chain = p
    BY <1>5 DEF Result
  <2>2. \E k \in 0..Len(c.head_blocks) : r.chain.head_blocks = Append(SubSeq(c.head_blocks, 1, k), e)
    BY <1>1, <1>4, <2>1
  <2> QED
    BY <2>1, <2>2, Zenon DEF e, r
<1>6. CASE r = Result(c, "AlreadyApplied") \/ r = Result(d, "Parked")
  BY <1>4, <1>6 DEF Result, r
<1> QED
  BY <1>2, <1>5, <1>6

\* An adopted inscription joins the head entries; nothing else does.
LEMMA AdoptedEntries ==
    ASSUME NEW c, ChainOK(c), NEW m, NEW b, NEW G, c.head_blocks \in Seq(G),
           [msg |-> m, block |-> b] \in G
    PROVE  /\ apply_adopted(c, m, b).chain.head_blocks \in Seq(G)
           /\ apply_adopted(c, m, b).outcome = "Applied" =>
                 head_position_of(apply_adopted(c, m, b).chain, m, b) # {}
<1> DEFINE r  == apply_adopted(c, m, b)
           e  == [msg |-> m, block |-> b]
           hb == c.head_blocks
<1>1. \/ r.outcome # "Applied" /\ r.chain.head_blocks = hb
      \/ /\ r.outcome = "Applied"
         /\ \E kept \in 0..Len(hb) : r.chain.head_blocks = Append(SubSeq(hb, 1, kept), e)
  BY AdoptedShape, Zenon
<1> HIDE DEF r
<1>2. ASSUME NEW kept \in 0..Len(hb), r.chain.head_blocks = Append(SubSeq(hb, 1, kept), e)
      PROVE  r.chain.head_blocks \in Seq(G) /\ head_position_of(r.chain, m, b) # {}
  <2> DEFINE q == SubSeq(hb, 1, kept)
  <2>1. q \in Seq(G) /\ Len(q) = kept /\ kept \in Nat
    BY PrefixProperties
  <2> HIDE DEF q, e
  <2>2. /\ Append(q, e) \in Seq(G) /\ Len(Append(q, e)) = kept + 1 /\ Append(q, e)[kept + 1] = e
    BY <2>1, AppendProperties DEF e
  <2>3. /\ r.chain.head_blocks \in Seq(G) /\ kept + 1 \in 1..Len(r.chain.head_blocks)
        /\ r.chain.head_blocks[kept + 1] = e
    BY <1>2, <2>1, <2>2 DEF q
  <2>4. kept + 1 \in head_position_of(r.chain, m, b)
    BY <2>3 DEF head_position_of, e
  <2> QED
    BY <2>3, <2>4
<1> QED
  BY <1>1, <1>2 DEF r

\* Truncating keeps the first entries.
LEMMA RevertedEntries ==
    ASSUME NEW c, ChainOK(c), NEW G, c.head_blocks \in Seq(G)
    PROVE  /\ \A m, b : revert_orphan(c, m, b).head_blocks \in Seq(G)
           /\ \A orphaned : revert_orphans(c, orphaned).head_blocks \in Seq(G)
<1>1. c \in Chains
  BY DEF ChainOK
<1>2. ASSUME NEW P, P \subseteq 1..Len(c.head_blocks), P # {}
      PROVE  truncate_and_rederive(c, Min(P) - 1).head_blocks \in Seq(G)
  <2>1. Min(P) - 1 \in 0..Len(c.head_blocks)
    BY <1>2, HeadPosition
  <2>2. truncate_and_rederive(c, Min(P) - 1).head_blocks = SubSeq(c.head_blocks, 1, Min(P) - 1)
    BY <1>1 DEF truncate_and_rederive, Chains
  <2> QED
    BY <2>1, <2>2, PrefixProperties
<1>3. ASSUME NEW m, NEW b PROVE revert_orphan(c, m, b).head_blocks \in Seq(G)
  <2> DEFINE P == head_position_of(c, m, b)
  <2>1. P \subseteq 1..Len(c.head_blocks)
    BY DEF head_position_of
  <2>2. revert_orphan(c, m, b) = IF P = {} THEN c ELSE truncate_and_rederive(c, Min(P) - 1)
    BY Zenon DEF revert_orphan
  <2> HIDE DEF P
  <2> QED
    BY <1>2, <2>1, <2>2
<1>4. ASSUME NEW orphaned PROVE revert_orphans(c, orphaned).head_blocks \in Seq(G)
  <2> DEFINE P == UNION {head_position_of(c, orphaned[k].msg, orphaned[k].block) :
                            k \in 1..Len(orphaned)}
  <2>1. P \subseteq 1..Len(c.head_blocks)
    BY DEF head_position_of
  <2>2. revert_orphans(c, orphaned) = IF P = {} THEN c ELSE truncate_and_rederive(c, Min(P) - 1)
    BY Zenon DEF revert_orphans
  <2> HIDE DEF P
  <2> QED
    BY <1>2, <2>1, <2>2
<1> QED
  BY <1>3, <1>4

\* The entries after a channel update are old ones and adopted ones.
LEMMA UpdateEntries ==
    ASSUME NEW c, ChainOK(c), NEW G, c.head_blocks \in Seq(G), G \subseteq HeadEntries,
           NEW orphaned, NEW adopted \in Seq(G)
    PROVE  apply_channel_update(c, orphaned, adopted).head_blocks \in Seq(G)
<1> DEFINE r == revert_orphans(c, orphaned)
           A == AdoptAll(r, adopted)
           n == Len(adopted)
           Good(x) == ChainOK(x) /\ x.head_blocks \in Seq(G)
           S == {i \in Nat : i <= n => Good(A[i])}
<1>1. Good(r)
  BY RevertOrphansOK, RevertedEntries
<1>2. n \in Nat
  OBVIOUS
<1>3. A[0] = r /\ \A i \in 1..n : AdoptStep(A, adopted, i)
  <2> HIDE DEF r
  <2> QED
    BY <1>2, AdoptAllUnfolds, Zenon
<1> HIDE DEF r, A
<1>4. 0 \in S
  BY <1>1, <1>3
<1>5. ASSUME NEW i \in Nat, i \in S PROVE i + 1 \in S
  <2> SUFFICES ASSUME i + 1 <= n PROVE Good(A[i + 1])
    OBVIOUS
  <2> HIDE DEF n
  <2>1. i <= n /\ i + 1 \in 1..n /\ (i + 1) - 1 = i
    BY <1>2
  <2>2. ChainOK(A[i]) /\ A[i].head_blocks \in Seq(G)
    BY <1>5, <2>1
  <2>3. A[i + 1] = apply_adopted(A[i], adopted[i + 1].msg, adopted[i + 1].block).chain
    BY <1>3, <2>1 DEF AdoptStep
  <2>4. adopted[i + 1] \in G
    BY <2>1, ElementOfSeq DEF n
  <2> DEFINE x == A[i]
             m == adopted[i + 1].msg
             b == adopted[i + 1].block
  <2>5. m \in Msg /\ b \in Block /\ [msg |-> m, block |-> b] \in G
    BY <2>4 DEF HeadEntries
  <2> HIDE DEF x, m, b
  <2>6. ChainOK(x) /\ x.head_blocks \in Seq(G)
    BY <2>2 DEF x
  <2>7. ChainOK(apply_adopted(x, m, b).chain) /\ apply_adopted(x, m, b).chain.head_blocks \in Seq(G)
    BY <2>5, <2>6, ApplyAdoptedOK, AdoptedEntries, Zenon
  <2> QED
    BY <2>3, <2>7, Zenon DEF x, m, b
<1>6. n \in S
  <2> HIDE DEF S
  <2> QED
    BY <1>2, <1>4, <1>5, SetInduction
<1>7. Good(A[n])
  BY <1>2, <1>6
<1> QED
  BY <1>7, Zenon DEF apply_channel_update, A, r

\* The fields that finalize_through writes.
LEMMA FinalizeThroughFields ==
    ASSUME NEW c, ChainOK(c), NEW n \in 1..Len(c.head_blocks)
    PROVE  /\ finalize_through(c, n).head_blocks = SubSeq(c.head_blocks, n + 1, Len(c.head_blocks))
           /\ finalize_through(c, n).final_tip = TipOf(c.head_blocks[n].block)
<1> DEFINE p  == SubSeq(c.head_blocks, 1, n)
           bs == BlocksOf(p)
           r  == replay_head_prefix(c, n)
<1>1. /\ c \in Chains /\ c.head_blocks \in Seq(HeadEntries) /\ Len(c.head_blocks) \in Nat
      /\ n \in 0..Len(c.head_blocks) /\ n # 0
  <2>1. c \in Chains
    BY DEF ChainOK
  <2>2. c.head_blocks \in Seq(HeadEntries) /\ Len(c.head_blocks) \in Nat
    BY ChainFacts, Zenon
  <2> QED
    BY <2>1, <2>2
<1>2. p \in Seq(HeadEntries) /\ Len(p) = n /\ p[n] = c.head_blocks[n]
  BY <1>1, PrefixProperties
<1> HIDE DEF p
<1>3. bs[n] = c.head_blocks[n].block
  BY <1>1, <1>2, BlocksOfProperties
<1> HIDE DEF bs
<1>4. r.tip = TipOf(c.head_blocks[n].block)
  BY <1>1, <1>3 DEF replay_head_prefix, bs, p
<1> HIDE DEF r
<1> QED
  BY <1>1, <1>4 DEF finalize_through, Chains, r

\* A head entry has the height its position says, and its block is intact.
LEMMA HeadHeights ==
    ASSUME NEW c, ChainOK(c), NEW i \in 1..Len(c.head_blocks)
    PROVE  LET k == Len(c.final_state) + i
           IN  /\ k \in 1..Len(c.head_state) /\ c.head_state[k] = c.head_blocks[i].block
               /\ c.head_blocks[i].block.id = k /\ c.head_blocks[i].block.intact
<1> DEFINE k  == Len(c.final_state) + i
           f  == c.final_state
           bs == BlocksOf(c.head_blocks)
<1>1. /\ f \in Seq(Block) /\ Len(f) \in Nat /\ c.head_blocks \in Seq(HeadEntries)
      /\ Len(c.head_blocks) \in Nat /\ c.head_state = f \o bs /\ IsChain(c.head_state)
  BY ChainFacts, Zenon
<1>2. bs \in Seq(Block) /\ Len(bs) = Len(c.head_blocks) /\ bs[i] = c.head_blocks[i].block
  BY <1>1, BlocksOfProperties
<1> HIDE DEF bs, f
<1>3. k \in 1..Len(f \o bs) /\ (f \o bs)[k] = bs[i]
  BY <1>1, <1>2, ConcatProperties DEF f
<1> HIDE DEF k
<1>4. k \in 1..Len(c.head_state) /\ c.head_state[k] = c.head_blocks[i].block
  BY <1>1, <1>2, <1>3
<1>5. c.head_state[k].id = k /\ c.head_state[k].intact
  BY <1>1, <1>4, ChainIds, ChainLinks
<1> QED
  BY <1>4, <1>5 DEF k

\* A finalized block leaves old entries.
LEMMA FinalizedEntries ==
    ASSUME NEW c, ChainOK(c), NEW G, c.head_blocks \in Seq(G), NEW m, NEW b \in Block
    PROVE  apply_finalized(c, m, b).chain.head_blocks \in Seq(G)
<1> DEFINE at     == head_position_of(c, m, b)
           parent == {i \in 1..Len(c.head_blocks) : c.head_blocks[i].block.hash = b.prev}
           mid    == IF parent = {} THEN c ELSE finalize_through(c, Min(parent))
<1>1. at \subseteq 1..Len(c.head_blocks) /\ parent \subseteq 1..Len(c.head_blocks)
  BY DEF head_position_of
<1>2. ASSUME NEW P, P \subseteq 1..Len(c.head_blocks), P # {}
      PROVE  /\ ChainOK(finalize_through(c, Min(P)))
             /\ finalize_through(c, Min(P)).head_blocks \in Seq(G)
  <2>0. Min(P) \in 1..Len(c.head_blocks)
    BY <1>2, HeadPosition, Zenon
  <2>1. Min(P) \in 1..Len(c.head_blocks) /\ Min(P) \in 0..Len(c.head_blocks)
    BY <2>0
  <2>2. SubSeq(c.head_blocks, Min(P) + 1, Len(c.head_blocks)) \in Seq(G)
    BY <2>1, SuffixProperties
  <2> QED
    BY <2>1, <2>2, FinalizeThroughOK, FinalizeThroughFields
<1>3. CASE at # {}
  <2>1. apply_finalized(c, m, b) = Result(finalize_through(c, Min(at)), "Applied")
    BY <1>3, Zenon DEF apply_finalized
  <2> HIDE DEF at
  <2>2. finalize_through(c, Min(at)).head_blocks \in Seq(G)
    BY <1>1, <1>2, <1>3, Zenon
  <2>3. apply_finalized(c, m, b).chain = finalize_through(c, Min(at))
    BY <2>1 DEF Result
  <2> QED
    BY <2>2, <2>3, Zenon
<1>4. CASE at = {}
  <2>1. apply_finalized(c, m, b) = apply_finalized_direct(mid, b)
    BY <1>4, Zenon DEF apply_finalized
  <2>2. ChainOK(mid) /\ mid.head_blocks \in Seq(G)
    <3> HIDE DEF parent
    <3> QED
      BY <1>1, <1>2
  <2> HIDE DEF mid
  <2>3. mid \in Chains
    BY <2>2 DEF ChainOK
  <2>4. \/ apply_finalized_direct(mid, b).chain.head_blocks = mid.head_blocks
        \/ apply_finalized_direct(mid, b).chain.head_blocks = <<>>
    BY <2>3 DEF apply_finalized_direct, Result, Chains
  <2>5. <<>> \in Seq(G)
    OBVIOUS
  <2> QED
    BY <2>1, <2>2, <2>4, <2>5, Zenon
<1> QED
  BY <1>3, <1>4

\* apply_adopted recognises an inscription the head holds.
LEMMA AdoptedTwice ==
    ASSUME NEW c, NEW m, NEW b, head_position_of(c, m, b) # {}
    PROVE  apply_adopted(c, m, b) = Result(c, "AlreadyApplied")
  BY Zenon DEF apply_adopted

\* A block that was applied straight to the final tier is its tip, and the head is empty.
LEMMA DirectTwice ==
    ASSUME NEW c, ChainOK(c), NEW m, NEW b \in Block, NEW r, r = apply_finalized_direct(c, b),
           r.outcome = "Applied"
    PROVE  apply_finalized(r.chain, m, b) = Result(r.chain, "AlreadyApplied")
<1> DEFINE d == r.chain
<1>1. c \in Chains
  BY DEF ChainOK
<1>2. d.head_blocks = <<>> /\ d.final_tip = TipOf(b)
  BY <1>1 DEF apply_finalized_direct, Result, Chains
<1>3. d.final_tip # NoTip /\ b.id = d.final_tip.block_id /\ b.hash = d.final_tip.hash
  BY <1>2, TipTypes DEF TipOf
<1> HIDE DEF d
<1>4. Len(d.head_blocks) = 0
  BY <1>2
<1>5. /\ head_position_of(d, m, b) = {}
      /\ {i \in 1..Len(d.head_blocks) : d.head_blocks[i].block.hash = b.prev} = {}
  BY <1>4 DEF head_position_of
<1>6. apply_finalized(d, m, b) = apply_finalized_direct(d, b)
  BY <1>5, Zenon DEF apply_finalized
<1>7. apply_finalized_direct(d, b) = Result(d, "AlreadyApplied")
  BY <1>3, Zenon DEF apply_finalized_direct
<1> QED
  BY <1>6, <1>7 DEF d

\* A finalized inscription that is delivered again is recognised, if the head entry it
\* was matched with is the block itself and no later one is its parent.
LEMMA FinalizedTwice ==
    ASSUME NEW c, ChainOK(c), NEW m, NEW b \in Block,
           \A i \in head_position_of(c, m, b) :
              /\ c.head_blocks[i].block = b
              /\ \A j \in (i + 1)..Len(c.head_blocks) : c.head_blocks[j].block.hash # b.prev,
           NEW r, r = apply_finalized(c, m, b), r.outcome = "Applied"
    PROVE  apply_finalized(r.chain, m, b) = Result(r.chain, "AlreadyApplied")
<1> DEFINE at     == head_position_of(c, m, b)
           parent == {i \in 1..Len(c.head_blocks) : c.head_blocks[i].block.hash = b.prev}
           mid    == IF parent = {} THEN c ELSE finalize_through(c, Min(parent))
<1>1. at \subseteq 1..Len(c.head_blocks) /\ parent \subseteq 1..Len(c.head_blocks)
  BY DEF head_position_of
<1>2. ASSUME NEW P, P \subseteq 1..Len(c.head_blocks), P # {}
      PROVE  /\ Min(P) \in P /\ Min(P) \in 1..Len(c.head_blocks)
             /\ ChainOK(finalize_through(c, Min(P)))
  <2>1. Min(P) \in P /\ Min(P) \in 1..Len(c.head_blocks)
    BY <1>2, HeadPosition, Zenon
  <2> QED
    BY <2>1, FinalizeThroughOK, Zenon
<1>3. CASE at # {}
  <2> DEFINE n == Min(at)
             d == r.chain
             hb == c.head_blocks
  <2>1. d = finalize_through(c, n)
    <3>1. r = Result(finalize_through(c, n), "Applied")
      BY <1>3, Zenon DEF apply_finalized
    <3> QED
      BY <3>1 DEF Result
  <2>2. n \in at /\ n \in 1..Len(hb)
    <3> HIDE DEF at
    <3> QED
      BY <1>1, <1>2, <1>3, Zenon
  <2>3. /\ hb[n].block = b
        /\ \A j \in (n + 1)..Len(hb) : hb[j].block.hash # b.prev
    BY <2>2, Zenon
  <2> HIDE DEF n, d, at
  <2>4. d.head_blocks = SubSeq(hb, n + 1, Len(hb)) /\ d.final_tip = TipOf(b)
    BY <2>1, <2>2, <2>3, FinalizeThroughFields
  <2>5. hb \in Seq(HeadEntries) /\ Len(hb) \in Nat /\ n \in 0..Len(hb) /\ Len(c.final_state) \in Nat
    <3>1. hb \in Seq(HeadEntries) /\ Len(hb) \in Nat /\ Len(c.final_state) \in Nat
      BY ChainFacts, Zenon
    <3> QED
      BY <2>2, <3>1
  <2>6. /\ Len(d.head_blocks) = Len(hb) - n
        /\ \A i \in 1..(Len(hb) - n) : d.head_blocks[i] = hb[n + i]
    BY <2>4, <2>5, SuffixProperties
  <2>7. ASSUME NEW i \in 1..Len(d.head_blocks)
        PROVE  d.head_blocks[i].block.id # b.id /\ d.head_blocks[i].block.hash # b.prev
    <3>1. /\ n + i \in 1..Len(hb) /\ n + i \in (n + 1)..Len(hb) /\ n + i # n
          /\ d.head_blocks[i] = hb[n + i]
      BY <2>2, <2>5, <2>6, <2>7
    <3>2. hb[n + i].block.id = Len(c.final_state) + (n + i)
      BY <3>1, HeadHeights
    <3>3. b.id = Len(c.final_state) + n
      BY <2>2, <2>3, HeadHeights
    <3>4. hb[n + i].block.hash # b.prev
      BY <2>3, <3>1, Zenon
    <3>5. hb[n + i].block.id # b.id
      <4>1. Len(c.final_state) \in Nat /\ n \in Nat /\ n + i \in Nat /\ n + i # n
        BY <2>5, <3>1
      <4>2. \A x, y, z \in Nat : y # z => x + y # x + z
        OBVIOUS
      <4>3. Len(c.final_state) + (n + i) # Len(c.final_state) + n
        BY <4>1, <4>2, Zenon
      <4> QED
        BY <3>2, <3>3, <4>3, Zenon
    <3> QED
      BY <3>1, <3>4, <3>5, Zenon
  <2>8. /\ head_position_of(d, m, b) = {}
        /\ {i \in 1..Len(d.head_blocks) : d.head_blocks[i].block.hash = b.prev} = {}
    BY <2>7, Zenon DEF head_position_of
  <2>9. apply_finalized(d, m, b) = apply_finalized_direct(d, b)
    <3> HIDE DEF parent, mid
    <3> QED
      BY <2>8, Zenon DEF apply_finalized
  <2>10. d.final_tip # NoTip /\ b.id = d.final_tip.block_id /\ b.hash = d.final_tip.hash
    BY <2>4, TipTypes DEF TipOf
  <2>11. apply_finalized_direct(d, b) = Result(d, "AlreadyApplied")
    BY <2>10, Zenon DEF apply_finalized_direct
  <2> QED
    BY <2>9, <2>11 DEF d
<1>4. CASE at = {}
  <2>1. r = apply_finalized_direct(mid, b)
    BY <1>4, Zenon DEF apply_finalized
  <2>2. ChainOK(mid)
    <3> HIDE DEF parent
    <3> QED
      BY <1>1, <1>2
  <2> HIDE DEF mid, at, parent
  <2>3. r.outcome = "Applied"
    OBVIOUS
  <2> QED
    BY <2>1, <2>2, <2>3, DirectTwice
<1> QED
  BY <1>3, <1>4
=============================================================================
