-------------------------- MODULE ChainStateProofs --------------------------
(***************************************************************************)
(* The safety properties of ChainState for every set of blocks, every      *)
(* execution function, every set of inscriptions and any update length.    *)
(***************************************************************************)
EXTENDS ChainState, ChainOpsProofs

\* What a head entry can be: an inscription, or a restored block under its hash.
Tagged == Inscription \cup {e \in HeadEntries : e.msg \in Hash}

\* The inductive invariant: that of the struct, in the variable that holds it, and
\* the origin of the head entries.
IInv == ChainOK(chain) /\ live \in BOOLEAN /\ chain.head_blocks \in Seq(Tagged)

-----------------------------------------------------------------------------

\* A list of a channel update is a sequence of head entries.
LEMMA ListsAreSequences ==
    ASSUME NEW l \in Lists PROVE l \in Seq(HeadEntries) /\ l \in Seq(Tagged)
<1>1. PICK n \in 0..MaxUpdate : l \in [1..n -> Inscription]
  BY DEF Lists
<1>2. l \in [1..n -> HeadEntries] /\ l \in [1..n -> Tagged] /\ n \in Nat
  BY <1>1, InscriptionAssumption, MaxUpdateAssumption DEF Tagged
<1> QED
  BY <1>2

\* An inscription is a message and a block.
LEMMA InscriptionTypes ==
    ASSUME NEW i \in Inscription
    PROVE  i.msg \in Msg /\ i.block \in Block /\ [msg |-> i.msg, block |-> i.block] = i
  BY InscriptionAssumption DEF HeadEntries

LEMMA TaggedTypes == Tagged \subseteq HeadEntries
  BY InscriptionAssumption DEF Tagged

\* The cold state satisfies the invariant.
LEMMA InitOK == Init => IInv
<1> SUFFICES ASSUME Init
             PROVE  ChainOK(chain) /\ live \in BOOLEAN /\ chain.head_blocks \in Seq(Tagged)
  BY DEF IInv
<1>1. chain = from_final(<<>>, NoTip) /\ live = FALSE
  BY DEF Init, new
<1>2. /\ chain.final_state = <<>> /\ chain.final_tip = NoTip /\ chain.head_state = <<>>
      /\ chain.head_blocks = <<>> /\ chain.panicked = FALSE /\ chain \in Chains
  BY <1>1 DEF from_final, Chains
<1>3. BlocksOf(<<>>) = <<>> /\ <<>> \in Seq(Block)
  BY DEF BlocksOf
<1>4. <<>> = <<>> \o BlocksOf(<<>>)
  BY <1>3, ConcatEmptySeq
<1>5. IsChain(<<>>) /\ TipOfChain(<<>>) = NoTip
  BY DEF IsChain, Replays, TipOfChain
<1>6. <<>> \in Seq(Tagged)
  OBVIOUS
<1> QED
  BY <1>1, <1>2, <1>4, <1>5, <1>6, Zenon DEF ChainOK

\* What one call does: the invariant is kept and the final tier only grows.
LEMMA StepOK ==
    ASSUME IInv, Next
    PROVE  IInv' /\ Extends(chain.final_state, chain'.final_state)
<1>0. ChainOK(chain) /\ chain.head_blocks \in Seq(Tagged)
  BY DEF IInv
<1>1. chain.final_state \in Seq(Block)
  BY <1>0, ChainFacts, Zenon
<1>2. Extends(chain.final_state, chain.final_state)
  BY <1>1, PrefixRefl, Zenon
<1>3. SUFFICES /\ ChainOK(chain') /\ live' \in BOOLEAN /\ chain'.head_blocks \in Seq(Tagged)
               /\ Extends(chain.final_state, chain'.final_state)
  BY DEF IInv
<1>4. ASSUME NEW b \in Block, RestoreHeadBlock(b)
      PROVE  /\ ChainOK(chain') /\ live' \in BOOLEAN /\ chain'.head_blocks \in Seq(Tagged)
             /\ chain'.final_state = chain.final_state
  <2>1. chain' = restore_head_block(chain, b).chain /\ live' = live /\ live \in BOOLEAN
    BY <1>4 DEF RestoreHeadBlock, IInv
  <2>2. /\ ChainOK(restore_head_block(chain, b).chain)
        /\ restore_head_block(chain, b).chain.final_state = chain.final_state
    BY <1>0, RestoreHeadBlockOK, Zenon
  <2>3. restore_head_block(chain, b).chain.head_blocks \in Seq(Tagged)
    <3> DEFINE e == [msg |-> b.hash, block |-> b]
    <3>1. e \in Tagged
      BY BlockAssumption, MsgAssumption DEF Tagged, HeadEntries
    <3>2. chain \in Chains
      BY <1>0 DEF ChainOK
    <3> HIDE DEF e
    <3>3. Append(chain.head_blocks, e) \in Seq(Tagged)
      BY <1>0, <3>1, AppendProperties
    <3>4. restore_head_block(chain, b).chain.head_blocks \in
              {chain.head_blocks, Append(chain.head_blocks, e)}
      BY <3>2 DEF restore_head_block, Chains, e
    <3> QED
      BY <1>0, <3>3, <3>4
  <2> QED
    BY <2>1, <2>2, <2>3
<1>5. ASSUME NEW i \in Inscription, ApplyAdopted(i)
      PROVE  /\ ChainOK(chain') /\ live' \in BOOLEAN /\ chain'.head_blocks \in Seq(Tagged)
             /\ chain'.final_state = chain.final_state
  <2>1. i.msg \in Msg /\ i.block \in Block /\ [msg |-> i.msg, block |-> i.block] \in Tagged
    BY InscriptionTypes DEF Tagged
  <2>2. /\ ChainOK(apply_adopted(chain, i.msg, i.block).chain)
        /\ apply_adopted(chain, i.msg, i.block).chain.final_state = chain.final_state
    BY <1>0, <2>1, ApplyAdoptedOK, Zenon
  <2>3. apply_adopted(chain, i.msg, i.block).chain.head_blocks \in Seq(Tagged)
    BY <1>0, <2>1, AdoptedEntries, Zenon
  <2> QED
    BY <1>5, <2>2, <2>3 DEF ApplyAdopted
<1>6. ASSUME NEW i \in Inscription, ApplyProduced(i)
      PROVE  /\ ChainOK(chain') /\ live' \in BOOLEAN /\ chain'.head_blocks \in Seq(Tagged)
             /\ chain'.final_state = chain.final_state
  <2>1. i.msg \in Msg /\ i.block \in Block /\ [msg |-> i.msg, block |-> i.block] \in Tagged
    BY InscriptionTypes DEF Tagged
  <2>2. /\ ChainOK(apply_produced(chain, i.msg, i.block).chain)
        /\ apply_produced(chain, i.msg, i.block).chain.final_state = chain.final_state
    BY <1>0, <2>1, ApplyProducedOK, Zenon
  <2>3. apply_produced(chain, i.msg, i.block).chain.head_blocks \in Seq(Tagged)
    <3>1. apply_adopted(chain, i.msg, i.block).chain.head_blocks \in Seq(Tagged)
      BY <1>0, <2>1, AdoptedEntries, Zenon
    <3>2. apply_produced(chain, i.msg, i.block) \in
              {Result(chain, "AlreadyApplied"), apply_adopted(chain, i.msg, i.block)}
      BY DEF apply_produced
    <3> QED
      BY <1>0, <3>1, <3>2 DEF Result
  <2> QED
    BY <1>6, <2>2, <2>3 DEF ApplyProduced
<1>7. ASSUME NEW i \in Inscription, RevertOrphan(i)
      PROVE  /\ ChainOK(chain') /\ live' \in BOOLEAN /\ chain'.head_blocks \in Seq(Tagged)
             /\ chain'.final_state = chain.final_state
  <2>1. /\ ChainOK(revert_orphan(chain, i.msg, i.block))
        /\ revert_orphan(chain, i.msg, i.block).final_state = chain.final_state
    BY <1>0, RevertOrphanOK, Zenon
  <2>2. revert_orphan(chain, i.msg, i.block).head_blocks \in Seq(Tagged)
    BY <1>0, RevertedEntries, Zenon
  <2> QED
    BY <1>7, <2>1, <2>2 DEF RevertOrphan
<1>8. ASSUME NEW i \in Inscription, ApplyFinalized(i)
      PROVE  /\ ChainOK(chain') /\ live' \in BOOLEAN /\ chain'.head_blocks \in Seq(Tagged)
             /\ Extends(chain.final_state, chain'.final_state)
  <2>1. i.msg \in Msg /\ i.block \in Block /\ [msg |-> i.msg, block |-> i.block] \in Tagged
    BY InscriptionTypes DEF Tagged
  <2>2. /\ ChainOK(apply_finalized(chain, i.msg, i.block).chain)
        /\ Extends(chain.final_state, apply_finalized(chain, i.msg, i.block).chain.final_state)
    BY <1>0, <2>1, ApplyFinalizedOK, Zenon
  <2>3. apply_finalized(chain, i.msg, i.block).chain.head_blocks \in Seq(Tagged)
    BY <1>0, <2>1, FinalizedEntries, Zenon
  <2> QED
    BY <1>8, <2>2, <2>3 DEF ApplyFinalized
<1>9. ASSUME NEW orphaned \in Lists, NEW adopted \in Lists, ApplyChannelUpdate(orphaned, adopted)
      PROVE  /\ ChainOK(chain') /\ live' \in BOOLEAN /\ chain'.head_blocks \in Seq(Tagged)
             /\ chain'.final_state = chain.final_state
  <2>1. adopted \in Seq(HeadEntries) /\ adopted \in Seq(Tagged)
    BY ListsAreSequences
  <2>2. /\ ChainOK(apply_channel_update(chain, orphaned, adopted))
        /\ apply_channel_update(chain, orphaned, adopted).final_state = chain.final_state
    BY <1>0, <2>1, ApplyChannelUpdateOK, Zenon
  <2>3. apply_channel_update(chain, orphaned, adopted).head_blocks \in Seq(Tagged)
    BY <1>0, <2>1, TaggedTypes, UpdateEntries, Zenon
  <2> QED
    BY <1>9, <2>2, <2>3 DEF ApplyChannelUpdate
<1> QED
  BY <1>2, <1>4, <1>5, <1>6, <1>7, <1>8, <1>9, Zenon DEF Next

\* The invariant survives a stuttering step.
LEMMA StutterOK == IInv /\ UNCHANGED vars => IInv'
  BY DEF IInv, vars, ChainOK

\* The invariant of ChainState holds in every reachable state.
THEOREM Invariance == Spec => []IInv
<1>1. IInv /\ [Next]_vars => IInv'
  BY StepOK, StutterOK
<1> QED
  BY <1>1, InitOK, PTL DEF Spec

-----------------------------------------------------------------------------

\* The struct keeps its type under every sequence of method calls.
THEOREM TypeCorrect == Spec => []TypeOK
<1>1. IInv => TypeOK
  BY DEF IInv, ChainOK, TypeOK
<1> QED
  BY <1>1, Invariance, PTL

\* head_state is always final_state replayed through head_blocks.
THEOREM HeadIsReplay == Spec => []HeadMatchesReplay
<1>1. IInv => HeadMatchesReplay
  BY DEF IInv, ChainOK, HeadMatchesReplay
<1> QED
  BY <1>1, Invariance, PTL

\* Both tiers are one hash-linked chain that executes from the cold state.
THEOREM TiersFormOneChain == Spec => []OneValidChain
<1>1. IInv => OneValidChain
  BY DEF IInv, ChainOK, OneValidChain
<1> QED
  BY <1>1, Invariance, PTL

\* The `expect`s on replaying validated head blocks never fail.
THEOREM ReplayNeverPanics == Spec => []NeverPanics
<1>1. IInv => NeverPanics
  BY DEF IInv, ChainOK, NeverPanics
<1> QED
  BY <1>1, Invariance, PTL

\* A block of our own never reorgs the head.
THEOREM ProductionNeverReorgs == Spec => []ProducedOnlyExtends
<1>1. IInv => ProducedOnlyExtends
  <2> SUFFICES ASSUME IInv, NEW i \in Inscription
               PROVE  Extends(chain.head_state,
                              apply_produced(chain, i.msg, i.block).chain.head_state)
    BY DEF ProducedOnlyExtends
  <2>1. ChainOK(chain) /\ i.msg \in Msg /\ i.block \in Block
    BY InscriptionTypes DEF IInv
  <2> QED
    BY <2>1, ApplyProducedOK, Zenon
<1> QED
  BY <1>1, Invariance, PTL

\* No step removes or replaces a finalized block.
THEOREM FinalTierIrreversible == Spec => FinalIsIrreversible
<1>1. IInv /\ [Next]_vars => [Extends(chain.final_state, chain'.final_state)]_vars
  BY StepOK
<1> QED
  BY <1>1, Invariance, PTL DEF Spec, FinalIsIrreversible

-----------------------------------------------------------------------------

\* No block of a chain is the parent of an earlier one, or of itself.
LEMMA NoLaterParent ==
    ASSUME NEW bs, IsChain(bs), NEW i \in 1..Len(bs), NEW j \in 1..Len(bs), i <= j
    PROVE  bs[j].hash # bs[i].prev
<1>1. ASSUME NEW k \in 1..Len(bs)
      PROVE  /\ bs[k] \in Block /\ bs[k].intact /\ bs[k].id = k
             /\ k # 1 => bs[k].prev = bs[k - 1].hash /\ k - 1 \in 1..Len(bs)
  BY ChainLinks, ChainIds
<1>2. CASE i # 1
  <2>1. i - 1 \in 1..Len(bs) /\ bs[i].prev = bs[i - 1].hash
    BY <1>1, <1>2
  <2>2. bs[j].hash = bs[i - 1].hash => bs[j] = bs[i - 1]
    <3>1. bs[j] \in Block /\ bs[j].intact /\ bs[i - 1] \in Block /\ bs[i - 1].intact
      BY <1>1, <2>1
    <3> QED
      BY <3>1, HashAssumption, Zenon
  <2>3. bs[j].id = j /\ bs[i - 1].id = i - 1
    BY <1>1, <2>1
  <2> QED
    BY <2>1, <2>2, <2>3
<1>3. CASE i = 1
  <2> DEFINE S == {bs[k] : k \in 1..Len(bs)}
  <2>1. S \in SUBSET {b \in Block : b.intact} /\ S # {}
    BY <1>1
  <2>2. PICK first \in S : \A b \in S : b.hash # first.prev
    <3> HIDE DEF S
    <3> QED
      BY <2>1, AcyclicAssumption
  <2>3. PICK k \in 1..Len(bs) : first = bs[k]
    BY <2>2
  <2>4. k = 1
    <3> SUFFICES ASSUME k # 1 PROVE FALSE
      OBVIOUS
    <3>1. k - 1 \in 1..Len(bs) /\ bs[k].prev = bs[k - 1].hash
      BY <1>1
    <3>2. bs[k - 1] \in S
      BY <3>1
    <3> QED
      BY <2>2, <2>3, <3>1, <3>2
  <2>5. bs[j] \in S
    OBVIOUS
  <2> QED
    BY <1>3, <2>2, <2>3, <2>4, <2>5
<1> QED
  BY <1>2, <1>3

\* The head entry that an intact inscription is matched with is the inscribed block.
LEMMA MatchedIsSame ==
    ASSUME IInv, NEW i \in Inscription, i.block.intact,
           NEW k \in head_position_of(chain, i.msg, i.block)
    PROVE  /\ chain.head_blocks[k].block = i.block
           /\ \A j \in (k + 1)..Len(chain.head_blocks) :
                 chain.head_blocks[j].block.hash # i.block.prev
<1> DEFINE hb == chain.head_blocks
           e  == hb[k]
           n  == Len(chain.final_state)
<1>1. /\ k \in 1..Len(hb) /\ (e.msg = i.msg \/ e.block.hash = i.block.hash)
      /\ ChainOK(chain) /\ hb \in Seq(Tagged)
  BY DEF head_position_of, IInv
<1>2. i.block \in Block /\ Len(hb) \in Nat /\ n \in Nat /\ IsChain(chain.head_state)
  <2>1. Len(hb) \in Nat /\ n \in Nat /\ IsChain(chain.head_state)
    BY <1>1, ChainFacts, Zenon
  <2> QED
    BY <2>1, InscriptionTypes
<1>3. e \in Tagged /\ e.block.intact /\ e.block \in Block
  <2>1. e \in Tagged
    BY <1>1, ElementOfSeq
  <2>2. e \in HeadEntries
    BY <2>1, TaggedTypes
  <2>3. e.block.intact
    BY <1>1, HeadHeights
  <2> HIDE DEF e
  <2> QED
    BY <2>1, <2>2, <2>3 DEF HeadEntries
<1>4. e.block = i.block
  <2> HIDE DEF e
  <2>1. CASE e.msg = i.msg
    <3>1. e \in Inscription
      BY <1>3, <2>1, InscriptionAssumption DEF Tagged
    <3> QED
      BY <2>1, <3>1, InscriptionAssumption
  <2>2. CASE e.block.hash = i.block.hash
    BY <1>2, <1>3, <2>2, HashAssumption
  <2> QED
    BY <1>1, <2>1, <2>2 DEF e
<1>5. ASSUME NEW j \in (k + 1)..Len(hb) PROVE hb[j].block.hash # i.block.prev
  <2>1. j \in 1..Len(hb)
    BY <1>1, <1>2
  <2>2. /\ n + j \in 1..Len(chain.head_state) /\ chain.head_state[n + j] = hb[j].block
        /\ n + k \in 1..Len(chain.head_state) /\ chain.head_state[n + k] = hb[k].block
    BY <1>1, <2>1, HeadHeights
  <2>3. n + k <= n + j
    BY <1>1, <1>2, <2>1
  <2>4. chain.head_state[n + j].hash # chain.head_state[n + k].prev
    <3> HIDE DEF n
    <3> QED
      BY <1>2, <2>2, <2>3, NoLaterParent
  <2> QED
    BY <1>4, <2>2, <2>4
<1> QED
  BY <1>4, <1>5

\* An inscription that was just applied, as adopted or as finalized, is recognised
\* when it is delivered again, and changes nothing.
THEOREM RedeliveryIdempotent == Spec => []RedeliveryIsIdempotent
<1>1. IInv => RedeliveryIsIdempotent
  <2> SUFFICES ASSUME IInv, NEW i \in Inscription
               PROVE  LET a == apply_adopted(chain, i.msg, i.block)
                          f == apply_finalized(chain, i.msg, i.block)
                      IN  /\ a.outcome = "Applied" =>
                                apply_adopted(a.chain, i.msg, i.block) = Result(a.chain, "AlreadyApplied")
                          /\ f.outcome = "Applied" /\ i.block.intact =>
                                apply_finalized(f.chain, i.msg, i.block) = Result(f.chain, "AlreadyApplied")
    BY Zenon DEF RedeliveryIsIdempotent
  <2> DEFINE a == apply_adopted(chain, i.msg, i.block)
             f == apply_finalized(chain, i.msg, i.block)
  <2>1. ChainOK(chain) /\ chain.head_blocks \in Seq(Tagged)
    BY DEF IInv
  <2>2. i.block \in Block /\ [msg |-> i.msg, block |-> i.block] \in Tagged
    BY InscriptionTypes DEF Tagged
  <2>3. a.outcome = "Applied" => head_position_of(a.chain, i.msg, i.block) # {}
    BY <2>1, <2>2, AdoptedEntries, Zenon
  <2>4. ASSUME a.outcome = "Applied"
        PROVE  apply_adopted(a.chain, i.msg, i.block) = Result(a.chain, "AlreadyApplied")
    <3> HIDE DEF a
    <3> QED
      BY <2>3, <2>4, AdoptedTwice, Zenon
  <2>5. ASSUME f.outcome = "Applied", i.block.intact
        PROVE  apply_finalized(f.chain, i.msg, i.block) = Result(f.chain, "AlreadyApplied")
    <3>1. \A k \in head_position_of(chain, i.msg, i.block) :
              /\ chain.head_blocks[k].block = i.block
              /\ \A j \in (k + 1)..Len(chain.head_blocks) :
                    chain.head_blocks[j].block.hash # i.block.prev
      BY <2>5, MatchedIsSame
    <3>2. PICK r : r = f
      OBVIOUS
    <3> DEFINE m == i.msg
               b == i.block
    <3> HIDE DEF m, b
    <3>3. apply_finalized(r.chain, m, b) = Result(r.chain, "AlreadyApplied")
      BY <2>1, <2>2, <2>5, <3>1, <3>2, FinalizedTwice DEF m, b
    <3> QED
      BY <3>2, <3>3 DEF m, b
  <2> QED
    BY <2>4, <2>5, Zenon
<1> QED
  BY <1>1, Invariance, PTL
=============================================================================
