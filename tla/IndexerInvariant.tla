-------------------------- MODULE IndexerInvariant ---------------------------
(***************************************************************************)
(* The invariant of the indexer: what its store, its memory and its place  *)
(* in the channel have to do with one another, and that every step of its  *)
(* reader preserves it.                                                    *)
(***************************************************************************)
EXTENDS Indexer, BlocksProofs

-----------------------------------------------------------------------------
(* The store: blocks form a chain, and every snapshot is the state after   *)
(* the block it is filed under.                                            *)

Fields ==
    {"blocks", "tip_slot", "stall", "cursor", "breakpoints", "hash_to_id", "tx_to_id", "acc_txs"}

Snapshots(breakpoints, blocks) ==
    /\ DOMAIN breakpoints \subseteq Nat /\ 0 \in DOMAIN breakpoints
    /\ \A k \in DOMAIN breakpoints :
          /\ BREAKPOINT_INTERVAL * k <= Len(blocks)
          /\ breakpoints[k] = SubSeq(blocks, 1, BREAKPOINT_INTERVAL * k)

StoreOK(d) ==
    /\ DOMAIN d = Fields
    /\ IsChain(d.blocks)
    /\ Snapshots(d.breakpoints, d.blocks)

\* calculate_state_for_id gives the replay up to any stored block, from whatever
\* snapshots there are besides the first.
LEMMA StateForId ==
    ASSUME NEW d, d.blocks \in Seq(Block), Snapshots(d.breakpoints, d.blocks),
           NEW id \in 0..Len(d.blocks)
    PROVE  calculate_state_for_id(d, id) = SubSeq(d.blocks, 1, id)
<1> DEFINE I  == BREAKPOINT_INTERVAL
           n  == IF id = 0 THEN 0 ELSE id - 1
           P  == {k \in DOMAIN d.breakpoints : k <= closest_breakpoint_id(id)}
           br == Max(P)
           bs == d.blocks
<1>0. I \in Nat \ {0} /\ id \in Nat /\ n \in Nat /\ n <= id /\ Len(bs) \in Nat
  BY IntervalAssumption
<1>1. closest_breakpoint_id(id) = n \div I
  BY DEF closest_breakpoint_id
<1> HIDE DEF I, n, bs
<1>2. closest_breakpoint_id(id) \in Nat
  BY <1>0, <1>1, Multiples
<1>3. P \subseteq Nat /\ 0 \in P
  BY <1>2 DEF Snapshots
<1>4. br \in P
  <2>1. \A x \in P : x <= closest_breakpoint_id(id)
    OBVIOUS
  <2> HIDE DEF P
  <2> QED
    BY Zenon, <1>2, <1>3, <2>1, MaxOfNats
<1>5. /\ br \in Nat /\ br <= n \div I /\ I * br <= Len(bs)
      /\ d.breakpoints[br] = SubSeq(bs, 1, I * br)
  BY Zenon, <1>1, <1>3, <1>4 DEF Snapshots, bs, I
<1> HIDE DEF P, br
<1>6. I * br \in Nat /\ I * br <= id
  <2>1. I * br \in Nat /\ I * br <= n
    BY Zenon, <1>0, <1>5, Multiples
  <2> QED
    BY <1>0, <2>1
<1>7. SubSeq(bs, 1, I * br) \o SubSeq(bs, I * br + 1, id) = SubSeq(bs, 1, id)
  <2> DEFINE m == I * br
             l == SubSeq(bs, 1, m)
             u == SubSeq(bs, m + 1, id)
             w == SubSeq(bs, 1, id)
  <2>0. m \in 0..id /\ id \in 0..Len(bs) /\ m \in 0..Len(bs) /\ bs \in Seq(Block)
    BY <1>0, <1>6 DEF bs
  <2> HIDE DEF m
  <2>1. l \in Seq(Block) /\ Len(l) = m /\ \A i \in 1..m : l[i] = bs[i]
    BY <2>0, PrefixProperties
  <2>2. w \in Seq(Block) /\ Len(w) = id /\ \A i \in 1..id : w[i] = bs[i]
    BY <2>0, PrefixProperties
  <2>3. u \in Seq(Block) /\ Len(u) = id - m /\ \A i \in 1..(id - m) : u[i] = bs[m + i]
    BY <2>0
  <2> HIDE DEF l, u, w
  <2>4. /\ l \o u \in Seq(Block) /\ Len(l \o u) = Len(l) + Len(u)
        /\ \A i \in 1..(Len(l) + Len(u)) :
              (l \o u)[i] = IF i <= Len(l) THEN l[i] ELSE u[i - Len(l)]
    BY Zenon, <2>1, <2>3, ConcatProperties
  <2>5. Len(l \o u) = id
    BY <1>0, <2>0, <2>1, <2>3, <2>4
  <2>6. ASSUME NEW i \in 1..id PROVE (l \o u)[i] = w[i]
    <3>1. CASE i <= m
      <4>1. i \in 1..m /\ i \in 1..(Len(l) + Len(u)) /\ i <= Len(l)
        BY <2>0, <2>1, <2>4, <2>5, <3>1
      <4>2. (l \o u)[i] = l[i] /\ l[i] = bs[i]
        BY <2>1, <2>4, <4>1
      <4> QED
        BY <2>2, <4>2
    <3>2. CASE ~(i <= m)
      <4>1. i - m \in 1..(id - m) /\ m + (i - m) = i
        BY <2>0, <3>2
      <4>2. (l \o u)[i] = u[i - m] /\ u[i - m] = bs[i]
        BY Zenon, <2>0, <2>1, <2>3, <2>4, <2>5, <3>2, <4>1
      <4> QED
        BY <2>2, <4>2
    <3> QED
      BY Zenon, <3>1, <3>2
  <2>7. l \o u = w
    BY <2>2, <2>4, <2>5, <2>6, SeqEqual
  <2> QED
    BY Zenon, <2>7 DEF l, u, w, m
<1>8. calculate_state_for_id(d, id) = d.breakpoints[br] \o SubSeq(bs, I * br + 1, id)
  <2>1. ~(id > Len(d.blocks))
    BY <1>0 DEF bs
  <2> QED
    BY <2>1, Zenon DEF calculate_state_for_id, br, P, bs, I
<1> QED
  BY Zenon, <1>5, <1>7, <1>8 DEF bs

\* A new store.
LEMMA FreshStoreOK == StoreOK(FreshStore) /\ FreshStore.cursor = 0 /\ FreshStore.blocks = <<>>
<1>1. /\ DOMAIN FreshStore = Fields /\ FreshStore.blocks = <<>> /\ FreshStore.cursor = 0
      /\ FreshStore.breakpoints = [k \in {0} |-> <<>>]
  BY DEF FreshStore, Fields
<1>2. IsChain(<<>>)
  BY DEF IsChain, Replays
<1>4. BREAKPOINT_INTERVAL * 0 = 0 /\ Len(<<>>) = 0 /\ SubSeq(<<>>, 1, 0) = <<>>
  BY IntervalAssumption
<1>5. Snapshots([k \in {0} |-> <<>>], <<>>)
  BY <1>4 DEF Snapshots
<1> QED
  BY <1>1, <1>2, <1>5 DEF StoreOK

\* A snapshot is filed under the height of the block it was taken after.
LEMMA PutBreakpointOK ==
    ASSUME NEW bp, NEW bs, IsChain(bs), Snapshots(bp, bs), NEW b \in Block,
           b.id = Len(bs) + 1
    PROVE  Snapshots(put_breakpoint(bp, b, Append(bs, b)), Append(bs, b))
<1> DEFINE I  == BREAKPOINT_INTERVAL
           n  == Len(bs)
           as == Append(bs, b)
<1>0. I \in Nat \ {0} /\ bs \in Seq(Block) /\ n \in Nat
  BY IntervalAssumption DEF IsChain
<1>1. as \in Seq(Block) /\ Len(as) = n + 1 /\ \A i \in 1..n : as[i] = bs[i]
  BY <1>0, AppendProperties
<1>2. ASSUME NEW k \in DOMAIN bp
      PROVE  I * k <= n + 1 /\ bp[k] = SubSeq(as, 1, I * k)
  <2>1. k \in Nat /\ I * k <= n /\ bp[k] = SubSeq(bs, 1, I * k) /\ I * k \in Nat
    BY Zenon, <1>0, Multiples DEF Snapshots
  <2> DEFINE m == I * k
             l == SubSeq(bs, 1, m)
             r == SubSeq(as, 1, m)
  <2>2. m \in 0..n /\ m \in 0..Len(as)
    BY <1>0, <1>1, <2>1
  <2> HIDE DEF m, as
  <2>3. l \in Seq(Block) /\ Len(l) = m /\ \A i \in 1..m : l[i] = bs[i]
    BY <1>0, <2>2, PrefixProperties
  <2>4. r \in Seq(Block) /\ Len(r) = m /\ \A i \in 1..m : r[i] = as[i]
    BY Zenon, <1>1, <2>2, PrefixProperties
  <2> HIDE DEF l, r
  <2>5. ASSUME NEW i \in 1..m PROVE l[i] = r[i]
    <3>1. i \in 1..n
      BY <1>0, <2>2
    <3> QED
      BY <1>1, <2>3, <2>4, <3>1 DEF as
  <2>6. l = r
    BY Zenon, <2>3, <2>4, <2>5, SeqEqual
  <2>7. I * k <= n + 1
    BY <1>0, <2>1
  <2> QED
    BY Zenon, <2>1, <2>6, <2>7 DEF l, r, m
<1>3. SubSeq(as, 1, n + 1) = as
  BY <1>1, SubSeqFull
<1> HIDE DEF as, I
<1>4. CASE b.id % I # 0
  <2>1. put_breakpoint(bp, b, as) = bp
    BY <1>4 DEF put_breakpoint, I
  <2> QED
    BY Zenon, <1>1, <1>2, <2>1 DEF Snapshots, as, I
<1>5. CASE b.id % I = 0
  <2> DEFINE q == b.id \div I
             p == Put(bp, q, as)
  <2>1. q \in Nat /\ I * q = n + 1
    BY <1>0, <1>5, Multiples
  <2>2. put_breakpoint(bp, b, as) = p
    BY Zenon, <1>5 DEF put_breakpoint, I
  <2> HIDE DEF q
  <2>3. /\ DOMAIN p = {q} \cup DOMAIN bp
        /\ \A k \in DOMAIN p : p[k] = IF k = q THEN as ELSE bp[k]
    BY Zenon DEF Put
  <2> HIDE DEF p
  <2>4. ASSUME NEW k \in DOMAIN p PROVE I * k <= n + 1 /\ p[k] = SubSeq(as, 1, I * k)
    <3>1. CASE k = q
      <4>1. I * k = n + 1 /\ p[k] = as
        BY Zenon, <2>1, <2>3, <3>1
      <4>2. p[k] = SubSeq(as, 1, I * k)
        BY <1>3, <4>1, Zenon
      <4> QED
        BY <1>0, <4>1, <4>2
    <3>2. CASE k # q
      BY Zenon, <1>2, <2>3, <3>2
    <3> QED
      BY Zenon, <3>1, <3>2
  <2>5. DOMAIN p \subseteq Nat /\ 0 \in DOMAIN p
    BY <2>1, <2>3 DEF Snapshots
  <2>6. Snapshots(p, as)
    BY <1>1, <2>4, <2>5 DEF Snapshots, I
  <2> QED
    BY <2>2, <2>6 DEF as
<1> QED
  BY <1>4, <1>5

\* What the writes of the store change and leave alone.
LEMMA PutBlockOK ==
    ASSUME NEW d, StoreOK(d), NEW b \in Block, Extending(d.blocks, b), NEW s
    PROVE  LET e == put_block(d, b, s, Append(d.blocks, b))
           IN  StoreOK(e) /\ e.blocks = Append(d.blocks, b) /\ e.cursor = d.cursor
<1> DEFINE p == Append(d.blocks, b)
           e == put_block(d, b, s, p)
<1>1. IsChain(d.blocks) /\ Snapshots(d.breakpoints, d.blocks) /\ DOMAIN d = Fields
  BY DEF StoreOK
<1>2. b.id = Len(d.blocks) + 1 /\ IsChain(p)
  BY <1>1, NextHeight, AppendIsChain DEF Extending
<1>3. /\ DOMAIN e = Fields /\ e.cursor = d.cursor /\ e.blocks = p
      /\ e.breakpoints = put_breakpoint(d.breakpoints, b, p)
  BY <1>1 DEF put_block, Fields
<1>4. Snapshots(put_breakpoint(d.breakpoints, b, p), p)
  BY <1>1, <1>2, PutBreakpointOK
<1> HIDE DEF p, e
<1>5. StoreOK(e)
  BY <1>2, <1>3, <1>4 DEF StoreOK
<1> QED
  BY <1>3, <1>5 DEF e, p

LEMMA OtherWritesOK ==
    ASSUME NEW d, StoreOK(d)
    PROVE  /\ \A h, s : LET e == record_stall(d, h, s)
                        IN  StoreOK(e) /\ e.blocks = d.blocks /\ e.cursor = d.cursor
           /\ LET e == clear_stall_if_present(d)
              IN  StoreOK(e) /\ e.blocks = d.blocks /\ e.cursor = d.cursor
           /\ \A c : LET e == [d EXCEPT !.cursor = c]
                     IN  /\ StoreOK(e) /\ e.blocks = d.blocks /\ e.cursor = c
                         /\ e.stall = d.stall
<1>1. DOMAIN d = Fields
  BY DEF StoreOK
<1>2. ASSUME NEW x
      PROVE  LET e == [d EXCEPT !.stall = x]
             IN  StoreOK(e) /\ e.blocks = d.blocks /\ e.cursor = d.cursor
  BY <1>1 DEF StoreOK, Fields
<1>3. ASSUME NEW c
      PROVE  LET e == [d EXCEPT !.cursor = c]
             IN  StoreOK(e) /\ e.blocks = d.blocks /\ e.cursor = c /\ e.stall = d.stall
  BY <1>1 DEF StoreOK, Fields
<1>4. ASSUME NEW h, NEW s
      PROVE  LET e == record_stall(d, h, s)
             IN  StoreOK(e) /\ e.blocks = d.blocks /\ e.cursor = d.cursor
  BY <1>2 DEF record_stall
<1>5. LET e == clear_stall_if_present(d)
      IN  StoreOK(e) /\ e.blocks = d.blocks /\ e.cursor = d.cursor
  BY <1>2 DEF clear_stall_if_present
<1> QED
  BY <1>3, <1>4, <1>5

\* A block that links to the chain c but does not execute on it.
Failing(c, b) ==
    /\ validate_against_tip(TipOfChain(c), b) = Ok
    /\ apply_block_to_state(b, c) = "StateTransition"

\* What accept_block's outcomes say of a block and a store whose state is up to date.
LEMMA Outcomes ==
    ASSUME NEW d, StoreOK(d), NEW b \in Block, NEW s, NEW flaky \in BOOLEAN
    PROVE  LET r == accept_block(d, d.blocks, b, s, flaky)
           IN  \/ /\ r.outcome = "Applied" /\ ~flaky /\ Extending(d.blocks, b)
                  /\ r.db = put_block(d, b, s, Append(d.blocks, b))
               \/ r.outcome = "AlreadyApplied" /\ ~Extending(d.blocks, b) /\ ~Failing(d.blocks, b)
               \/ /\ r.outcome = "Parked" /\ ~Extending(d.blocks, b) /\ ~Failing(d.blocks, b)
                  /\ r.db = record_stall(d, TipOf(b), s)
               \/ /\ r.outcome = "RetryableFailure"
                  /\ \/ Failing(d.blocks, b) /\ ~Extending(d.blocks, b)
                     \/ flaky /\ Extending(d.blocks, b)
<1> DEFINE r      == accept_block(d, d.blocks, b, s, flaky)
           known  == b.id \in 1..Len(d.blocks) /\ d.blocks[b.id].hash = b.hash
           linked == validate_against_tip(TipOfChain(d.blocks), b)
           ex     == apply_block_to_state(b, d.blocks)
           err    == IF linked # Ok THEN linked
                     ELSE IF flaky /\ ex = Ok THEN "StateTransition" ELSE ex
<1>1. r = CASE known -> [outcome |-> "AlreadyApplied", db |-> d]
            [] ~known /\ err = Ok ->
                  [outcome |-> "Applied", db |-> put_block(d, b, s, Append(d.blocks, b))]
            [] ~known /\ err = "StateTransition" -> [outcome |-> "RetryableFailure", db |-> d]
            [] OTHER -> [outcome |-> "Parked", db |-> record_stall(d, TipOf(b), s)]
  BY Zenon DEF accept_block, validated_tip
<1>2. linked # "StateTransition"
  BY DEF validate_against_tip, Ok
<1>3. linked = Ok => b.id = Len(d.blocks) + 1
  <2>1. IsChain(d.blocks)
    BY DEF StoreOK
  <2> QED
    BY <2>1, LinkedHeight
<1>4. Len(d.blocks) \in Nat
  BY DEF StoreOK, IsChain
<1>5. known => linked # Ok
  BY <1>3, <1>4
<1>6. Extending(d.blocks, b) <=> linked = Ok /\ ex = Ok
  BY DEF Extending, apply_block
<1>7. Failing(d.blocks, b) <=> linked = Ok /\ ex = "StateTransition"
  BY DEF Failing
<1> HIDE DEF known, linked, ex, r
<1>8. CASE known
  <2>1. r = [outcome |-> "AlreadyApplied", db |-> d]
    <3> HIDE DEF err
    <3> QED
      BY <1>1, <1>8, Zenon
  <2> QED
    BY SMTT(30), <1>5, <1>6, <1>7, <1>8, <2>1 DEF r
<1>9. CASE ~known /\ err = Ok
  <2>1. r = [outcome |-> "Applied", db |-> put_block(d, b, s, Append(d.blocks, b))]
    <3> HIDE DEF err
    <3> QED
      BY <1>1, <1>9, Zenon DEF Ok
  <2>2. linked = Ok /\ ex = Ok /\ ~flaky
    BY <1>9 DEF Ok
  <2> QED
    BY <1>6, <2>1, <2>2 DEF r
<1>10. CASE ~known /\ err = "StateTransition"
  <2>1. r = [outcome |-> "RetryableFailure", db |-> d]
    BY <1>1, <1>10 DEF Ok
  <2>2. linked = Ok /\ (ex = "StateTransition" \/ (flaky /\ ex = Ok))
    BY <1>2, <1>10
  <2> QED
    BY SMTT(30), <1>6, <1>7, <2>1, <2>2 DEF r, Ok
<1>11. CASE ~known /\ err # Ok /\ err # "StateTransition"
  <2>1. r = [outcome |-> "Parked", db |-> record_stall(d, TipOf(b), s)]
    BY <1>1, <1>11
  <2>2. linked = Ok => ex # Ok /\ ex # "StateTransition"
    BY <1>11
  <2> QED
    BY SMTT(30), <1>6, <1>7, <2>1, <2>2 DEF r
<1> QED
  BY <1>8, <1>9, <1>10, <1>11

-----------------------------------------------------------------------------
(* The invariant.                                                          *)

\* The durable and the remote state.
Base ==
    /\ world \in World
    /\ now \in Nat /\ resets \in 0..world.resets /\ faults \in 0..world.max_faults
    /\ channel \in Seq(Entry) /\ Sorted(channel)
    /\ \A k \in 1..Len(channel) : channel[k].slot <= now
    /\ ParentsFirst => InOrder(channel)
    /\ StoreOK(db) /\ db.cursor \in 0..now

\* The memory of the process.
Memory ==
    /\ pc \in {"down", "check", "refused", "halted", "poll", "next", "clear"}
    /\ cursor \in 0..now /\ slot \in 0..now
    /\ todo \in Seq(Entry) /\ \A k \in 1..Len(todo) : todo[k].slot <= now
    /\ gate.attempts \in Nat
    /\ pc \in {"check", "poll", "next"} => state = db.blocks
    /\ pc = "clear" =>
          /\ todo # <<>> /\ Head(todo).msg.kind = "block"
          /\ state \in Seq(Block) /\ db.blocks = Append(state, Head(todo).msg.block)

\* The streak of failures is that of a block which does not execute and has yet to
\* be read again, or is within the failures there were.
GateOK(h, p) ==
    \/ gate.attempts <= faults
    \/ \E x \in (p + 1)..h : /\ channel[x].msg.kind = "block"
                            /\ channel[x].msg.block.id = gate.id
                            /\ Failing(db.blocks, channel[x].msg.block)

\* p entries were read of the q there were when the pass began.
InPass(h, p, q) ==
    /\ todo = SubSeq(channel, p + 1, q) /\ Boundary(channel, q)
    /\ p <= h /\ h <= q /\ ReadUpTo(channel, cursor) <= p
    /\ \/ slot = 0 /\ p = ReadUpTo(channel, cursor)
       \/ p > 0 /\ slot = channel[p].slot
       \/ p < q /\ slot = channel[p + 1].slot
    /\ pc = "next" => GateOK(h, p)
    /\ pc = "clear" => p < h /\ slot = channel[p + 1].slot

\* The store holds what h entries settle, and the cursors are not past them.
Following ==
    \E h \in 0..Len(channel) :
        /\ db.blocks = ChainAt(channel, h)
        /\ ReadUpTo(channel, db.cursor) <= h
        /\ pc = "check" => cursor = db.cursor /\ gate = NoGate
        /\ pc = "poll" => /\ ReadUpTo(channel, cursor) <= h
                          /\ GateOK(h, ReadUpTo(channel, cursor))
        /\ pc \in {"next", "clear"} => \E p, q \in 0..Len(channel) : InPass(h, p, q)

CaughtUp ==
    status = "CaughtUp" =>
        /\ pc = "poll" \/ (pc = "next" /\ slot = 0)
        /\ db.stall = NoStall
        /\ db.blocks = ChainAt(channel, ReadUpTo(channel, cursor))

Follows == resets = 0 /\ faults < APPLY_RETRY_LIMIT => Following /\ CaughtUp

Inv == Base /\ Memory /\ (ParentsFirst => Follows)

LEMMA InitInv == Init => Inv
<1> SUFFICES ASSUME Init PROVE Inv
  OBVIOUS
<1> USE DEF Init
<1>1. /\ world \in World /\ world.resets \in Nat /\ world.max_faults \in Nat
  BY WorldAssumption
<1>2. /\ <<>> \in Seq(Entry) /\ Sorted(<<>>) /\ InOrder(<<>>)
  BY DEF Sorted, InOrder
<1>3. Base
  BY <1>1, <1>2, FreshStoreOK DEF Base
<1>4. Memory
  BY DEF Memory, NoGate
<1>5. ReadUpTo(<<>>, 0) = 0
  BY Zenon, <1>2, ReadUpToZero
<1>6. Following
  <2>1. ChainAt(<<>>, 0) = <<>>
    BY <1>2, ChainAtStep, Zenon
  <2>2. db.blocks = <<>> /\ db.cursor = 0 /\ channel = <<>> /\ pc = "down"
    BY FreshStoreOK
  <2>3. 0 \in 0..Len(channel) /\ 0 <= 0
    BY <2>2
  <2> QED
    BY <1>5, <2>1, <2>2, <2>3 DEF Following
<1>7. CaughtUp
  BY DEF CaughtUp
<1> QED
  BY <1>3, <1>4, <1>6, <1>7 DEF Inv, Follows

-----------------------------------------------------------------------------
(* The L1's steps.                                                         *)

LEMMA FinalizeSlotInv ==
    ASSUME Inv, NEW messages \in world.slots[resets + 1], FinalizeSlot(messages)
    PROVE  Inv'
<1> DEFINE gs == Finalized(channel, now, messages)
<1>0. Base /\ Memory
  BY DEF Inv
<1>1. messages \in Seq(Messages)
  <2>1. world \in World /\ resets + 1 \in 1..(world.resets + 1)
    BY <1>0, WorldAssumption DEF Base
  <2> QED
    BY Zenon, <2>1, WorldAssumption
<1>2. /\ now' = now + 1 /\ channel' = gs /\ (ParentsFirst => InOrder(gs))
      /\ UNCHANGED <<world, resets, db, memory, faults>>
  BY DEF FinalizeSlot, Finalized, Stamped
<1> HIDE DEF gs
<1>3. /\ now \in Nat /\ channel \in Seq(Entry) /\ Sorted(channel)
      /\ (\A k \in 1..Len(channel) : channel[k].slot <= now) /\ Len(channel) \in Nat
  BY <1>0 DEF Base
<1>4. /\ gs \in Seq(Entry) /\ Sorted(gs) /\ Len(channel) <= Len(gs) /\ Len(gs) \in Nat
      /\ \A k \in 1..Len(gs) : gs[k].slot <= now + 1
      /\ \A k \in 1..Len(channel) : gs[k] = channel[k]
      /\ \A c \in 0..now : ReadUpTo(gs, c) = ReadUpTo(channel, c)
      /\ \A n \in 0..Len(channel) : ChainAt(gs, n) = ChainAt(channel, n)
      /\ \A q \in 0..Len(channel) : Boundary(channel, q) => Boundary(gs, q)
      /\ \A p, q \in 0..Len(channel) : SubSeq(gs, p + 1, q) = SubSeq(channel, p + 1, q)
  <2>1. gs \in Seq(Entry)
    BY <1>1, <1>3, SlotFinalized, Zenon DEF gs
  <2>2. Len(gs) \in Nat
    BY <2>1
  <2> QED
    BY <1>1, <1>3, <2>2, SlotFinalized, Zenon DEF gs
<1>5. Base'
  BY SMTT(30), <1>0, <1>2, <1>3, <1>4 DEF Base
<1>6. Memory'
  <2>1. /\ cursor \in 0..(now + 1) /\ slot \in 0..(now + 1)
        /\ \A k \in 1..Len(todo) : todo[k].slot <= now + 1
    <3>1. \A k \in 1..Len(todo) : todo[k].slot \in Nat /\ todo[k].slot <= now
      BY <1>0, EntryTypes DEF Memory
    <3> QED
      BY <1>0, <1>3, <3>1 DEF Memory
  <2> QED
    BY <1>0, <1>2, <2>1 DEF Memory, memory
<1>7. ASSUME ParentsFirst, resets = 0, faults < APPLY_RETRY_LIMIT PROVE Following' /\ CaughtUp'
  <2>1. Following /\ CaughtUp
    BY <1>7 DEF Inv, Follows
  <2>2. /\ ReadUpTo(gs, cursor) = ReadUpTo(channel, cursor)
        /\ ReadUpTo(gs, db.cursor) = ReadUpTo(channel, db.cursor)
        /\ ReadUpTo(channel, cursor) \in 0..Len(channel)
    <3>1. cursor \in 0..now /\ db.cursor \in 0..now /\ cursor \in Nat
      BY <1>0, <1>3 DEF Base, Memory
    <3> QED
      BY Zenon, <1>3, <1>4, <3>1, ReadUpToOK
  <2>3. PICK h \in 0..Len(channel) :
          /\ db.blocks = ChainAt(channel, h)
          /\ ReadUpTo(channel, db.cursor) <= h
          /\ pc = "check" => cursor = db.cursor /\ gate = NoGate
          /\ pc = "poll" => /\ ReadUpTo(channel, cursor) <= h
                            /\ GateOK(h, ReadUpTo(channel, cursor))
          /\ pc \in {"next", "clear"} => \E p, q \in 0..Len(channel) : InPass(h, p, q)
    BY <2>1 DEF Following
  <2>4. h \in 0..Len(gs) /\ ChainAt(gs, h) = ChainAt(channel, h)
    BY <1>3, <1>4
  <2>5. ASSUME NEW p \in 0..Len(channel), GateOK(h, p) PROVE GateOK(h, p)'
    <3>1. \A x \in (p + 1)..h : gs[x] = channel[x]
      BY <1>3, <1>4
    <3> QED
      BY <1>2, <2>5, <3>1 DEF GateOK, memory
  <2>6. ASSUME NEW p \in 0..Len(channel), NEW q \in 0..Len(channel), InPass(h, p, q)
        PROVE  InPass(h, p, q)' /\ p \in 0..Len(gs) /\ q \in 0..Len(gs)
    <3>1. SubSeq(gs, p + 1, q) = SubSeq(channel, p + 1, q) /\ Boundary(gs, q)
      BY Zenon, <1>4, <2>6 DEF InPass
    <3>2. (p > 0 => gs[p] = channel[p]) /\ (p < q => gs[p + 1] = channel[p + 1])
      BY <1>3, <1>4
    <3>3. pc = "clear" => p < q
      BY <1>3, <2>6 DEF InPass
    <3>4. pc = "next" => GateOK(h, p)'
      BY <2>5, <2>6 DEF InPass
    <3>5. p \in 0..Len(gs) /\ q \in 0..Len(gs)
      BY <1>3, <1>4
    <3> QED
      BY Zenon, <1>2, <2>2, <2>6, <3>1, <3>2, <3>3, <3>4, <3>5 DEF InPass, memory
  <2>7. Following'
    <3>1. pc \in {"next", "clear"} => \E p, q \in 0..Len(gs) : InPass(h, p, q)'
      BY <2>3, <2>6
    <3>2. PICK r \in 0..Len(channel) : r = ReadUpTo(channel, cursor)
      BY <2>2
    <3>3. /\ ReadUpTo(channel, cursor)' = r /\ ReadUpTo(channel, db.cursor)' = ReadUpTo(channel, db.cursor)
      BY <1>2, <2>2, <3>2 DEF memory
    <3>4. pc = "poll" => GateOK(h, r)'
      BY <2>3, <2>5, <3>2
    <3>5. pc = "poll" => GateOK(h, ReadUpTo(channel, cursor))'
      BY <3>3, <3>4 DEF GateOK
    <3>6. (\E p, q \in 0..Len(gs) : InPass(h, p, q)') => (\E p, q \in 0..Len(channel) : InPass(h, p, q))'
      BY <1>2
    <3> HIDE DEF GateOK, InPass
    <3> QED
      BY Zenon, <1>2, <2>2, <2>3, <2>4, <3>1, <3>2, <3>3, <3>5, <3>6 DEF Following, memory
  <2>8. CaughtUp'
    BY <1>2, <1>4, <2>1, <2>2 DEF CaughtUp, memory
  <2> QED
    BY <2>7, <2>8
<1>8. (ParentsFirst => Follows)'
  BY <1>2, <1>7 DEF Follows
<1> QED
  BY <1>5, <1>6, <1>8 DEF Inv

LEMMA ResetInv ==
    ASSUME Inv, Reset
    PROVE  Inv'
<1>0. Base /\ Memory
  BY DEF Inv
<1>1. /\ resets' = resets + 1 /\ resets < world.resets /\ channel' = <<>> /\ ~Up
      /\ UNCHANGED <<world, now, db, memory, faults>>
  BY DEF Reset
<1>2. <<>> \in Seq(Entry) /\ Sorted(<<>>) /\ InOrder(<<>>) /\ Len(<<>>) = 0
  BY DEF Sorted, InOrder
<1>3. resets + 1 \in 0..world.resets /\ resets + 1 # 0
  BY <1>0, <1>1, WorldAssumption DEF Base
<1>4. Base'
  BY <1>0, <1>1, <1>2, <1>3 DEF Base
<1>5. Memory'
  BY <1>0, <1>1 DEF Memory, memory
<1>6. Follows'
  BY <1>1, <1>3 DEF Follows
<1> QED
  BY <1>4, <1>5, <1>6 DEF Inv

-----------------------------------------------------------------------------
(* What the indexer's own steps have in common.                            *)

LEMMA BaseKept ==
    ASSUME Inv, UNCHANGED l1, UNCHANGED faults \/ Fault, StoreOK(db'), db'.cursor \in 0..now
    PROVE  /\ Base' /\ faults \in Nat /\ faults' \in Nat /\ faults <= faults'
           /\ (ParentsFirst /\ (resets = 0 /\ faults < APPLY_RETRY_LIMIT)' => Following /\ CaughtUp)
<1>1. Base
  BY DEF Inv
<1>2. /\ faults \in 0..world.max_faults /\ world.max_faults \in Nat /\ resets \in Nat
  BY <1>1, WorldAssumption DEF Base
<1>3. faults' \in 0..world.max_faults /\ faults <= faults' /\ faults \in Nat /\ faults' \in Nat
  BY <1>2 DEF Fault
<1>4. Base'
  BY <1>1, <1>3 DEF Base, l1
<1>5. (resets = 0 /\ faults < APPLY_RETRY_LIMIT)' => resets = 0 /\ faults < APPLY_RETRY_LIMIT
  BY <1>3, LimitAssumption DEF l1
<1> QED
  BY <1>3, <1>4, <1>5 DEF Inv, Follows

\* The last step of each of the proofs below.
LEMMA InvFrom ==
    ASSUME Base', Memory',
           ParentsFirst /\ (resets = 0 /\ faults < APPLY_RETRY_LIMIT)' => Following' /\ CaughtUp'
    PROVE  Inv'
  BY DEF Inv, Follows

LEMMA Cursors ==
    ASSUME Base, Memory
    PROVE  /\ channel \in Seq(Entry) /\ Sorted(channel) /\ Len(channel) \in Nat
           /\ ReadUpTo(channel, cursor) \in 0..Len(channel)
           /\ ReadUpTo(channel, db.cursor) \in 0..Len(channel)
           /\ ReadUpTo(channel, 0) = 0 /\ ChainAt(channel, 0) = <<>>
<1>1. /\ channel \in Seq(Entry) /\ Sorted(channel) /\ Len(channel) \in Nat
      /\ cursor \in Nat /\ db.cursor \in Nat
  BY DEF Base, Memory
<1> QED
  BY Zenon, <1>1, ReadUpToOK, ReadUpToZero, ChainAtStep

\* The gate of a later state whose streak is no longer, or empty.
LEMMA GateKept ==
    ASSUME NEW h \in Nat, NEW p \in Nat, NEW n \in Nat, NEW r \in Nat, h <= n, r <= p,
           UNCHANGED channel, db'.blocks = db.blocks, faults \in Nat, faults' \in Nat,
           faults <= faults', gate.attempts \in Nat,
           (gate' = gate /\ GateOK(h, p)) \/ gate' = NoGate
    PROVE  GateOK(n, r)'
<1>1. CASE gate' = NoGate
  <2>1. gate'.attempts = 0
    BY <1>1 DEF NoGate
  <2> QED
    BY <2>1 DEF GateOK
<1>2. CASE gate' = gate /\ GateOK(h, p)
  <2>1. CASE gate.attempts <= faults
    <3>1. gate'.attempts <= faults'
      BY <1>2, <2>1
    <3> QED
      BY <3>1 DEF GateOK
  <2>2. CASE \E x \in (p + 1)..h : /\ channel[x].msg.kind = "block"
                                 /\ channel[x].msg.block.id = gate.id
                                 /\ Failing(db.blocks, channel[x].msg.block)
    <3>1. (p + 1)..h \subseteq (r + 1)..n
      OBVIOUS
    <3>2. \E x \in (r + 1)..n : /\ channel'[x].msg.kind = "block"
                                /\ channel'[x].msg.block.id = gate'.id
                                /\ Failing(db'.blocks, channel'[x].msg.block)
      BY <1>2, <2>2, <3>1
    <3> QED
      BY <3>2 DEF GateOK
  <2> QED
    BY <1>2, <2>1, <2>2 DEF GateOK
<1> QED
  BY <1>1, <1>2

-----------------------------------------------------------------------------
(* Start-up and crash.                                                     *)

LEMMA StartInv == ASSUME Inv, Start PROVE Inv'
<1>0. Base /\ Memory
  BY DEF Inv
<1>1. /\ UNCHANGED <<l1, db, faults>> /\ state' = final_state(db) /\ cursor' = db.cursor
      /\ gate' = NoGate /\ todo' = <<>> /\ slot' = 0 /\ status' = "Starting" /\ pc' = "check"
  BY DEF Start
<1>2. StoreOK(db) /\ db.cursor \in 0..now /\ now \in Nat
  BY <1>0 DEF Base
<1>3. /\ Base'
      /\ (ParentsFirst /\ (resets = 0 /\ faults < APPLY_RETRY_LIMIT)' => Following /\ CaughtUp)
  BY <1>1, <1>2, BaseKept
<1>4. final_state(db) = db.blocks
  <2>1. /\ db.blocks \in Seq(Block) /\ Snapshots(db.breakpoints, db.blocks)
        /\ Len(db.blocks) \in 0..Len(db.blocks)
    BY <1>2 DEF StoreOK, IsChain
  <2>2. final_state(db) = SubSeq(db.blocks, 1, Len(db.blocks))
    BY <2>1, StateForId DEF final_state
  <2> QED
    BY <2>1, <2>2, SubSeqFull
<1>5. Memory'
  BY <1>1, <1>2, <1>4 DEF Memory, NoGate, l1
<1>6. ASSUME ParentsFirst, (resets = 0 /\ faults < APPLY_RETRY_LIMIT)' PROVE Following' /\ CaughtUp'
  <2>1. Following
    BY <1>3, <1>6
  <2>2. Following'
    BY <1>1, <2>1 DEF Following, l1
  <2>3. CaughtUp'
    BY <1>1 DEF CaughtUp
  <2> QED
    BY <2>2, <2>3
<1> QED
  BY <1>3, <1>5, <1>6, InvFrom

LEMMA JudgeInv ==
    ASSUME Inv, NEW v, pc = "check", Judge(v), UNCHANGED faults \/ Fault
    PROVE  Inv'
<1> USE DEF Judge
<1>0. Base /\ Memory
  BY DEF Inv
<1>1. StoreOK(db) /\ db.cursor \in 0..now /\ now \in Nat /\ cursor \in 0..now
  BY <1>0 DEF Base, Memory
<1>2. \/ /\ db' = db /\ state' = state /\ cursor' = cursor /\ pc' \in {"poll", "refused"}
      \/ db' = FreshStore /\ state' = <<>> /\ cursor' = 0 /\ pc' = "poll"
  OBVIOUS
<1>3. UNCHANGED <<l1, gate, todo, slot, status>>
  OBVIOUS
<1>4. StoreOK(db') /\ db'.cursor \in 0..now
  BY <1>1, <1>2, FreshStoreOK
<1>5. /\ Base' /\ faults \in Nat /\ faults' \in Nat /\ faults <= faults'
      /\ (ParentsFirst /\ (resets = 0 /\ faults < APPLY_RETRY_LIMIT)' => Following /\ CaughtUp)
  BY <1>3, <1>4, BaseKept
<1>6. Memory'
  <2>1. state = db.blocks /\ now' = now
    BY <1>0, <1>3 DEF Memory, l1
  <2> QED
    BY <1>0, <1>1, <1>2, <1>3, <2>1, FreshStoreOK DEF Memory
<1>7. ASSUME ParentsFirst, (resets = 0 /\ faults < APPLY_RETRY_LIMIT)' PROVE Following' /\ CaughtUp'
  <2>1. Following /\ CaughtUp
    BY <1>5, <1>7
  <2>2. PICK h \in 0..Len(channel) :
          /\ db.blocks = ChainAt(channel, h) /\ ReadUpTo(channel, db.cursor) <= h
          /\ cursor = db.cursor /\ gate = NoGate
    BY <2>1 DEF Following
  <2>3. status' # "CaughtUp"
    BY <1>3, <2>1 DEF CaughtUp
  <2>4. gate'.attempts <= faults' /\ channel' = channel
    BY <1>3, <1>5, <2>2 DEF NoGate, l1
  <2>5. ASSUME NEW n PROVE GateOK(n, ReadUpTo(channel, cursor))'
    BY <2>4 DEF GateOK
  <2>6. CASE db' = db /\ cursor' = cursor /\ pc' \in {"poll", "refused"}
    BY <2>2, <2>3, <2>4, <2>5, <2>6 DEF Following, CaughtUp
  <2>7. CASE db' = FreshStore /\ cursor' = 0 /\ pc' = "poll"
    <3>1. /\ db'.blocks = <<>> /\ db'.cursor = 0 /\ 0 \in 0..Len(channel) /\ 0 <= 0
          /\ ReadUpTo(channel, 0) = 0 /\ ChainAt(channel, 0) = <<>>
      BY <1>0, <2>7, FreshStoreOK, Cursors
    <3> QED
      BY Zenon, <2>3, <2>4, <2>5, <2>7, <3>1 DEF Following, CaughtUp
  <2> QED
    BY <1>2, <2>6, <2>7
<1> QED
  BY <1>5, <1>6, <1>7, InvFrom

LEMMA CrashInv == ASSUME Inv, Crash PROVE Inv'
<1>0. Base /\ Memory
  BY DEF Inv
<1>1. /\ UNCHANGED <<l1, db>> /\ Fault /\ state' = <<>> /\ cursor' = 0
      /\ gate' = NoGate /\ todo' = <<>> /\ slot' = 0 /\ status' = "Starting" /\ pc' = "down"
  BY DEF Crash
<1>2. StoreOK(db) /\ db.cursor \in 0..now /\ now \in Nat
  BY <1>0 DEF Base
<1>3. /\ Base'
      /\ (ParentsFirst /\ (resets = 0 /\ faults < APPLY_RETRY_LIMIT)' => Following /\ CaughtUp)
  BY <1>1, <1>2, BaseKept
<1>4. Memory'
  BY <1>1, <1>2 DEF Memory, NoGate, l1
<1>5. ASSUME ParentsFirst, (resets = 0 /\ faults < APPLY_RETRY_LIMIT)' PROVE Following' /\ CaughtUp'
  <2>1. Following
    BY <1>3, <1>5
  <2>2. Following'
    BY <1>1, <2>1 DEF Following, l1
  <2>3. CaughtUp'
    BY <1>1 DEF CaughtUp
  <2> QED
    BY <2>2, <2>3
<1> QED
  BY <1>3, <1>4, <1>5, InvFrom

-----------------------------------------------------------------------------
(* A pass: it begins, enters slots and ends.                               *)

LEMMA PassFacts ==
    ASSUME Base, Memory, NEW h \in 0..Len(channel), NEW p \in 0..Len(channel),
           NEW q \in 0..Len(channel), InPass(h, p, q)
    PROVE  /\ p <= q /\ (todo = <<>> <=> p = q)
           /\ p < q => /\ Head(todo) = channel[p + 1] /\ p + 1 \in 1..Len(channel)
                       /\ Tail(todo) = SubSeq(channel, (p + 1) + 1, q)
           /\ (todo = <<>> \/ Head(todo).slot # slot) /\ slot # 0 =>
                 ReadUpTo(channel, slot) = p
<1>1. channel \in Seq(Entry) /\ Sorted(channel) /\ Len(channel) \in Nat
  BY Cursors
<1>2. /\ todo = SubSeq(channel, p + 1, q) /\ Boundary(channel, q) /\ p <= q
      /\ slot = 0 \/ (p > 0 /\ slot = channel[p].slot) \/ (p < q /\ slot = channel[p + 1].slot)
  <2>1. p <= h /\ h <= q
    BY DEF InPass
  <2> QED
    BY <1>1, <2>1 DEF InPass
<1>3. todo = <<>> <=> p = q
  <2>1. p <= q
    BY <1>2
  <2>2. SubSeq(channel, p + 1, q) = <<>> <=> p = q
    BY <1>1, <2>1, HeadAndTail, Zenon
  <2> QED
    BY Zenon, <1>2, <2>2
<1>4. p < q => /\ Head(todo) = channel[p + 1] /\ p + 1 \in 1..Len(channel)
               /\ Tail(todo) = SubSeq(channel, (p + 1) + 1, q)
  <2>1. p < q => p + 1 \in 1..Len(channel)
    BY <1>1
  <2> QED
    BY <1>1, <1>2, <2>1, HeadAndTail, Zenon
<1>5. ASSUME todo = <<>> \/ Head(todo).slot # slot, slot # 0 PROVE ReadUpTo(channel, slot) = p
  <2>1. p > 0 /\ slot = channel[p].slot /\ p \in 1..Len(channel)
    <3>1. p < q => p # q
      OBVIOUS
    <3>2. p > 0 /\ slot = channel[p].slot
      BY Zenon, <1>2, <1>3, <1>4, <1>5, <3>1
    <3> QED
      BY <1>1, <3>2
  <2>2. CASE p = q
    BY <1>1, <1>2, <2>1, <2>2, BoundaryIsReadUpTo
  <2>3. CASE p < q
    <3>1. channel[p].slot # channel[p + 1].slot /\ p + 1 <= Len(channel)
      BY <1>1, <1>3, <1>4, <1>5, <2>1, <2>3
    <3>2. Boundary(channel, p)
      BY <1>1, <2>1, <3>1, BoundaryBetween
    <3> QED
      BY <1>1, <2>1, <3>2, BoundaryIsReadUpTo
  <2> QED
    BY <1>1, <1>2, <2>2, <2>3
<1> QED
  BY Zenon, <1>2, <1>3, <1>4, <1>5

LEMMA PollInv == ASSUME Inv, Poll PROVE Inv'
<1> DEFINE r == ReadUpTo(channel, cursor)
           n == Len(channel)
<1>0. Base /\ Memory
  BY DEF Inv
<1>1. /\ pc = "poll" /\ todo' = SubSeq(channel, r + 1, n) /\ slot' = 0 /\ pc' = "next"
      /\ UNCHANGED <<l1, db, state, cursor, gate, status, faults>>
  BY DEF Poll
<1>2. /\ StoreOK(db) /\ db.cursor \in 0..now /\ now \in Nat /\ cursor \in 0..now
      /\ \A k \in 1..n : channel[k].slot <= now
  BY <1>0 DEF Base, Memory
<1>3. /\ Base' /\ faults \in Nat
      /\ (ParentsFirst /\ (resets = 0 /\ faults < APPLY_RETRY_LIMIT)' => Following /\ CaughtUp)
  BY <1>1, <1>2, BaseKept
<1>4. channel \in Seq(Entry) /\ n \in Nat /\ r \in 0..n /\ n \in 0..n /\ r <= n
  BY <1>0, Cursors
<1> HIDE DEF r
<1>5. SubSeq(channel, r + 1, n) \in Seq(Entry)
      /\ \A k \in 1..Len(SubSeq(channel, r + 1, n)) : \E i \in 1..n : SubSeq(channel, r + 1, n)[k] = channel[i]
  BY <1>4, HeadAndTail
<1>6. Memory'
  <2>1. \A k \in 1..Len(todo') : todo'[k].slot <= now
    BY Zenon, <1>1, <1>2, <1>5
  <2> QED
    BY <1>0, <1>1, <1>2, <1>5, <2>1 DEF Memory, l1
<1>7. ASSUME ParentsFirst, (resets = 0 /\ faults < APPLY_RETRY_LIMIT)' PROVE Following' /\ CaughtUp'
  <2>1. Following /\ CaughtUp
    BY <1>3, <1>7
  <2>2. PICK h \in 0..n : /\ db.blocks = ChainAt(channel, h) /\ ReadUpTo(channel, db.cursor) <= h
                          /\ r <= h /\ GateOK(h, r)
    BY <1>1, <2>1 DEF Following, r
  <2>3. PICK p \in 0..n, q \in 0..n : p = r /\ q = n
    BY <1>4
  <2>4. Boundary(channel, q) /\ p <= h /\ h <= q /\ channel' = channel /\ ReadUpTo(channel', cursor') = p
    BY <1>1, <1>4, <2>2, <2>3 DEF Boundary, l1, r
  <2>5. GateOK(h, p)'
    BY <1>1, <2>2, <2>3, <2>4 DEF GateOK, l1
  <2>6. InPass(h, p, q)'
    BY <1>1, <2>3, <2>4, <2>5 DEF InPass
  <2>7. Following'
    <3>1. (\E i, j \in 0..Len(channel) : InPass(h, i, j))'
      BY <2>3, <2>4, <2>6
    <3> QED
      BY <1>1, <2>2, <2>4, <3>1 DEF Following
  <2>8. CaughtUp'
    BY <1>1, <2>1, <2>4 DEF CaughtUp
  <2> QED
    BY <2>7, <2>8
<1> QED
  BY <1>3, <1>6, <1>7, InvFrom

LEMMA PollFailsInv == ASSUME Inv, PollFails PROVE Inv'
<1>0. Base /\ Memory
  BY DEF Inv
<1>1. /\ pc = "poll" /\ status' = "Error" /\ Fault
      /\ UNCHANGED <<l1, db, state, cursor, gate, todo, slot, pc>>
  BY DEF PollFails
<1>2. StoreOK(db) /\ db.cursor \in 0..now
  BY <1>0 DEF Base
<1>3. /\ Base' /\ faults \in Nat /\ faults' \in Nat /\ faults <= faults'
      /\ (ParentsFirst /\ (resets = 0 /\ faults < APPLY_RETRY_LIMIT)' => Following /\ CaughtUp)
  BY <1>1, <1>2, BaseKept
<1>4. Memory'
  BY <1>0, <1>1 DEF Memory, l1
<1>5. ASSUME ParentsFirst, (resets = 0 /\ faults < APPLY_RETRY_LIMIT)' PROVE Following' /\ CaughtUp'
  <2>1. PICK h \in 0..Len(channel) :
          /\ db.blocks = ChainAt(channel, h) /\ ReadUpTo(channel, db.cursor) <= h
          /\ ReadUpTo(channel, cursor) <= h /\ GateOK(h, ReadUpTo(channel, cursor))
    BY <1>1, <1>3, <1>5 DEF Following
  <2>2. PICK r \in 0..Len(channel) : r = ReadUpTo(channel, cursor)
    BY <1>0, Cursors
  <2>3. gate.attempts \in Nat /\ h \in Nat /\ r \in Nat /\ channel' = channel /\ Len(channel) \in Nat
    BY <1>0, <1>1, Cursors DEF Memory, l1
  <2>4. GateOK(h, r)'
    BY <1>1, <1>3, <2>1, <2>2, <2>3, GateKept
  <2>5. GateOK(h, ReadUpTo(channel, cursor))'
    BY <1>1, <2>2, <2>3, <2>4 DEF GateOK
  <2> QED
    BY <1>1, <2>1, <2>3, <2>5 DEF Following, CaughtUp
<1> QED
  BY <1>3, <1>4, <1>5, InvFrom

\* The cursor moves onto the slot that is complete, if there is one.
LEMMA AdvanceFacts ==
    ASSUME Base, Memory,
           IF slot = 0 THEN UNCHANGED <<db, cursor, faults>> ELSE AdvanceCursor(slot)
    PROVE  /\ StoreOK(db') /\ db'.blocks = db.blocks /\ db'.stall = db.stall
           /\ db'.cursor \in 0..now /\ cursor' \in 0..now
           /\ UNCHANGED faults \/ Fault
           /\ cursor' = IF slot = 0 THEN cursor ELSE slot
           /\ db'.cursor = db.cursor \/ (slot # 0 /\ db'.cursor = slot)
<1>1. /\ StoreOK(db) /\ db.cursor \in 0..now /\ cursor \in 0..now /\ slot \in 0..now
  BY DEF Base, Memory
<1>2. CASE db' = db
  BY <1>1, <1>2 DEF AdvanceCursor
<1>3. CASE slot # 0 /\ db' = [db EXCEPT !.cursor = slot]
  <2>1. StoreOK(db') /\ db'.blocks = db.blocks /\ db'.cursor = slot /\ db'.stall = db.stall
    BY <1>1, <1>3, OtherWritesOK
  <2> QED
    BY <1>1, <1>3, <2>1 DEF AdvanceCursor
<1> QED
  BY <1>2, <1>3 DEF AdvanceCursor

LEMMA EnterSlotInv == ASSUME Inv, EnterSlot PROVE Inv'
<1>0. Base /\ Memory
  BY DEF Inv
<1>1. /\ pc = "next" /\ todo # <<>> /\ Head(todo).slot # slot
      /\ IF slot = 0 THEN UNCHANGED <<db, cursor, faults>> ELSE AdvanceCursor(slot)
      /\ slot' = Head(todo).slot
      /\ status' = IF slot = 0 THEN "Syncing" ELSE status
      /\ UNCHANGED <<l1, state, gate, todo, verdict, pc>>
  BY DEF EnterSlot
<1>2. /\ StoreOK(db') /\ db'.blocks = db.blocks
      /\ db'.cursor \in 0..now /\ cursor' \in 0..now
      /\ UNCHANGED faults \/ Fault
      /\ cursor' = IF slot = 0 THEN cursor ELSE slot
      /\ db'.cursor = db.cursor \/ (slot # 0 /\ db'.cursor = slot)
  BY <1>0, <1>1, AdvanceFacts
<1>3. /\ Base' /\ faults \in Nat /\ faults' \in Nat /\ faults <= faults'
      /\ (ParentsFirst /\ (resets = 0 /\ faults < APPLY_RETRY_LIMIT)' => Following /\ CaughtUp)
  BY <1>1, <1>2, BaseKept
<1>4. Memory'
  <2>1. Head(todo) = todo[1] /\ 1 \in 1..Len(todo) /\ todo \in Seq(Entry) /\ now \in Nat
    BY <1>0, <1>1, EmptySeq DEF Memory, Base
  <2>2. slot' \in 0..now
    BY <1>0, <1>1, <2>1, EntryTypes DEF Memory
  <2> QED
    BY <1>0, <1>1, <1>2, <2>2 DEF Memory, l1
<1>5. ASSUME ParentsFirst, (resets = 0 /\ faults < APPLY_RETRY_LIMIT)' PROVE Following' /\ CaughtUp'
  <2>1. Following /\ CaughtUp
    BY <1>3, <1>5
  <2>2. PICK h \in 0..Len(channel), p \in 0..Len(channel), q \in 0..Len(channel) :
          /\ db.blocks = ChainAt(channel, h) /\ ReadUpTo(channel, db.cursor) <= h
          /\ InPass(h, p, q)
    BY <1>1, <2>1 DEF Following
  <2>3. /\ p <= q /\ (todo = <<>> <=> p = q)
        /\ p < q => Head(todo) = channel[p + 1]
        /\ slot # 0 => ReadUpTo(channel, slot) = p
    BY <1>0, <1>1, <2>2, PassFacts
  <2>4. p < q /\ slot' = channel[p + 1].slot /\ channel' = channel
    BY <1>1, <2>3 DEF l1
  <2>5. /\ ReadUpTo(channel, cursor) <= p /\ p <= h /\ h <= q /\ GateOK(h, p)
        /\ todo = SubSeq(channel, p + 1, q) /\ Boundary(channel, q)
    BY <1>1, <2>2 DEF InPass
  <2>6. ReadUpTo(channel', cursor') <= p /\ ReadUpTo(channel', db'.cursor) <= h
    BY SMTT(30), <1>2, <2>2, <2>3, <2>4, <2>5
  <2>7. GateOK(h, p)'
    <3>1. gate.attempts \in Nat
      BY Zenon, <1>0 DEF Memory
    <3>2. h \in Nat /\ p \in Nat /\ p <= p /\ h <= h
      BY <1>0, Cursors
    <3> QED
      BY Zenon, <1>1, <1>2, <1>3, <2>4, <2>5, <3>1, <3>2, GateKept
  <2>8. InPass(h, p, q)'
    BY <1>1, <2>4, <2>5, <2>6, <2>7 DEF InPass
  <2>9. Following'
    <3>1. (\E i, j \in 0..Len(channel) : InPass(h, i, j))'
      BY <2>4, <2>8
    <3> QED
      BY Zenon, <1>1, <1>2, <2>2, <2>4, <2>6, <3>1 DEF Following
  <2>10. CaughtUp'
    BY <1>1, <2>1 DEF CaughtUp
  <2> QED
    BY <2>9, <2>10
<1> QED
  BY <1>3, <1>4, <1>5, InvFrom

LEMMA DrainInv == ASSUME Inv, Drain PROVE Inv'
<1>0. Base /\ Memory
  BY DEF Inv
<1>1. /\ pc = "next" /\ todo = <<>>
      /\ IF slot = 0 THEN UNCHANGED <<db, cursor, faults>> ELSE AdvanceCursor(slot)
      /\ status' = IF db.stall = NoStall THEN "CaughtUp" ELSE status
      /\ pc' = "poll"
      /\ UNCHANGED <<l1, state, gate, todo, slot, verdict>>
  BY DEF Drain
<1>2. /\ StoreOK(db') /\ db'.blocks = db.blocks /\ db'.stall = db.stall
      /\ db'.cursor \in 0..now /\ cursor' \in 0..now
      /\ UNCHANGED faults \/ Fault
      /\ cursor' = IF slot = 0 THEN cursor ELSE slot
      /\ db'.cursor = db.cursor \/ (slot # 0 /\ db'.cursor = slot)
  BY <1>0, <1>1, AdvanceFacts
<1>3. /\ Base' /\ faults \in Nat /\ faults' \in Nat /\ faults <= faults'
      /\ (ParentsFirst /\ (resets = 0 /\ faults < APPLY_RETRY_LIMIT)' => Following /\ CaughtUp)
  BY <1>1, <1>2, BaseKept
<1>4. Memory'
  BY <1>0, <1>1, <1>2 DEF Memory, l1
<1>5. ASSUME ParentsFirst, (resets = 0 /\ faults < APPLY_RETRY_LIMIT)' PROVE Following' /\ CaughtUp'
  <2>1. Following /\ CaughtUp
    BY <1>3, <1>5
  <2>2. PICK h \in 0..Len(channel), p \in 0..Len(channel), q \in 0..Len(channel) :
          /\ db.blocks = ChainAt(channel, h) /\ ReadUpTo(channel, db.cursor) <= h
          /\ InPass(h, p, q)
    BY <1>1, <2>1 DEF Following
  <2>3. p = q /\ (slot # 0 => ReadUpTo(channel, slot) = p)
    BY <1>0, <1>1, <2>2, PassFacts
  <2>4. /\ p <= h /\ h <= q /\ GateOK(h, p) /\ (slot = 0 => ReadUpTo(channel, cursor) = p)
    <3>1. \/ slot = 0 /\ p = ReadUpTo(channel, cursor)
          \/ p > 0 /\ slot = channel[p].slot
          \/ p < q /\ slot = channel[p + 1].slot
      BY <2>2 DEF InPass
    <3>2. p > 0 => channel[p].slot # 0
      <4>1. channel \in Seq(Entry) /\ Len(channel) \in Nat
        BY <1>0, Cursors
      <4>2. p > 0 => p \in 1..Len(channel)
        BY <4>1
      <4> QED
        BY Zenon, <4>1, <4>2, EntryTypes DEF Entry
    <3> QED
      BY <1>1, <2>2, <2>3, <3>1, <3>2 DEF InPass
  <2>5. h = p /\ h \in Nat /\ gate.attempts \in Nat /\ p <= p
    BY <1>0, <2>3, <2>4, Cursors DEF Memory
  <2>6. channel' = channel /\ ReadUpTo(channel', cursor') = p /\ ReadUpTo(channel', db'.cursor) <= h
    BY Zenon, <1>1, <1>2, <2>2, <2>3, <2>4, <2>5 DEF l1
  <2>7. GateOK(h, p)'
    BY Zenon, <1>1, <1>2, <1>3, <2>4, <2>5, <2>6, GateKept
  <2>8. GateOK(h, ReadUpTo(channel, cursor))'
    BY <2>6, <2>7 DEF GateOK
  <2>9. Following'
    BY Zenon, <1>1, <1>2, <2>2, <2>4, <2>5, <2>6, <2>8 DEF Following
  <2>10. CaughtUp'
    BY Zenon, <1>1, <1>2, <2>1, <2>2, <2>5, <2>6 DEF CaughtUp
  <2> QED
    BY <2>9, <2>10
<1> QED
  BY <1>3, <1>4, <1>5, InvFrom
==============================================================================
