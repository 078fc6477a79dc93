---------------------------- MODULE IndexerSteps -----------------------------
(***************************************************************************)
(* Handling a message preserves the invariant of the indexer.              *)
(***************************************************************************)
EXTENDS IndexerInvariant

-----------------------------------------------------------------------------
(* A message is handled.                                                   *)

LEMMA HandlingFacts ==
    ASSUME Base, Memory, NEW kind, Handling(kind)
    PROVE  /\ pc = "next" /\ todo # <<>> /\ Head(todo).slot = slot /\ Head(todo).msg.kind = kind
           /\ UNCHANGED <<l1, state, cursor, slot, verdict>>
           /\ slot # 0 /\ state = db.blocks
           /\ kind = "block" => Head(todo).msg.block \in Block
           /\ Tail(todo) \in Seq(Entry) /\ \A k \in 1..Len(Tail(todo)) : Tail(todo)[k].slot <= now
<1>1. /\ pc = "next" /\ todo # <<>> /\ Head(todo).slot = slot /\ Head(todo).msg.kind = kind
      /\ UNCHANGED <<l1, state, cursor, slot, verdict>>
  BY DEF Handling
<1>2. todo \in Seq(Entry) /\ \A k \in 1..Len(todo) : todo[k].slot <= now
  BY DEF Memory
<1>3. Head(todo) = todo[1] /\ 1 \in 1..Len(todo)
  BY <1>1, <1>2, EmptySeq
<1>4. Head(todo).slot # 0 /\ (kind = "block" => Head(todo).msg.block \in Block)
  BY Zenon, <1>1, <1>2, <1>3, EntryTypes DEF Entry
<1>5. /\ Tail(todo) \in Seq(Entry) /\ Len(Tail(todo)) = Len(todo) - 1 /\ Len(todo) \in Nat
      /\ \A k \in 1..Len(Tail(todo)) : Tail(todo)[k] = todo[k + 1]
  BY <1>1, <1>2, HeadTailProperties
<1>6. ASSUME NEW k \in 1..Len(Tail(todo)) PROVE Tail(todo)[k].slot <= now
  <2>1. k + 1 \in 1..Len(todo)
    BY <1>5
  <2> QED
    BY <1>2, <1>5, <2>1
<1> QED
  BY <1>1, <1>4, <1>5, <1>6 DEF Memory

\* Where in the channel the message is.
LEMMA Place ==
    ASSUME Base, Memory, Following, todo # <<>>, pc \in {"next", "clear"}
    PROVE  \E h, p, q \in 0..Len(channel) :
              /\ db.blocks = ChainAt(channel, h) /\ ReadUpTo(channel, db.cursor) <= h
              /\ p <= h /\ h <= q /\ p < q /\ p + 1 \in 1..Len(channel) /\ p + 1 \in 0..Len(channel)
              /\ InPass(h, p, q)
              /\ Head(todo) = channel[p + 1] /\ Tail(todo) = SubSeq(channel, (p + 1) + 1, q)
              /\ ReadUpTo(channel, cursor) <= p /\ Boundary(channel, q)
              /\ pc = "next" => GateOK(h, p)
              /\ pc = "clear" => p < h /\ slot = channel[p + 1].slot
<1>1. PICK h \in 0..Len(channel), p \in 0..Len(channel), q \in 0..Len(channel) :
        /\ db.blocks = ChainAt(channel, h) /\ ReadUpTo(channel, db.cursor) <= h
        /\ InPass(h, p, q)
  BY DEF Following
<1>2. /\ p <= q /\ (todo = <<>> <=> p = q)
      /\ p < q => /\ Head(todo) = channel[p + 1] /\ p + 1 \in 1..Len(channel)
                  /\ Tail(todo) = SubSeq(channel, (p + 1) + 1, q)
  BY <1>1, PassFacts
<1>3. p < q /\ Len(channel) \in Nat
  BY <1>2, Cursors
<1>4. p + 1 \in 0..Len(channel)
  BY <1>2, <1>3
<1>5. /\ p <= h /\ h <= q /\ ReadUpTo(channel, cursor) <= p /\ Boundary(channel, q)
      /\ pc = "next" => GateOK(h, p)
      /\ pc = "clear" => p < h /\ slot = channel[p + 1].slot
  BY <1>1 DEF InPass
<1> QED
  BY <1>1, <1>2, <1>3, <1>4, <1>5

\* On to the next message, over one that adds nothing.
LEMMA ContinueInv ==
    ASSUME Inv, NEW kind, Handling(kind), Continue, UNCHANGED faults \/ Fault,
           StoreOK(db'), db'.blocks = db.blocks, db'.cursor = db.cursor,
           status' = status \/ status' # "CaughtUp",
           ParentsFirst /\ (resets = 0 /\ faults < APPLY_RETRY_LIMIT)' =>
               (kind = "block" => ~Extending(db.blocks, Head(todo).msg.block)),
           \/ gate' = NoGate
           \/ gate' = gate /\ (kind = "block" => ~Failing(db.blocks, Head(todo).msg.block))
    PROVE  Inv'
<1>0. Base /\ Memory
  BY DEF Inv
<1>1. /\ pc = "next" /\ todo # <<>> /\ Head(todo).slot = slot /\ Head(todo).msg.kind = kind
      /\ UNCHANGED <<l1, state, cursor, slot, verdict>>
      /\ slot # 0 /\ state = db.blocks /\ pc' = "next" /\ todo' = Tail(todo)
      /\ Tail(todo) \in Seq(Entry) /\ \A k \in 1..Len(Tail(todo)) : Tail(todo)[k].slot <= now
  BY <1>0, HandlingFacts DEF Continue
<1>2. db'.cursor \in 0..now
  BY <1>0 DEF Base
<1>3. /\ Base' /\ faults \in Nat /\ faults' \in Nat /\ faults <= faults'
      /\ (ParentsFirst /\ (resets = 0 /\ faults < APPLY_RETRY_LIMIT)' => Following /\ CaughtUp)
  BY <1>1, <1>2, BaseKept
<1>4. Memory'
  <2>1. gate'.attempts \in Nat
    BY <1>0 DEF Memory, NoGate
  <2> QED
    BY Zenon, <1>0, <1>1, <2>1 DEF Memory, l1
<1>5. ASSUME ParentsFirst, (resets = 0 /\ faults < APPLY_RETRY_LIMIT)' PROVE Following' /\ CaughtUp'
  <2>1. Following /\ CaughtUp /\ (kind = "block" => ~Extending(db.blocks, Head(todo).msg.block))
    BY <1>3, <1>5
  <2>2. PICK h, p, q \in 0..Len(channel) :
          /\ db.blocks = ChainAt(channel, h) /\ ReadUpTo(channel, db.cursor) <= h
          /\ p <= h /\ h <= q /\ p < q /\ p + 1 \in 1..Len(channel) /\ p + 1 \in 0..Len(channel)
          /\ Head(todo) = channel[p + 1] /\ Tail(todo) = SubSeq(channel, (p + 1) + 1, q)
          /\ ReadUpTo(channel, cursor) <= p /\ Boundary(channel, q)
          /\ GateOK(h, p)
    BY Zenon, <1>0, <1>1, <2>1, Place
  <2>3. channel \in Seq(Entry) /\ Len(channel) \in Nat /\ p \in Nat /\ p + 1 <= Len(channel)
        /\ ReadUpTo(channel, cursor) \in 0..Len(channel) /\ ReadUpTo(channel, db.cursor) \in 0..Len(channel)
    BY SMTT(30), <1>0, <2>2, Cursors
  <2>4. PICK n \in 0..Len(channel) : /\ h <= n /\ p + 1 <= n /\ (n = h \/ n = p + 1)
                                     /\ ChainAt(channel, n) = ChainAt(channel, h)
    <3>1. channel[p + 1].msg.kind = "block" =>
              ~Extending(ChainAt(channel, h), channel[p + 1].msg.block)
      BY Zenon, <1>1, <2>1, <2>2
    <3> QED
      BY Zenon, <2>2, <2>3, <3>1, ReadOver
  <2>5. channel' = channel /\ ReadUpTo(channel', cursor') <= p + 1 /\ ReadUpTo(channel', db'.cursor) <= n
        /\ n <= q /\ p + 1 <= q
    BY SMTT(30), <1>1, <2>2, <2>3, <2>4 DEF l1
  <2>6. GateOK(n, p + 1)'
    <3>1. gate' = gate => GateOK(h, p + 1) \/ gate' = NoGate
      <4>1. ASSUME NEW x \in (p + 1)..h, x # p + 1 PROVE x \in ((p + 1) + 1)..h
        BY SMTT(30), <2>3, <4>1
      <4> QED
        BY Zenon, <1>1, <2>2, <4>1 DEF GateOK
    <3>2. h \in Nat /\ n \in Nat /\ p + 1 \in Nat /\ gate.attempts \in Nat /\ p + 1 <= p + 1
      BY <1>0, <2>3 DEF Memory
    <3>3. (gate' = gate /\ GateOK(h, p + 1)) \/ gate' = NoGate
      BY <3>1, Zenon
    <3> QED
      BY Zenon, <1>3, <2>4, <2>5, <3>2, <3>3, GateKept
  <2>7. InPass(n, p + 1, q)'
    <3>1. p + 1 > 0 /\ slot' = channel'[p + 1].slot
      <4>1. slot' = Head(todo).slot
        BY <1>1
      <4>2. channel'[p + 1] = Head(todo) /\ p + 1 > 0
        BY SMTT(30), <2>2, <2>3, <2>5
      <4> QED
        BY <4>1, <4>2
    <3> QED
      BY <1>1, <2>2, <2>4, <2>5, <2>6, <3>1 DEF InPass
  <2>8. Following'
    <3>1. (\E i, j \in 0..Len(channel) : InPass(n, i, j))'
      BY Zenon, <2>2, <2>5, <2>7
    <3> QED
      BY Zenon, <1>1, <2>2, <2>4, <2>5, <3>1 DEF Following
  <2>9. CaughtUp'
    BY <1>1, <2>1 DEF CaughtUp
  <2> QED
    BY <2>8, <2>9
<1> QED
  BY <1>3, <1>4, <1>5, InvFrom

\* A good block whose execution failed: its streak is within the failures there were.
LEMMA StreakOfGoodBlock ==
    ASSUME Inv, ParentsFirst, Following, Handling("block"),
           Extending(db.blocks, Head(todo).msg.block), faults \in Nat
    PROVE  register_failure(gate, Head(todo).msg.block.id).attempts <= faults + 1
<1>0. Base /\ Memory
  BY DEF Inv
<1>1. pc = "next" /\ todo # <<>> /\ Head(todo).msg.kind = "block"
  BY <1>0, HandlingFacts
<1>2. PICK h, p, q \in 0..Len(channel) :
        /\ db.blocks = ChainAt(channel, h) /\ p <= h /\ p + 1 \in 1..Len(channel)
        /\ Head(todo) = channel[p + 1] /\ GateOK(h, p)
  BY <1>0, <1>1, Place
<1>3. channel \in Seq(Entry) /\ InOrder(channel) /\ Len(channel) \in Nat /\ p \in Nat /\ p + 1 <= Len(channel)
  BY <1>0, <1>2, Cursors DEF Base
<1>4. h = p
  <2>1. channel[p + 1].msg.kind = "block" /\ Extending(ChainAt(channel, h), channel[p + 1].msg.block)
    BY <1>1, <1>2
  <2> QED
    BY <1>2, <1>3, <2>1, ReadOn
<1>5. gate.attempts <= faults /\ gate.attempts \in Nat
  <2>1. (p + 1)..h = {}
    BY <1>3, <1>4
  <2> QED
    BY Zenon, <1>0, <1>2, <2>1 DEF GateOK, Memory
<1> QED
  BY SMTT(30), <1>5 DEF register_failure

\* The pass ends; the slot will be read again.
LEMMA BreakInv ==
    ASSUME Inv, NEW kind, Handling(kind), Break, UNCHANGED db,
           \/ Fault /\ gate' = gate
           \/ /\ kind = "block" /\ (UNCHANGED faults \/ Fault)
              /\ gate' = register_failure(gate, Head(todo).msg.block.id)
              /\ \/ /\ Failing(db.blocks, Head(todo).msg.block)
                    /\ ~Extending(db.blocks, Head(todo).msg.block)
                 \/ Fault /\ Extending(db.blocks, Head(todo).msg.block)
    PROVE  Inv'
<1>0. Base /\ Memory
  BY DEF Inv
<1>1. /\ pc = "next" /\ todo # <<>> /\ Head(todo).msg.kind = kind
      /\ UNCHANGED <<l1, state, cursor, slot, verdict>>
      /\ state = db.blocks /\ pc' = "poll" /\ todo' = <<>> /\ status' = "Error"
  BY <1>0, HandlingFacts DEF Break
<1>2. StoreOK(db) /\ db.cursor \in 0..now
  BY <1>0 DEF Base
<1>3. /\ Base' /\ faults \in Nat /\ faults' \in Nat /\ faults <= faults'
      /\ (ParentsFirst /\ (resets = 0 /\ faults < APPLY_RETRY_LIMIT)' => Following /\ CaughtUp)
  BY <1>1, <1>2, BaseKept
<1>4. Memory'
  <2>1. gate'.attempts \in Nat
    BY <1>0 DEF Memory, register_failure
  <2> QED
    BY SMTT(30), <1>0, <1>1, <2>1 DEF Memory, l1
<1>5. ASSUME ParentsFirst, (resets = 0 /\ faults < APPLY_RETRY_LIMIT)' PROVE Following' /\ CaughtUp'
  <2>1. Following
    BY <1>3, <1>5
  <2>2. PICK h, p, q \in 0..Len(channel) :
          /\ db.blocks = ChainAt(channel, h) /\ ReadUpTo(channel, db.cursor) <= h
          /\ p <= h /\ p + 1 \in 1..Len(channel)
          /\ Head(todo) = channel[p + 1] /\ ReadUpTo(channel, cursor) <= p /\ GateOK(h, p)
    BY Zenon, <1>0, <1>1, <2>1, Place
  <2>3. /\ channel \in Seq(Entry) /\ Len(channel) \in Nat /\ p \in Nat /\ p + 1 <= Len(channel)
        /\ ReadUpTo(channel, cursor) \in 0..Len(channel) /\ ReadUpTo(channel, db.cursor) \in 0..Len(channel)
        /\ channel' = channel
    BY SMTT(30), <1>0, <1>1, <2>2, Cursors DEF l1
  <2>4. PICK r \in 0..Len(channel) : r = ReadUpTo(channel, cursor)
    BY <2>3
  <2>5. SUFFICES \E n \in 0..Len(channel) :
                     h <= n /\ ChainAt(channel, n) = ChainAt(channel, h) /\ GateOK(n, r)'
    <3>1. PICK n \in 0..Len(channel) :
             h <= n /\ ChainAt(channel, n) = ChainAt(channel, h) /\ GateOK(n, r)'
      BY <2>5
    <3>2. GateOK(n, ReadUpTo(channel, cursor))'
      BY Zenon, <1>1, <2>3, <2>4, <3>1 DEF GateOK
    <3>3. ReadUpTo(channel', db'.cursor) <= n /\ ReadUpTo(channel', cursor') <= n
      BY SMTT(30), <1>1, <2>2, <2>3, <3>1
    <3>4. Following'
      BY Zenon, <1>1, <2>2, <2>3, <3>1, <3>2, <3>3 DEF Following
    <3> QED
      BY <1>1, <3>4 DEF CaughtUp
  <2>6. CASE gate' = gate
    <3>1. h \in Nat /\ r \in Nat /\ r <= p /\ h <= h /\ gate.attempts \in Nat
      BY SMTT(30), <1>0, <2>2, <2>3, <2>4 DEF Memory
    <3>2. GateOK(h, r)'
      BY Zenon, <1>3, <2>2, <2>3, <2>6, <3>1, GateKept
    <3> QED
      BY <3>1, <3>2
  <2>7. CASE /\ kind = "block" /\ gate' = register_failure(gate, Head(todo).msg.block.id)
             /\ Failing(db.blocks, Head(todo).msg.block)
             /\ ~Extending(db.blocks, Head(todo).msg.block)
    <3>1. PICK n \in 0..Len(channel) : /\ h <= n /\ p + 1 <= n
                                       /\ ChainAt(channel, n) = ChainAt(channel, h)
      <4>1. ~Extending(ChainAt(channel, h), channel[p + 1].msg.block)
        BY <2>2, <2>7
      <4> QED
        BY Zenon, <2>2, <2>3, <4>1, ReadOver
    <3>2. p + 1 \in (r + 1)..n
      BY SMTT(30), <2>2, <2>3, <2>4, <3>1
    <3>3. /\ channel'[p + 1].msg.kind = "block" /\ channel'[p + 1].msg.block.id = gate'.id
          /\ Failing(db'.blocks, channel'[p + 1].msg.block)
      BY Zenon, <1>1, <2>2, <2>3, <2>7 DEF register_failure
    <3>4. GateOK(n, r)'
      BY <3>2, <3>3 DEF GateOK
    <3> QED
      BY <3>1, <3>4
  <2>8. CASE /\ kind = "block" /\ gate' = register_failure(gate, Head(todo).msg.block.id)
             /\ Fault /\ Extending(db.blocks, Head(todo).msg.block)
    <3>1. gate'.attempts <= faults'
      BY Zenon, <1>3, <1>5, <2>1, <2>8, StreakOfGoodBlock DEF Fault
    <3>2. GateOK(h, r)' /\ h <= h
      BY SMTT(30), <2>3, <3>1 DEF GateOK
    <3> QED
      BY <3>2
  <2> QED
    BY <2>6, <2>7, <2>8
<1> QED
  BY <1>3, <1>4, <1>5, InvFrom

\* A block was stored; the rest of the step follows.
LEMMA StoredInv ==
    ASSUME Inv, Handling("block"), Extending(db.blocks, Head(todo).msg.block),
           db' = put_block(db, Head(todo).msg.block, slot, Append(db.blocks, Head(todo).msg.block)),
           pc' = "clear", UNCHANGED <<gate, todo, status, faults>>
    PROVE  Inv'
<1> DEFINE b == Head(todo).msg.block
<1>0. Base /\ Memory
  BY DEF Inv
<1>1. /\ pc = "next" /\ todo # <<>> /\ Head(todo).slot = slot /\ Head(todo).msg.kind = "block"
      /\ UNCHANGED <<l1, state, cursor, slot, verdict>> /\ b \in Block
      /\ slot # 0 /\ state = db.blocks
  BY <1>0, HandlingFacts
<1>2. StoreOK(db) /\ db.cursor \in 0..now /\ db.blocks \in Seq(Block)
  BY <1>0 DEF Base, StoreOK, IsChain
<1>3. StoreOK(db') /\ db'.blocks = Append(db.blocks, b) /\ db'.cursor = db.cursor
  BY Zenon, <1>1, <1>2, PutBlockOK
<1> HIDE DEF b
<1>4. /\ Base' /\ faults \in Nat
      /\ (ParentsFirst /\ (resets = 0 /\ faults < APPLY_RETRY_LIMIT)' => Following /\ CaughtUp)
  BY Zenon, <1>1, <1>2, <1>3, BaseKept
<1>5. Memory'
  <2>1. state' \in Seq(Block) /\ db'.blocks = Append(state', Head(todo').msg.block)
    BY Zenon, <1>1, <1>2, <1>3 DEF b
  <2> QED
    BY Zenon, <1>0, <1>1, <2>1 DEF Memory, l1
<1>6. ASSUME ParentsFirst, (resets = 0 /\ faults < APPLY_RETRY_LIMIT)' PROVE Following' /\ CaughtUp'
  <2>1. Following /\ CaughtUp
    BY <1>4, <1>6
  <2>2. PICK h, p, q \in 0..Len(channel) :
          /\ db.blocks = ChainAt(channel, h) /\ ReadUpTo(channel, db.cursor) <= h
          /\ p <= h /\ h <= q /\ p < q /\ p + 1 \in 1..Len(channel) /\ p + 1 \in 0..Len(channel)
          /\ InPass(h, p, q) /\ Head(todo) = channel[p + 1]
    BY Zenon, <1>0, <1>1, <2>1, Place
  <2>3. /\ channel \in Seq(Entry) /\ InOrder(channel) /\ Len(channel) \in Nat /\ p \in Nat
        /\ p + 1 <= Len(channel) /\ ReadUpTo(channel, db.cursor) \in 0..Len(channel)
    BY SMTT(30), <1>0, <1>6, <2>2, Cursors DEF Base
  <2>4. h = p /\ ChainAt(channel, p + 1) = Append(db.blocks, b)
    <3>1. /\ channel[p + 1].msg.kind = "block" /\ channel[p + 1].msg.block = b
          /\ Extending(ChainAt(channel, h), channel[p + 1].msg.block)
      BY <1>1, <2>2 DEF b
    <3> QED
      BY SMTT(30), <2>2, <2>3, <3>1, ReadOn
  <2>5. PICK n \in 0..Len(channel) : n = p + 1
    BY <2>2
  <2>6. channel' = channel /\ p < n /\ p <= n /\ n <= q /\ ReadUpTo(channel', db'.cursor) <= n
    <3>1. channel' = channel /\ ReadUpTo(channel', db'.cursor) = ReadUpTo(channel, db.cursor)
      BY Zenon, <1>1, <1>3 DEF l1
    <3>2. p < n /\ p <= n /\ n <= q /\ ReadUpTo(channel, db.cursor) <= n
      BY SMTT(30), <2>2, <2>3, <2>4, <2>5
    <3> QED
      BY Zenon, <3>1, <3>2
  <2>7. InPass(n, p, q)'
    <3>1. slot' = channel'[p + 1].slot
      BY Zenon, <1>1, <2>2, <2>6
    <3>2. todo = SubSeq(channel, p + 1, q) /\ Boundary(channel, q) /\ ReadUpTo(channel, cursor) <= p
      BY <2>2 DEF InPass
    <3> QED
      BY Zenon, <1>1, <2>2, <2>6, <3>1, <3>2 DEF InPass
  <2>8. Following'
    <3>1. (\E i, j \in 0..Len(channel) : InPass(n, i, j))'
      BY Zenon, <2>2, <2>6, <2>7
    <3>2. db'.blocks = ChainAt(channel', n)
      BY Zenon, <1>3, <2>4, <2>5, <2>6
    <3> QED
      BY <2>6, <3>1, <3>2 DEF Following
  <2>9. CaughtUp'
    BY <1>1, <2>1 DEF CaughtUp
  <2> QED
    BY <2>8, <2>9
<1> QED
  BY <1>4, <1>5, <1>6, InvFrom

LEMMA HaltOnForgedInv == ASSUME Inv, HaltOnForged PROVE Inv'
<1>0. Base /\ Memory
  BY DEF Inv
<1>1. /\ Handling("block") /\ status' = "Error" /\ pc' = "halted" /\ todo' = <<>>
      /\ UNCHANGED <<db, gate, faults>>
  BY DEF HaltOnForged
<1>2. UNCHANGED <<l1, state, cursor, slot, verdict>>
  BY <1>1 DEF Handling
<1>3. StoreOK(db') /\ db'.cursor \in 0..now
  BY <1>0, <1>1 DEF Base
<1>4. /\ Base'
      /\ (ParentsFirst /\ (resets = 0 /\ faults < APPLY_RETRY_LIMIT)' => Following /\ CaughtUp)
  BY <1>1, <1>2, <1>3, BaseKept
<1>5. Memory'
  BY <1>0, <1>1, <1>2 DEF Memory, l1
<1>6. ASSUME ParentsFirst, (resets = 0 /\ faults < APPLY_RETRY_LIMIT)' PROVE Following' /\ CaughtUp'
  <2>1. Following
    BY <1>4, <1>6
  <2> QED
    BY <1>1, <1>2, <2>1 DEF Following, CaughtUp, l1
<1> QED
  BY <1>4, <1>5, <1>6, InvFrom

LEMMA AcceptBlockInv == ASSUME Inv, NEW flaky \in BOOLEAN, AcceptBlock(flaky) PROVE Inv'
<1> DEFINE b == Head(todo).msg.block
           r == accept_block(db, state, b, slot, flaky)
           g == register_failure(gate, b.id)
<1>0. Base /\ Memory
  BY DEF Inv
<1>1. /\ Handling("block")
      /\ IF flaky THEN r.outcome = "RetryableFailure" /\ Fault ELSE UNCHANGED faults
      /\ CASE r.outcome = "Applied" ->
                /\ db' = r.db /\ pc' = "clear"
                /\ UNCHANGED <<gate, todo, status>>
           [] r.outcome = "AlreadyApplied" ->
                Continue /\ UNCHANGED <<db, gate, status>>
           [] r.outcome = "Parked" ->
                db' = r.db /\ status' = "Stalled" /\ Continue /\ UNCHANGED gate
           [] r.outcome = "RetryableFailure" ->
                IF g.attempts >= APPLY_RETRY_LIMIT
                THEN /\ db' = record_stall(db, TipOf(b), slot)
                     /\ status' = "Stalled" /\ gate' = NoGate /\ Continue
                ELSE gate' = g /\ Break /\ UNCHANGED db
  BY Zenon DEF AcceptBlock
<1>2. b \in Block /\ state = db.blocks
  BY <1>0, <1>1, HandlingFacts
<1>3. StoreOK(db) /\ db.cursor \in 0..now
  BY <1>0 DEF Base
<1>4. UNCHANGED faults \/ Fault
  BY <1>1, Zenon
<1>5. \/ /\ r.outcome = "Applied" /\ ~flaky /\ Extending(db.blocks, b)
         /\ r.db = put_block(db, b, slot, Append(db.blocks, b))
      \/ r.outcome = "AlreadyApplied" /\ ~Extending(db.blocks, b) /\ ~Failing(db.blocks, b)
      \/ /\ r.outcome = "Parked" /\ ~Extending(db.blocks, b) /\ ~Failing(db.blocks, b)
         /\ r.db = record_stall(db, TipOf(b), slot)
      \/ /\ r.outcome = "RetryableFailure"
         /\ \/ Failing(db.blocks, b) /\ ~Extending(db.blocks, b)
            \/ flaky /\ Extending(db.blocks, b)
  <2>1. r = accept_block(db, db.blocks, b, slot, flaky)
    BY <1>2
  <2> HIDE DEF r, b
  <2> QED
    BY <1>2, <1>3, <2>1, Outcomes, Zenon
<1>6. \A x, y : LET e == record_stall(db, x, y)
                IN  StoreOK(e) /\ e.blocks = db.blocks /\ e.cursor = db.cursor
  BY <1>3, OtherWritesOK, Zenon
<1> HIDE DEF r, g
<1>7. CASE r.outcome = "Applied"
  <2>1. /\ ~flaky /\ Extending(db.blocks, b) /\ r.db = put_block(db, b, slot, Append(db.blocks, b))
    BY <1>5, <1>7
  <2>2. db' = r.db /\ pc' = "clear" /\ UNCHANGED <<gate, todo, status, faults>>
    BY <1>1, <1>7, <2>1
  <2> QED
    BY Zenon, <1>1, <2>1, <2>2, StoredInv
<1>8. CASE r.outcome = "AlreadyApplied"
  <2>1. ~Extending(db.blocks, b) /\ ~Failing(db.blocks, b)
    BY <1>5, <1>8
  <2>2. Continue /\ UNCHANGED <<db, gate, status>>
    BY Zenon, <1>1, <1>8
  <2> QED
    BY Zenon, <1>1, <1>3, <1>4, <2>1, <2>2, ContinueInv
<1>9. CASE r.outcome = "Parked"
  <2>1. /\ ~Extending(db.blocks, b) /\ ~Failing(db.blocks, b)
        /\ r.db = record_stall(db, TipOf(b), slot)
    BY <1>5, <1>9
  <2>2. db' = r.db /\ status' = "Stalled" /\ Continue /\ UNCHANGED gate
    BY <1>1, <1>9
  <2>3. StoreOK(db') /\ db'.blocks = db.blocks /\ db'.cursor = db.cursor
    BY <1>6, <2>1, <2>2
  <2> QED
    BY <1>1, <1>4, <2>1, <2>2, <2>3, ContinueInv
<1>10. CASE r.outcome = "RetryableFailure" /\ g.attempts >= APPLY_RETRY_LIMIT
  <2>1. /\ db' = record_stall(db, TipOf(b), slot)
        /\ status' = "Stalled" /\ gate' = NoGate /\ Continue
    BY <1>1, <1>10
  <2>2. StoreOK(db') /\ db'.blocks = db.blocks /\ db'.cursor = db.cursor
    BY <1>6, <2>1
  <2>3. ASSUME ParentsFirst, (resets = 0 /\ faults < APPLY_RETRY_LIMIT)', Extending(db.blocks, b)
        PROVE  FALSE
    <3>1. flaky /\ Fault
      BY <1>1, <1>5, <1>10, <2>3
    <3>2. /\ faults \in Nat /\ Following
      <4>1. db'.cursor \in 0..now /\ UNCHANGED l1
        BY Zenon, <1>1, <1>3, <2>2 DEF Handling
      <4> QED
        BY <1>4, <2>2, <2>3, <4>1, BaseKept
    <3>3. g.attempts <= faults + 1
      BY <1>1, <2>3, <3>2, StreakOfGoodBlock DEF g
    <3>4. gate.attempts \in Nat /\ g.attempts \in Nat
      BY <1>0 DEF Memory, g, register_failure
    <3> QED
      BY SMTT(30), <1>10, <2>3, <3>1, <3>2, <3>3, <3>4, LimitAssumption DEF Fault
  <2> QED
    BY Zenon, <1>1, <1>4, <2>1, <2>2, <2>3, ContinueInv
<1>11. CASE r.outcome = "RetryableFailure" /\ ~(g.attempts >= APPLY_RETRY_LIMIT)
  <2>1. gate' = g /\ Break /\ UNCHANGED db
    BY <1>1, <1>11
  <2>2. \/ Failing(db.blocks, b) /\ ~Extending(db.blocks, b)
        \/ Fault /\ Extending(db.blocks, b)
    BY <1>1, <1>5, <1>11
  <2> QED
    BY <1>1, <1>4, <2>1, <2>2, BreakInv DEF g
<1> QED
  BY <1>5, <1>7, <1>8, <1>9, <1>10, <1>11

LEMMA StallFailsInv == ASSUME Inv, StallFails PROVE Inv'
<1> DEFINE b == Head(todo).msg.block
           r == accept_block(db, state, b, slot, FALSE)
<1>0. Base /\ Memory
  BY DEF Inv
<1>1. /\ Handling("block") /\ r.outcome = "RetryableFailure"
      /\ gate' = register_failure(gate, b.id) /\ Break /\ Fault /\ UNCHANGED db
  BY Zenon DEF StallFails
<1>2. b \in Block /\ state = db.blocks /\ StoreOK(db)
  BY Zenon, <1>0, <1>1, HandlingFacts DEF Base
<1>3. Failing(db.blocks, b) /\ ~Extending(db.blocks, b)
  BY Zenon, <1>1, <1>2, Outcomes
<1> QED
  BY <1>1, <1>3, BreakInv

LEMMA AppliedInv == ASSUME Inv, Applied PROVE Inv'
<1>0. Base /\ Memory
  BY DEF Inv
<1>1. /\ pc = "clear" /\ state' = Append(state, Head(todo).msg.block)
      /\ db' = clear_stall_if_present(db) \/ db' = db
      /\ UNCHANGED faults \/ Fault
      /\ gate' = NoGate /\ status' = "Syncing" /\ todo' = Tail(todo) /\ pc' = "next"
      /\ UNCHANGED <<l1, cursor, slot, verdict>>
  BY DEF Applied
<1>2. /\ StoreOK(db) /\ db.cursor \in 0..now
      /\ todo # <<>> /\ todo \in Seq(Entry) /\ (\A k \in 1..Len(todo) : todo[k].slot <= now)
      /\ db.blocks = Append(state, Head(todo).msg.block)
  BY <1>0, <1>1 DEF Base, Memory
<1>3. StoreOK(db') /\ db'.blocks = db.blocks /\ db'.cursor = db.cursor
  BY <1>1, <1>2, OtherWritesOK
<1>4. /\ Base' /\ faults' \in Nat
      /\ (ParentsFirst /\ (resets = 0 /\ faults < APPLY_RETRY_LIMIT)' => Following /\ CaughtUp)
  BY <1>1, <1>2, <1>3, BaseKept
<1>5. Memory'
  <2>1. Tail(todo) \in Seq(Entry) /\ \A k \in 1..Len(Tail(todo)) : Tail(todo)[k].slot <= now
    <3>1. /\ Tail(todo) \in Seq(Entry) /\ Len(Tail(todo)) = Len(todo) - 1 /\ Len(todo) \in Nat
          /\ \A k \in 1..Len(Tail(todo)) : Tail(todo)[k] = todo[k + 1]
      BY <1>2, HeadTailProperties
    <3>2. ASSUME NEW k \in 1..Len(Tail(todo)) PROVE Tail(todo)[k].slot <= now
      <4>1. k + 1 \in 1..Len(todo)
        BY <3>1
      <4> QED
        BY <1>2, <3>1, <4>1
    <3> QED
      BY <3>1, <3>2
  <2> QED
    BY <1>0, <1>1, <1>2, <1>3, <2>1 DEF Memory, NoGate, l1
<1>6. ASSUME ParentsFirst, (resets = 0 /\ faults < APPLY_RETRY_LIMIT)' PROVE Following' /\ CaughtUp'
  <2>1. PICK h, p, q \in 0..Len(channel) :
          /\ db.blocks = ChainAt(channel, h) /\ ReadUpTo(channel, db.cursor) <= h
          /\ h <= q /\ p < q /\ p + 1 \in 1..Len(channel) /\ p + 1 \in 0..Len(channel)
          /\ Tail(todo) = SubSeq(channel, (p + 1) + 1, q)
          /\ ReadUpTo(channel, cursor) <= p /\ Boundary(channel, q)
          /\ p < h /\ slot = channel[p + 1].slot
    BY Zenon, <1>0, <1>1, <1>2, <1>4, <1>6, Place
  <2>2. /\ Len(channel) \in Nat /\ ReadUpTo(channel, cursor) \in 0..Len(channel)
    BY <1>0, Cursors
  <2>3. channel' = channel /\ p + 1 > 0 /\ p + 1 <= h /\ ReadUpTo(channel', cursor') <= p + 1
    BY <1>1, <2>1, <2>2 DEF l1
  <2>4. GateOK(h, p + 1)'
    BY <1>1, <1>4 DEF GateOK, NoGate
  <2>5. InPass(h, p + 1, q)'
    BY Zenon, <1>1, <2>1, <2>3, <2>4 DEF InPass
  <2>6. Following'
    <3>1. (\E i, j \in 0..Len(channel) : InPass(h, i, j))'
      BY <2>1, <2>3, <2>5
    <3> QED
      BY <1>1, <1>3, <2>1, <2>3, <3>1 DEF Following
  <2> QED
    BY <1>1, <2>6 DEF CaughtUp
<1> QED
  BY <1>4, <1>5, <1>6, InvFrom

LEMMA NextInv == ASSUME Inv, [Next]_vars PROVE Inv'
<1>1. ASSUME NEW messages \in world.slots[resets + 1], FinalizeSlot(messages) PROVE Inv'
  BY <1>1, FinalizeSlotInv
<1>2. CASE Reset
  BY <1>2, ResetInv
<1>3. CASE Start
  BY <1>3, StartInv
<1>4. CASE Check
  <2>1. PICK v : pc = "check" /\ Judge(v) /\ UNCHANGED faults
    BY <1>4, Zenon DEF Check
  <2> QED
    BY <2>1, JudgeInv
<1>5. CASE CheckFails
  BY Zenon, <1>5, JudgeInv DEF CheckFails
<1>6. CASE Poll
  BY <1>6, PollInv
<1>7. CASE PollFails
  BY <1>7, PollFailsInv
<1>8. CASE EnterSlot
  BY <1>8, EnterSlotInv
<1>9. CASE Drain
  BY <1>9, DrainInv
<1>10. CASE SkipOther
  <2>1. Handling("other") /\ Continue /\ UNCHANGED <<db, gate, status, faults>>
    BY <1>10 DEF SkipOther
  <2>2. StoreOK(db') /\ db'.blocks = db.blocks /\ db'.cursor = db.cursor
    BY <2>1 DEF Inv, Base
  <2> QED
    BY <2>1, <2>2, ContinueInv
<1>11. CASE ParkGarbage
  <2>1. /\ Handling("garbage") /\ db' = record_stall(db, NoHeader, slot) /\ status' = "Stalled"
        /\ Continue /\ UNCHANGED <<gate, faults>>
    BY <1>11 DEF ParkGarbage
  <2>2. StoreOK(db') /\ db'.blocks = db.blocks /\ db'.cursor = db.cursor
    BY SMTT(30), <2>1, OtherWritesOK DEF Inv, Base
  <2> QED
    BY <2>1, <2>2, ContinueInv
<1>12. CASE StoreFails
  <2>1. PICK kind : Handling(kind) /\ Break /\ Fault /\ UNCHANGED <<db, gate>>
    BY <1>12 DEF StoreFails
  <2> QED
    BY <2>1, BreakInv
<1>13. CASE PeerUnavailable
  <2>1. Handling("block") /\ Break /\ Fault /\ UNCHANGED <<db, gate>>
    BY <1>13 DEF PeerUnavailable
  <2> QED
    BY <2>1, BreakInv
<1>14. CASE HaltOnForged
  BY <1>14, HaltOnForgedInv
<1>15. ASSUME NEW flaky \in BOOLEAN, AcceptBlock(flaky) PROVE Inv'
  BY Zenon, <1>15, AcceptBlockInv
<1>16. CASE StallFails
  BY <1>16, StallFailsInv
<1>17. CASE Applied
  BY <1>17, AppliedInv
<1>18. CASE Crash
  BY <1>18, CrashInv
<1>19. CASE UNCHANGED vars
  <2>1. /\ world' = world /\ channel' = channel /\ now' = now /\ resets' = resets /\ db' = db
        /\ state' = state /\ cursor' = cursor /\ gate' = gate /\ todo' = todo /\ slot' = slot
        /\ status' = status /\ pc' = pc /\ faults' = faults
    BY <1>19 DEF vars, l1, memory
  <2>2. Base' /\ Memory'
    BY <2>1 DEF Inv, Base, Memory
  <2>3. CaughtUp' <=> CaughtUp
    BY <2>1 DEF CaughtUp
  <2>4. ASSUME Following PROVE Following'
    <3>1. PICK h \in 0..Len(channel) :
            /\ db.blocks = ChainAt(channel, h)
            /\ ReadUpTo(channel, db.cursor) <= h
            /\ pc = "check" => cursor = db.cursor /\ gate = NoGate
            /\ pc = "poll" => /\ ReadUpTo(channel, cursor) <= h
                              /\ GateOK(h, ReadUpTo(channel, cursor))
            /\ pc \in {"next", "clear"} => \E p, q \in 0..Len(channel) : InPass(h, p, q)
      BY <2>4, Zenon DEF Following
    <3>2. ASSUME NEW p PROVE GateOK(h, p)' = GateOK(h, p)
      BY <2>1 DEF GateOK
    <3>3. ASSUME NEW p \in 0..Len(channel), NEW q \in 0..Len(channel), InPass(h, p, q)
          PROVE  InPass(h, p, q)'
      BY <2>1, <3>2, <3>3, Zenon DEF InPass
    <3>4. pc \in {"next", "clear"} => \E p, q \in 0..Len(channel') : InPass(h, p, q)'
      BY <2>1, <3>1, <3>3, Zenon
    <3>5. GateOK(h, ReadUpTo(channel, cursor))' = GateOK(h, ReadUpTo(channel, cursor))
      BY <2>1 DEF GateOK
    <3> QED
      BY <2>1, <3>1, <3>4, <3>5 DEF Following
  <2> QED
    BY <2>1, <2>2, <2>3, <2>4 DEF Inv, Follows
<1> QED
  BY Zenon, <1>1, <1>2, <1>3, <1>4, <1>5, <1>6, <1>7, <1>8, <1>9, <1>10, <1>11, <1>12, <1>13, <1>14,
     <1>15, <1>16, <1>17, <1>18, <1>19 DEF Next, Ingest, Fail
==============================================================================
