------------------------------ MODULE MCIndexer ------------------------------
(***************************************************************************)
(* Small instances of Indexer: a chain of four blocks, a rival at height   *)
(* 2, another genesis, blocks that do not execute, one with a forged       *)
(* dispatch, undecodable inscriptions, deposits and re-inscriptions, alone *)
(* or sharing a slot.                                                      *)
(***************************************************************************)
EXTENDS Indexer

B(id, prev, hash) ==
    [id |-> id, prev |-> prev, hash |-> hash, intact |-> TRUE, body |-> "ok"]

G  == B(1, "0", "1a")
H  == B(1, "0", "1b")       \* the genesis of another chain
A2 == B(2, "1a", "2a")
R2 == B(2, "1a", "2b")
X2 == B(2, "1a", "2x")      \* does not execute
Z2 == B(2, "0", "2z")       \* does not link
A3 == B(3, "2a", "3a")      \* carries a dispatch
F3 == B(3, "2a", "3f")      \* carries a forged one
A4 == B(4, "3a", "4a")

MCBlock == {G, H, A2, R2, X2, Z2, A3, F3, A4}

MCHash == {b.hash : b \in MCBlock} \cup {"0"}

MCExecutes(st, b) == b.hash # "2x"

MCDispatching == {A3, F3}

MCForged == {F3}

\* One transaction of each block is its own, the other is shared with the next.
MCTxsOf(b) == <<"tx " \o b.hash, IF b.id <= 2 THEN "clock 1" ELSE "clock 2">>

MCAffectedBy(tx) == IF tx \in {"clock 1", "clock 2"} THEN {"clock"} ELSE {"alice", "clock"}

Blk(b) == BlockMsg(b)

MCSlots ==
    {<<Blk(G)>>, <<Blk(G), Blk(A2)>>, <<Blk(X2), Blk(A2)>>, <<Garbage, Blk(R2)>>, <<Other>>,
     <<Blk(A3), Blk(A4)>>, <<Blk(Z2), Blk(A2), Blk(A3)>>, <<Blk(F3)>>}

\* Honest slots, of an L1 that is wiped.  The next one carries the same chain or
\* starts with another genesis.
MCHonestSlots == {<<Blk(G)>>, <<Blk(G), Blk(A2)>>, <<Blk(R2)>>, <<Blk(A3)>>, <<Garbage>>, <<Other>>}

MCNextSlots == MCHonestSlots \cup {<<Blk(H)>>}

MCWorld ==
    {[slots |-> <<MCSlots>>, resets |-> 0, allow_chain_reset |-> FALSE, max_slots |-> 3, max_faults |-> 2],
     [slots |-> <<MCHonestSlots, MCNextSlots>>, resets |-> 1, allow_chain_reset |-> TRUE, max_slots |-> 3,
      max_faults |-> 1]}
==============================================================================
