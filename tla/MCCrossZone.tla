----------------------------- MODULE MCCrossZone -----------------------------
(***************************************************************************)
(* Small instances of CrossZone: a peer chain of two blocks after genesis, *)
(* a rival, a block that does not link, an early block, and claims that    *)
(* name the rival, a message to another zone and a block that does not     *)
(* exist.                                                                  *)
(***************************************************************************)
EXTENDS CrossZone

P(id, prev, hash, txs) ==
    [id |-> id, prev |-> prev, hash |-> hash, intact |-> TRUE, signed |-> TRUE, txs |-> txs]

P1 == P(1, "0", "1a", <<"plain">>)
P2 == P(2, "1a", "2a", <<"send", "abroad">>)
Q2 == P(2, "1a", "2b", <<"send">>)          \* a rival of P2
Z2 == P(2, "0", "2z", <<"send">>)           \* does not link
P3 == P(3, "2a", "3a", <<"send">>)
U3 == [P3 EXCEPT !.hash = "3u", !.signed = FALSE]

MCPeerBlock == {P1, P2, Q2, Z2, P3, U3}

Blk(b) == BlockItem(b)

MCSlots == {<<Blk(P1), Blk(Z2), Blk(P2)>>, <<OtherItem, Blk(Q2), Blk(U3), Blk(P3)>>, <<Undecodable>>}

MCClaimed == {Delivery(Q2, 1), Delivery(P2, 2), [block_id |-> 3, block_hash |-> "none", tx_index |-> 1]}

MCSize(m) == 1

MCBefore(k, l) == k[1] > l[1] \/ (k[1] = l[1] /\ k[2] < l[2])
==============================================================================
