------------------------------ MODULE MCWatcher ------------------------------
(***************************************************************************)
(* Small instances of Watcher: a peer chain of three blocks with messages  *)
(* to this zone, to another zone and to the inbox, a rival and blocks that *)
(* do not link, skip ahead, are tampered with or not signed.               *)
(***************************************************************************)
EXTENDS Watcher

P(id, prev, hash, txs) ==
    [id |-> id, prev |-> prev, hash |-> hash, intact |-> TRUE, signed |-> TRUE, txs |-> txs]

P1 == P(1, "0", "1a", <<"plain">>)
P2 == P(2, "1a", "2a", <<"send", "abroad", "send">>)
P3 == P(3, "2a", "3a", <<"inbox", "send">>)
Q2 == P(2, "1a", "2b", <<"send">>)          \* a rival of P2
Z2 == P(2, "0", "2z", <<"send">>)           \* does not link
S3 == P(3, "2b", "3s", <<"send">>)          \* follows the rival
U2 == [Q2 EXCEPT !.hash = "2u", !.signed = FALSE]
T2 == [P2 EXCEPT !.hash = "2t", !.intact = FALSE]

MCPeerBlock == {P1, P2, P3, Q2, Z2, S3, U2, T2}

Blk(b) == BlockItem(b)

MCSlots ==
    {<<Blk(P1)>>, <<Blk(P1), Blk(P2)>>, <<Blk(Z2), Blk(U2), Blk(T2), Blk(P2)>>,
     <<Blk(Q2), Blk(S3)>>, <<OtherItem, Blk(P3)>>, <<Undecodable>>}

\* The last block's delivery fits in no block.
MCHuge(m) == IF m.block_id = 3 THEN 3 ELSE 1

\* Later blocks' keys sort first.
MCBefore(k, l) == k[1] > l[1] \/ (k[1] = l[1] /\ k[2] < l[2])

MCFailing == {Delivery(P2, 3)}

MCFlaky == {Delivery(P2, 1)}
==============================================================================
