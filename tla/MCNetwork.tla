------------------------------ MODULE MCNetwork ------------------------------
(***************************************************************************)
(* Small instances of Network: two nodes, and worlds in which users        *)
(* submit, the L1 deposits, clients read, or a wallet measures.            *)
(***************************************************************************)
EXTENDS Network

\* a0 and a1 are of one signer; b0 takes a whole block, and big fits none.
MCSigner(t) == CASE t \in {"a0", "a1"} -> "a" [] t = "b0" -> "b" [] OTHER -> "c"
MCNonce(t) == IF t = "a1" THEN 1 ELSE 0
MCSize(t) == CASE t = "b0" -> 2 [] t = "big" -> 3 [] OTHER -> 1
MCStateless(t) == t # "forged"
MCSequencerOnly(t) == t = "inbox"
MCMintable(d) == d # "d1"

B1 == NewBlock(Genesis, <<"n1", 2>>, <<"a0">>)
B2 == NewBlock(B1, <<"n1", 3>>, <<"b0">>)
B3 == NewBlock(B2, <<"n2", 4>>, <<>>)

E2 == NewBlock(Genesis, <<"n1", 2>>, <<>>)
E3 == NewBlock(E2, <<"n2", 3>>, <<>>)
E4 == NewBlock(E3, <<"n1", 4>>, <<>>)

Bound(submit, reorg, fault, read, call) ==
    [submit |-> submit, reorg |-> reorg, fault |-> fault, read |-> read, call |-> call]

Quiet ==
    [nodes |-> Node, turns |-> Node, linked |-> TRUE, chain |-> <<Genesis>>, users |-> {}, submits |-> {}, deposits |-> <<>>, receipts |-> {},
     history |-> FALSE, mempool |-> 2, response |-> 2, urls |-> <<>>, answers |-> {}, series |-> {}, bound |-> Bound(0, 0, 0, 0, 0)]

\* Gossip between nodes that connect late, a full mempool and a full block;
\* orphaned blocks and restarts; two transactions of one signer.
Gossiping ==
    [Quiet EXCEPT !.users = {"a0", "b0", "forged", "inbox"}, !.linked = FALSE, !.turns = {"n1"},
        !.submits = {<<"n1", "a0">>, <<"n1", "b0">>, <<"n1", "forged">>, <<"n1", "inbox">>},
        !.bound = Bound(2, 0, 1, 0, 0)]

Racing ==
    [Quiet EXCEPT !.users = {"a0"}, !.submits = {<<"n1", "a0">>, <<"n2", "a0">>},
        !.mempool = 1, !.bound = Bound(2, 0, 0, 0, 0)]

Orphaned ==
    [Quiet EXCEPT !.users = {"a0"}, !.submits = {<<"n1", "a0">>},
        !.mempool = 1, !.bound = Bound(1, 1, 0, 0, 0)]

Isolated ==
    [Quiet EXCEPT !.users = {"a0"}, !.submits = {<<"n1", "a0">>}, !.linked = FALSE,
        !.mempool = 1, !.bound = Bound(1, 0, 1, 0, 0)]

Deferring ==
    [Quiet EXCEPT !.users = {"a0", "a1"}, !.submits = {<<"n1", "a0">>, <<"n1", "a1">>},
        !.nodes = {"n1"}, !.turns = {"n1"}, !.bound = Bound(2, 1, 1, 0, 0)]

\* A transaction that is admitted and fits no block.
Oversized ==
    [Quiet EXCEPT !.users = {"a0", "big"}, !.submits = {<<"n1", "a0">>, <<"n1", "big">>},
        !.nodes = {"n1"}, !.turns = {"n1"}, !.bound = Bound(2, 0, 0, 0, 0)]

Submitting == {Gossiping, Racing, Orphaned, Isolated, Deferring, Oversized}

\* A deposit that cannot be minted in front of one that can: two producers with
\* a reorganisation or a fault, and one with both.
Deposits == [Quiet EXCEPT !.deposits = <<"d1", "d2">>]

Depositing ==
    {[Deposits EXCEPT !.bound = Bound(0, 1, 0, 0, 0)], [Deposits EXCEPT !.bound = Bound(0, 0, 1, 0, 0)],
     [Deposits EXCEPT !.turns = {"n1"}, !.bound = Bound(0, 1, 1, 0, 0)]}

Receipts ==
    {[Quiet EXCEPT !.chain = <<Genesis, B1, B2, B3>>, !.receipts = {"a0"}, !.nodes = {"n1"}, !.turns = {"n1"},
         !.bound = Bound(0, 1, 0, 1, 0)]}

Histories ==
    {[Quiet EXCEPT !.chain = <<Genesis, E2, E3>>, !.history = TRUE, !.response = 1, !.nodes = {"n1"}, !.turns = {"n1"},
         !.bound = Bound(0, 2, 0, 1, 0)],
     [Quiet EXCEPT !.chain = <<Genesis, E2, E3, E4>>, !.history = TRUE,
         !.bound = Bound(0, 1, 0, 1, 0)]}

\* Two sequencers with short histories.
Measuring ==
    {[Quiet EXCEPT !.urls = <<"n1", "n2">>, !.answers = {Failure, 1, 2},
         !.series = {<<Failure, 1>>, <<2, 2>>, <<Failure, Failure>>},
         !.bound = Bound(0, 0, 0, 0, 4)]}

\* Three sequencers that failed once in n answers: after 19 answers each, the rounded
\* average of the three ratios is below the ratio.
FailedOnce(n) == <<Failure>> \o [i \in 1..(n - 1) |-> 1]

Rounding ==
    {[Quiet EXCEPT !.urls = <<"n1", "n2", "n3">>, !.answers = {Failure, 1},
         !.series = {FailedOnce(n)}, !.bound = Bound(0, 0, 0, 0, 3)] : n \in {18, 19}}

MCWorld ==
    Submitting \cup Depositing \cup Receipts \cup Histories \cup Measuring \cup Rounding
==============================================================================
