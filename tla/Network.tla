------------------------------- MODULE Network -------------------------------
(***************************************************************************)
(* Sequencers of one zone with what surrounds them: users who submit       *)
(* transactions over RPC, gossip between the nodes, deposits of the L1,    *)
(* blocks that are published, orphaned and finalized, clients that read    *)
(* receipts and history while the head moves, and a wallet that measures   *)
(* the sequencers.                                                         *)
(*                                                                         *)
(* A node's executor is an actor: it answers asks one by one, and none     *)
(* while a production turn is under way.  The follow path and the gossip   *)
(* task run beside it.  The channel is external: `canon` is its lineage,   *)
(* of which the first `final` blocks are irreversible; blocks of a third   *)
(* sequencer can replace the rest.  Publication, its record and the        *)
(* recovery of a restarted node are one step each here; Sequencer has      *)
(* their parts.                                                            *)
(***************************************************************************)
EXTENDS Integers, FiniteSets, SequencesExt, Production

-----------------------------------------------------------------------------
(***************************************************************************)
(* The wallet's client for several sequencers: counts of how each one      *)
(* answers, the choice of leaders from them, and the calls that go to the  *)
(* leaders in order.                                                       *)
(*                                                                         *)
(* An answer is Failure or the height it reports.  Latencies are left out: *)
(* the code sorts the reliable clients by them, and here any order may     *)
(* come of it, those of a variance that is rounded or not a number too.    *)
(*                                                                         *)
(* Error ratios are f32 in the code, and clients are kept or sorted out by *)
(* comparing them, so their rounding is modelled: a value is a multiple    *)
(* of 2^-29, which is exact for up to three clients of up to 21 answers.   *)
(***************************************************************************)

CONSTANTS
    Failure,                \* a request that failed
    distribution_limit

-----------------------------------------------------------------------------
\* Numbers with 24 significant bits, in units of 2^-29.

\* n / d to the nearest integer, a tie to the even one.
Nearest(n, d) ==
    LET q == n \div d
        twice == 2 * (n % d)
    IN  IF twice > d \/ (twice = d /\ q % 2 = 1) THEN q + 1 ELSE q

\* n / d for numerals n <= d.
Quotient(n, d) ==
    LET j == Min({i \in 0..6 : n * 2^i >= d})
    IN  IF n = 0 THEN 0 ELSE Nearest(n * 2^(23 + j), d) * 2^(6 - j)

\* s / n for a value s and a numeral n.
Rounded(s, n) ==
    LET i == Min({k \in 0..7 : (s \div n) \div 2^24 < 2^k})
    IN  Nearest(s, n * 2^i) * 2^i

-----------------------------------------------------------------------------
\* Statistics.

Succeeded(updates) == SelectSeq(updates, LAMBDA u : u # Failure)

NumSucceeded(updates) == Len(Succeeded(updates))
NumFailed(updates) == Len(updates) - NumSucceeded(updates)

\* CumulativeUpdates and what apply_updates makes of them.  The latest block
\* id is the highest of this batch, whatever it was before.
apply_updates(s, updates) ==
    [sample_size |-> s.sample_size + NumSucceeded(updates),
     latest_block_id |-> IF Succeeded(updates) = <<>> THEN s.latest_block_id
                         ELSE Max(ToSet(Succeeded(updates))),
     errors |-> s.errors + NumFailed(updates)]

\* A first series of requests; a client that fails all of them has no
\* statistics.  The latest block id is that of the last answer.
Calibrates(answers) == Succeeded(answers) # <<>>

calibrate_client(answers) ==
    [sample_size |-> NumSucceeded(answers), latest_block_id |-> Last(Succeeded(answers)),
     errors |-> NumFailed(answers)]

error_ratio(s) == Quotient(s.errors, s.errors + s.sample_size)

-----------------------------------------------------------------------------
\* Leaders, out of the clients in the order of the configuration.

\* Clients at the highest block id that any of them reported.
UpToDate(urls, stats) ==
    SelectSeq(urls, LAMBDA u : u \in DOMAIN stats
        /\ \A v \in DOMAIN stats : stats[v].latest_block_id <= stats[u].latest_block_id)

avg_err_ratio(urls, stats) ==
    Rounded(FoldLeft(LAMBDA acc, u : Rounded(acc + error_ratio(stats[u]), 1), 0, urls), Len(urls))

\* Those whose error ratio is not above the average.
Reliable(urls, stats) ==
    {u \in ToSet(urls) : error_ratio(stats[u]) <= avg_err_ratio(urls, stats)}

Taken(urls) == SubSeq(urls, 1, IF Len(urls) < distribution_limit THEN Len(urls) ELSE distribution_limit)

\* Every list it may return; none without statistics.
choose_leaders(urls, stats) ==
    IF UpToDate(urls, stats) = <<>> THEN {}
    ELSE {Taken(l) : l \in SetToSeqs(Reliable(UpToDate(urls, stats), stats))}

\* Mutant: an empty list of leaders is taken.
Mutsetup(urls, stats) == choose_leaders(urls, stats)

\* It fails when all clients were sorted out.
setup(urls, stats) == choose_leaders(urls, stats) \ {<<>>}

\* Known clients are asked once, unknown ones are calibrated; `answers` holds
\* a list of answers for each.
SetupStatistics(stats, answers) ==
    LET known == DOMAIN stats
        new == {u \in DOMAIN answers \ known : Calibrates(answers[u])}
    IN  [u \in known \cup new |->
            IF u \in known THEN apply_updates(stats[u], answers[u]) ELSE calibrate_client(answers[u])]

-----------------------------------------------------------------------------
\* Calls.

\* The leaders that metered_get asks: up to the first that answers.
Asked(leaders, responds) ==
    LET firsts == {i \in 1..Len(leaders) : responds[leaders[i]]}
    IN  IF firsts = {} THEN leaders ELSE SubSeq(leaders, 1, Min(firsts))

\* What a call adds to the log: the answer of every leader it asked.
Logged(log, urls, answer) ==
    [u \in DOMAIN log |-> IF u \in ToSet(urls) THEN Append(log[u], answer[u]) ELSE log[u]]

\* Applies the log to the statistics.
update_statistics(stats, log) ==
    [u \in DOMAIN stats |-> IF log[u] = <<>> THEN stats[u] ELSE apply_updates(stats[u], log[u])]

EmptyLog(urls) == [u \in ToSet(urls) |-> <<>>]

-----------------------------------------------------------------------------

CONSTANTS
    Node,
    World                   \* configurations, one of which Init chooses

VARIABLES
    world,      \* the configuration: what users, the L1 and faults may do
    canon,      \* lineage of the channel
    final,      \* how much of it is irreversible
    node,       \* per node: head, final height, store, mempool, production turn
    gossip,     \* per node: the drive task of the gossip network
    wire,       \* messages under way between nodes: <<receiver, transaction>>
    link,       \* whether the nodes are connected to each other
    request,    \* the read request under way
    wallet,     \* the wallet's client for several sequencers
    ghost,      \* what happened to transactions, for the properties
    made,       \* how many blocks each sequencer made
    spent       \* how much of each bound of the world is used up

vars == <<world, canon, final, node, gossip, wire, link, request, wallet, ghost, made, spent>>

chainVars == <<canon, final, node, made>>
gossipVars == <<gossip, wire, link>>

Left(what) == spent[what] < world.bound[what]
Spend(what) == spent' = [spent EXCEPT ![what] = @ + 1]

Others(n) == world.nodes \ {n}
NoTurn == [on |-> FALSE, parent |-> <<>>, txs |-> <<>>]

NewNode(chain) ==
    [view |-> chain, final |-> 1, high_water |-> 1, index |-> block_to_transactions_map(chain),
     pool |-> EmptyPool, turn |-> NoTurn, deposits |-> <<>>, told |-> {}, stray |-> <<>>,
     mail |-> <<>>]

\* The wallet, closed: `file` is what is on disk, `torn` if it cannot be read.
\* `heard` counts the answers since a sequencer was calibrated and `kept` is
\* its value when the file was written; both are for the property.
NewWallet ==
    [up |-> FALSE, stats |-> <<>>, leaders |-> <<>>, log |-> EmptyLog(world.urls),
     file |-> <<>>, torn |-> FALSE, heard |-> <<>>, kept |-> <<>>]

Init ==
    /\ world \in World
    /\ canon = world.chain
    /\ final = 1
    /\ node = [n \in Node |-> NewNode(world.chain)]
    /\ gossip = [n \in Node |-> NewGossip]
    /\ wire = {} /\ link = world.linked
    /\ request = IdleRequest
    /\ wallet = NewWallet
    /\ ghost = [acked |-> {}, excused |-> {}, sent |-> {}, heard |-> {}, muted |-> {}]
    /\ made = [n \in Node \cup {"other"} |-> Len(world.chain)]
    /\ spent = [b \in DOMAIN world.bound |-> 0]

\* The asks of a read request that is being handled.
Asking == {"lookup", "height", "inclusion", "tip_id", "tip", "predecessor", "range"}

Excuse(txs) == ghost' = [ghost EXCEPT !.excused = @ \cup (txs \ Deposit)]

\* The executor handles one message at a time: a production turn, or the reads
\* of a block range.
Ranging(n) == request.node = n /\ request.pc = "range" /\ request.blocks # <<>>
Idle(n) == ~node[n].turn.on /\ ~Ranging(n)

-----------------------------------------------------------------------------
\* Submission.  The transaction goes to the gossip task before the executor is
\* asked to admit it.

send_transaction(n, t) ==
    /\ <<n, t>> \in world.submits
    /\ t \notin ghost.acked /\ t \notin ToSet(node[n].mail) /\ Left("submit") /\ Spend("submit")
    /\ evaluate_transaction(t)
    /\ gossip' = [gossip EXCEPT ![n] = publish(@, t)]
    /\ ghost' = [ghost EXCEPT !.sent = @ \cup {t}, !.heard = @ \cup {<<n, t>>},
                     !.muted = IF gossip'[n] = gossip[n] THEN @ \cup {t} ELSE @]
    /\ node' = [node EXCEPT ![n].mail = Append(@, t)]
    /\ UNCHANGED <<world, canon, final, made, wire, link, request, wallet>>

\* The executor's handler: acknowledged, or the mempool is full.
HandleTransaction(n) ==
    /\ Idle(n) /\ node[n].mail # <<>>
    /\ LET t == Head(node[n].mail)
       IN  /\ node' = [node EXCEPT ![n].mail = Tail(@),
                                   ![n].pool = try_push(@, t, world.mempool)]
           /\ ghost' = IF HasRoom(node[n].pool, world.mempool)
                       THEN [ghost EXCEPT !.acked = @ \cup {t}] ELSE ghost
    /\ UNCHANGED <<world, canon, final, made, gossipVars, request, wallet, spent>>

-----------------------------------------------------------------------------
\* Gossip.

DriveTaskPublishes(n) ==
    /\ gossip[n].out # <<>>
    /\ LET t == Head(gossip[n].out)
           g == [gossip[n] EXCEPT !.out = Tail(@)]
           after == publish_transaction(g, t, link)
       IN  /\ gossip' = [gossip EXCEPT ![n] = after]
           /\ wire' = IF Sends(g, t, link) THEN wire \cup (Others(n) \X {t}) ELSE wire
           /\ ghost' = [ghost EXCEPT !.muted = @ \cup
                           (ToSet(g.pending) \ ToSet(after.pending))]
    /\ UNCHANGED <<world, chainVars, link, request, wallet, spent>>

\* A message arrives; gossipsub drops one it knows.
on_message(n, t) ==
    /\ <<n, t>> \in wire
    /\ wire' = wire \ {<<n, t>>}
    /\ ghost' = [ghost EXCEPT !.heard = @ \cup {<<n, t>>}]
    /\ IF t \in gossip[n].known THEN UNCHANGED <<gossip, node>>
       ELSE /\ gossip' = [gossip EXCEPT ![n] = on_gossip_message(@, t, node[n].pool, world.mempool)]
            /\ node' = IF Admits(gossip[n], t, node[n].pool, world.mempool)
                       THEN [node EXCEPT ![n].pool = try_push(@, t, world.mempool)] ELSE node
    /\ UNCHANGED <<world, canon, final, made, link, request, wallet, spent>>

\* A dial succeeds, at start-up or by retry_bootstrap on an isolated node, and
\* each side learns that the other subscribes.
Connect ==
    /\ ~link /\ link' = TRUE
    /\ gossip' = [n \in Node |-> flush_pending_publishes(gossip[n], TRUE)]
    /\ wire' = wire \cup UNION {Others(n) \X (ToSet(gossip[n].pending) \ gossip[n].known) : n \in Node}
    /\ UNCHANGED <<world, chainVars, request, wallet, ghost, spent>>

\* The connection is lost, and with it what is under way.
Disconnect ==
    /\ link /\ link' = FALSE /\ Left("fault") /\ Spend("fault")
    /\ wire' = {}
    /\ ghost' = [ghost EXCEPT !.muted = @ \cup {m[2] : m \in wire}]
    /\ UNCHANGED <<world, chainVars, gossip, request, wallet>>

-----------------------------------------------------------------------------
\* Production and the channel.

\* A turn that the channel gives: the block is built, and the publication is
\* awaited.  Turns that give a block with nothing but the clock are taken only
\* while the chain has not reached what a node published that waits for it.
Waits(n) == rewound_below_published(node[n])

ProduceBlock(n) ==
    /\ n \in world.turns /\ Idle(n) /\ ~Waits(n)
    /\ \E f \in {build_block_from_mempool(node[n])} :
        /\ f.txs # <<>> \/ f.pool # node[n].pool
           \/ \E m \in Others(n) : Waits(m) /\ Len(node[n].view) < node[m].high_water
        /\ node' = [node EXCEPT ![n].pool = f.pool,
                                ![n].turn = [on |-> TRUE, parent |-> node[n].view, txs |-> f.txs]]
        /\ Excuse(f.left_out \ (TxsOf(node[n].view) \cup ToSet(f.txs)))
    /\ UNCHANGED <<world, canon, final, made, gossipVars, request, wallet, spent>>

\* The inscription is accepted; it extends the lineage if its parent is the
\* lineage's end, and is lost otherwise.
PublishBlock(n) ==
    /\ node[n].turn.on
    /\ LET parent == node[n].turn.parent
           block == NewBlock(Last(parent), <<n, made[n] + 1>>, node[n].turn.txs)
       IN  /\ canon' = IF parent = canon THEN Append(canon, block) ELSE canon
           /\ node' = [node EXCEPT ![n] =
                  [record_produced_block(@, parent, block) EXCEPT
                      !.turn = NoTurn, !.stray = IF parent = canon THEN @ ELSE Append(@, block)]]
    /\ made' = [made EXCEPT ![n] = @ + 1]
    /\ UNCHANGED <<world, final, gossipVars, request, wallet, ghost, spent>>

\* The lineage from some height on is replaced by blocks of a third sequencer.
Reorg ==
    /\ Left("reorg") /\ Spend("reorg")
    /\ \E k \in final..(Len(canon) - 1) :
        /\ canon' = FoldLeft(LAMBDA acc, i : Append(acc, NewBlock(Last(acc), <<"other", made["other"] + i>>, <<>>)),
                             SubSeq(canon, 1, k), [i \in 1..(Len(canon) - k) |-> i])
        /\ made' = [made EXCEPT !["other"] = @ + Len(canon) - k]
    /\ UNCHANGED <<world, final, node, gossipVars, request, wallet, ghost>>

\* The third sequencer's turn, while all others wait.
OtherProduces ==
    /\ \A n \in world.turns : Waits(n) /\ Idle(n) /\ node[n].view = canon
    /\ canon' = Append(canon, NewBlock(Last(canon), <<"other", made["other"] + 1>>, <<>>))
    /\ made' = [made EXCEPT !["other"] = @ + 1]
    /\ UNCHANGED <<world, final, node, gossipVars, request, wallet, ghost, spent>>

\* The lineage so far becomes irreversible.
Finalize ==
    /\ final < Len(canon) /\ final' = Len(canon)
    /\ UNCHANGED <<world, canon, node, made, gossipVars, request, wallet, ghost, spent>>

\* One update of the sdk.  Blocks that left the lineage are reported orphaned
\* together with the lineage that replaced them, or in an update of their own;
\* with a fault, the update also repeats deposits and finalized blocks, and
\* reports finalized blocks of this node as orphaned.
Update(n, whole, again) ==
    LET v == node[n].view
        common == CommonPrefix(v, canon)
        lost == SubSeq(v, common + 1, Len(v))
        head == IF whole THEN canon ELSE SubSeq(v, 1, common)
        final_height == IF Len(head) < final THEN node[n].final ELSE final
        finals == SubSeq(head, 1, final_height)
    IN  [head |-> head,
         final_height |-> final_height,
         lost |-> lost,
         orphaned |-> lost
             \o SelectSeq(node[n].stray, LAMBDA b : b \notin ToSet(lost))
             \o (IF again THEN SelectSeq(finals, LAMBDA b : b.hash[1] = n) ELSE <<>>),
         deposits |-> SelectSeq(world.deposits, LAMBDA d : again \/ d \notin node[n].told),
         irreversible |-> IF again THEN finals ELSE SubSeq(finals, node[n].final + 1, final_height)]

apply_update(n, whole, again) ==
    \E u \in {Update(n, whole, again)} :
        /\ whole \/ u.lost # <<>>
        /\ u.orphaned # <<>> \/ u.deposits # <<>> \/ u.head # node[n].view \/ u.irreversible # <<>>
        /\ \E after \in {apply_follow_update([node[n] EXCEPT !.stray = <<>>, !.told = ToSet(world.deposits)],
                 u.head, u.final_height, u.orphaned, u.deposits, u.irreversible, world.mempool)} :
             /\ node' = [node EXCEPT ![n] = after]
             /\ Excuse(UNION {ToSet(resubmittable_txs(u.orphaned[i])) : i \in 1..Len(u.orphaned)}
                          \ (Waiting(after.pool) \cup TxsOf(u.head)))

Follow(n) ==
    /\ n \in world.nodes
    /\ \/ apply_update(n, TRUE, FALSE) /\ UNCHANGED spent
       \/ apply_update(n, FALSE, FALSE) /\ UNCHANGED spent
       \/ apply_update(n, TRUE, TRUE) /\ Left("fault") /\ Spend("fault")
    /\ UNCHANGED <<world, canon, final, made, gossipVars, request, wallet>>

\* A node stops and starts again: a failed publication and a panic end it as
\* well.  The mempool, the gossip state and unreported inscriptions are gone.
Restarted(n) ==
    LET inTurn == IF node[n].turn.on THEN ToSet(node[n].turn.txs) ELSE {}
        mine == Waiting(node[n].pool) \cup inTurn \cup TxsOf(node[n].stray) \cup ToSet(node[n].mail)
        elsewhere == UNION {Waiting(node[m].pool) : m \in world.turns \ {n}} \cup TxsOf(canon)
    IN  /\ node' = [node EXCEPT ![n] =
               [@ EXCEPT !.pool = EmptyPool, !.turn = NoTurn, !.stray = <<>>, !.mail = <<>>,
                         !.index = block_to_transactions_map(node[n].view)]]
        /\ gossip' = [gossip EXCEPT ![n] = NewGossip]
        /\ wire' = {} /\ link' = FALSE
        /\ ghost' = [ghost EXCEPT !.excused = @ \cup (mine \ (Deposit \cup elsewhere)),
                         !.muted = @ \cup ToSet(gossip[n].out) \cup ToSet(gossip[n].pending)
                                     \cup {m[2] : m \in wire}]
        /\ UNCHANGED <<world, canon, final, made, wallet>>

Restart(n) ==
    /\ n \in world.nodes
    /\ Left("fault") /\ Spend("fault")
    /\ Restarted(n)
    /\ request' = IF request.node = n /\ request.pc \in Asking THEN Failed(request) ELSE request

-----------------------------------------------------------------------------
\* Reading.

StartReceipt(n, t, depth) ==
    /\ n \in world.nodes /\ request.pc = "idle" /\ Left("read") /\ Spend("read")
    /\ request' = ReceiptRequest(n, t, depth)
    /\ UNCHANGED <<world, chainVars, gossipVars, wallet, ghost>>

StartHistory ==
    /\ request.pc = "idle" /\ Left("read") /\ Spend("read")
    /\ request' = [IdleRequest EXCEPT !.kind = "history", !.pc = "page"]
    /\ UNCHANGED <<world, chainVars, gossipVars, wallet, ghost>>

\* The client asks for the next page, of the leader or of the one after it.
AskPage(n) ==
    /\ n \in world.nodes /\ request.pc = "page"
    /\ request' = PageRequest(request, n, MAX_HISTORY_BLOCKS)
    /\ UNCHANGED <<world, chainVars, gossipVars, wallet, ghost, spent>>

\* The next ask of the handler under way.
Step(r, nd) ==
    CASE r.pc = "lookup" -> Lookup(r, nd)
      [] r.pc = "height" -> DeepEnough(r, nd)
      [] r.pc = "inclusion" -> NextConfirmation(r, nd)
      [] r.pc = "tip_id" -> TipId(r, nd)
      [] r.pc = "tip" -> TipBlock(r, nd)
      [] r.pc = "predecessor" -> Predecessor(r, nd)
      [] r.pc = "range" -> BlockRange(r, nd)

Ask ==
    /\ request.pc \in Asking /\ ~node[request.node].turn.on
    /\ IF request.pc = "lookup" /\ get_transaction_by_hash(node[request.node], request.tx) = "panic"
       THEN Restarted(request.node) /\ request' = Failed(request) /\ UNCHANGED spent
       ELSE /\ request' = Step(request, node[request.node])
            /\ UNCHANGED <<world, chainVars, gossipVars, wallet, ghost, spent>>

\* The answer reaches the client.  A page may be too large for the transport.
Answered ==
    /\ request.pc = "answered"
    /\ request' = IF request.kind = "receipt" THEN IdleRequest
                  ELSE IF Len(request.blocks) <= world.response THEN Continued(request)
                  ELSE IF smaller_local_public_block_history_page(request.max) = 0 THEN IdleRequest
                  ELSE PageRequest(request, request.node, smaller_local_public_block_history_page(request.max))
    /\ UNCHANGED <<world, chainVars, gossipVars, wallet, ghost, spent>>

EndRequest ==
    /\ request.pc \in {"failed", "complete"} /\ request' = IdleRequest
    /\ UNCHANGED <<world, chainVars, gossipVars, wallet, ghost, spent>>

-----------------------------------------------------------------------------
\* The wallet's client.  Every call also measures the sequencers it asks.

\* A list of answers from each sequencer: one from those with statistics, the
\* series of a calibration from the others.
Measurements(stats) ==
    {a \in [ToSet(world.urls) -> world.series \cup {<<x>> : x \in world.answers}] :
        \A u \in DOMAIN a : u \in DOMAIN stats <=> a[u] \notin world.series}

NothingHeard == [good |-> 0, bad |-> 0]
Counted(h, answers) ==
    [good |-> h.good + NumSucceeded(answers), bad |-> h.bad + NumFailed(answers)]

\* `heard` after the answers of a setup that leaves `stats`.
HeardBy(heard, stats, answers) ==
    [u \in DOMAIN stats |-> Counted(IF u \in DOMAIN heard THEN heard[u] ELSE NothingHeard, answers[u])]

\* The file's statistics, if it can be read: one that was cut off is an error.
extract_statistics_from_path == IF wallet.torn THEN {} ELSE {wallet.file}

\* Opens the wallet: the statistics of the file, then the first leaders.  It
\* does not open when the file is torn or no leader is left.
OpenWallet ==
    /\ ~wallet.up /\ Left("call") /\ Spend("call")
    /\ \E file \in extract_statistics_from_path : \E answers \in Measurements(file) :
        \E stats \in {SetupStatistics(file, answers)} : \E leaders \in setup(world.urls, stats) :
            wallet' = [wallet EXCEPT !.up = TRUE, !.stats = stats, !.log = EmptyLog(world.urls),
                           !.leaders = leaders, !.heard = HeardBy(wallet.kept, stats, answers)]
    /\ UNCHANGED <<world, chainVars, gossipVars, request, ghost>>

\* metered_get asks the leaders in order until one answers the call itself;
\* metered_send_transaction asks all of them.
MeteredCall(all) ==
    /\ wallet.up /\ Left("call") /\ Spend("call")
    /\ \E responds \in [ToSet(world.urls) -> BOOLEAN], answer \in [ToSet(world.urls) -> world.answers] :
        LET urls == IF all THEN wallet.leaders ELSE Asked(wallet.leaders, responds)
        IN  wallet' = [wallet EXCEPT !.log = Logged(@, urls, answer),
                           !.heard = [u \in DOMAIN @ |->
                               IF u \in ToSet(urls) THEN Counted(@[u], <<answer[u]>>) ELSE @[u]]]
    /\ UNCHANGED <<world, chainVars, gossipVars, request, ghost>>

\* After a command the log is applied, the sequencers are asked, the leaders
\* are chosen anew and the file is written.  When no leader is left the old
\* leaders and the file stay; a process that dies while it writes leaves the
\* file cut off.
client_rotation ==
    /\ wallet.up /\ Left("call") /\ Spend("call")
    /\ \E answers \in Measurements(wallet.stats) :
        \E stats \in {SetupStatistics(update_statistics(wallet.stats, wallet.log), answers)} :
            LET updated == [wallet EXCEPT !.stats = stats, !.log = EmptyLog(world.urls),
                                          !.heard = HeardBy(@, stats, answers)]
            IN  \/ setup(world.urls, stats) = {} /\ wallet' = updated
                \/ \E leaders \in setup(world.urls, stats) :
                      wallet' = [updated EXCEPT !.leaders = leaders, !.file = stats, !.kept = updated.heard]
                \/ setup(world.urls, stats) # {} /\ wallet' = [NewWallet EXCEPT !.torn = TRUE]
    /\ UNCHANGED <<world, chainVars, gossipVars, request, ghost>>

\* The command that calibrates one sequencer replaces its statistics; answers
\* in the log are still to be applied.
Callibrate(u) ==
    /\ wallet.up /\ Left("call") /\ Spend("call")
    /\ \E answers \in world.series :
        /\ Calibrates(answers)
        /\ wallet' = [wallet EXCEPT !.stats = (u :> calibrate_client(answers)) @@ @,
               !.heard = (u :> Counted(NothingHeard, answers \o wallet.log[u])) @@ @]
    /\ UNCHANGED <<world, chainVars, gossipVars, request, ghost>>

\* The process ends; what was not written is forgotten.
CloseWallet ==
    /\ wallet.up
    /\ wallet' = [NewWallet EXCEPT !.file = wallet.file, !.kept = wallet.kept]
    /\ UNCHANGED <<world, chainVars, gossipVars, request, ghost, spent>>

-----------------------------------------------------------------------------
Next ==
    \/ \E n \in Node, t \in world.users : send_transaction(n, t) \/ on_message(n, t)
    \/ \E n \in Node :
          \/ HandleTransaction(n) \/ DriveTaskPublishes(n)
          \/ ProduceBlock(n) \/ PublishBlock(n) \/ Follow(n) \/ Restart(n)
          \/ AskPage(n)
    \/ \E n \in Node, t \in world.receipts, depth \in 0..(MAX_CONFIRMATIONS + 1) : StartReceipt(n, t, depth)
    \/ Connect \/ Disconnect \/ Reorg \/ OtherProduces \/ Finalize
    \/ (world.history /\ StartHistory) \/ Ask \/ Answered \/ EndRequest
    \/ OpenWallet \/ MeteredCall(TRUE) \/ MeteredCall(FALSE) \/ client_rotation \/ CloseWallet
    \/ \E u \in ToSet(world.urls) : Callibrate(u)

Spec == Init /\ [][Next]_vars

\* What goes on by itself: the executor handles its mailbox and asks, turns come round,
\* publications return, the sdk reports what the channel did, the channel
\* finalizes, isolated nodes dial again, connected ones exchange messages.
Progress ==
    \/ \E n \in Node :
          \/ HandleTransaction(n) \/ DriveTaskPublishes(n)
          \/ ProduceBlock(n) \/ PublishBlock(n) \/ Follow(n)
          \/ \E t \in world.users : on_message(n, t)
    \/ Connect \/ OtherProduces \/ Finalize \/ Ask

FairSpec == Spec /\ WF_vars(Progress)

-----------------------------------------------------------------------------
\* Properties.

Settled == TxsOf(SubSeq(canon, 1, final))

\* What waits in a mempool behind a transaction that fits no block: it is popped first
\* and put back in front at every turn.
Stuck ==
    UNION {Waiting(p) : p \in {q \in {node[n].pool : n \in world.nodes} :
                                  ~is_empty(q) /\ ~fits_in_an_empty_block(Popped(q))}}

\* A transaction whose submission was acknowledged ends in the final chain,
\* through full blocks, full mempools, lost races, orphaned blocks and gossip,
\* unless it was dropped where the code drops one: a node that restarts, a
\* resubmission to a full mempool or of a block reported orphaned after its
\* height was final, and a nonce that was ahead of its turn; or it waits behind
\* one that was admitted although it fits no block.
AcknowledgedIsDecided ==
    []<>(ghost.acked \subseteq Settled \cup ghost.excused \cup Stuck)

\* Every deposit of the L1 whose mint can execute is minted in the final chain,
\* whatever restarts, orphaned mints, repeated events and mints that fail come
\* in between.
EveryDepositIsMinted ==
    []<>({d \in ToSet(world.deposits) : Mintable(d)} \subseteq Settled)

\* What a client reads in several asks is one chain.  A receipt shows blocks that were
\* on the node's chain together, the first of them with the transaction, whatever the
\* head did between the asks.
ReceiptIsOneChain(r, view) ==
    /\ r.tx \in ToSet(r.blocks[1].txs)
    /\ Len(r.blocks) = r.depth + 1
    /\ r.blocks = SubSeq(view, r.at, r.at + r.depth)

\* The blocks of a page were on the node's chain together, on top of the block before
\* them, though they are read one by one while the head moves.  They are part of the
\* history the first page began, on whichever node, unless the head had left the page's
\* own tip when they were read.
PageIsOneChain(r) ==
    LET last == r.start + Len(r.blocks) - 1
    IN  /\ r.blocks = SubSeq(r.view, r.start, last)
        /\ r.start > GENESIS_BLOCK_ID => r.view[r.start - 1].hash = r.prev
        /\ r.at <= Len(r.view) /\ r.view[r.at].hash = r.tip => r.blocks = SubSeq(r.snapshot, r.start, last)

\* Answers to a client, receipts and pages of a history, are of one chain each.
AnswersAreOneChain ==
    [][request.pc # "answered" /\ request'.pc = "answered" /\ request'.blocks # <<>> =>
          IF request.kind = "receipt" THEN ReceiptIsOneChain(request', node[request.node].view)
          ELSE PageIsOneChain(request')]_vars

\* A transaction that was submitted to one node comes to the knowledge of the
\* others, although the nodes connect later or again, unless a queue ran over,
\* a node restarted or the connection broke.
GossipReachesThePeers ==
    []<>(\A t \in ghost.sent \ ghost.muted : \A m \in world.nodes : <<m, t>> \in ghost.heard)

\* The client can go on from any state its rotations leave, those that fail included.
\* There is a leader to ask and every leader has statistics, although clients are sorted
\* out by comparing rounded ratios with their rounded average; and every answer since a
\* sequencer was calibrated is counted once, in its statistics or in the log.
ClientKeepsScore ==
    wallet.up =>
        /\ wallet.leaders # <<>> /\ ToSet(wallet.leaders) \subseteq DOMAIN wallet.stats
        /\ DOMAIN wallet.heard = DOMAIN wallet.stats
        /\ \A u \in DOMAIN wallet.stats :
              Counted([good |-> wallet.stats[u].sample_size, bad |-> wallet.stats[u].errors], wallet.log[u])
                  = wallet.heard[u]
==============================================================================
