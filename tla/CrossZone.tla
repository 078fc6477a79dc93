------------------------------ MODULE CrossZone ------------------------------
(***************************************************************************)
(* Cross-zone delivery end to end: the sequencer of module Watcher and the *)
(* indexer's verifier (lez/indexer/core/src/cross_zone_verifier.rs), which *)
(* reads the same peer channel on its own and re-derives every dispatch of *)
(* the zone's final blocks before they are applied.                        *)
(***************************************************************************)
EXTENDS Watcher

CONSTANTS
    Claimed     \* deliveries that a dishonest sequencer may put in a block

VARIABLES
    queue,      \* final blocks of the zone with dispatches, not yet ingested
    ingested,   \* the deliveries of the blocks that were applied
    seen,       \* the verifier's record of verified dispatches
    cache,      \* PeerChain: its blocks of the peer
    vcursor,    \* the peer reader's cursor, in memory only
    vtodo,      \* what is left of its pass
    halted      \* ingestion ended on a forged dispatch

reader == <<cache, vcursor, vtodo>>
verifier == <<queue, ingested, seen, reader, halted>>
vars == <<watcherVars, verifier>>

Init ==
    /\ WatcherInit
    /\ queue = <<>> /\ ingested = {} /\ seen = {}
    /\ cache = EmptyCache /\ vcursor = 0 /\ vtodo = <<>>
    /\ halted = FALSE

\* What becomes final at the sequencer reaches the indexer in order.
Sequencer ==
    /\ WatcherNext
    /\ queue' = IF settled' # settled THEN Append(queue, Head(zone)) ELSE queue
    /\ UNCHANGED <<ingested, seen, reader, halted>>

\* A block with a dispatch that no peer block bears out.
Forge(m) ==
    /\ m \in Claimed
    /\ queue' = Append(queue, <<m>>)
    /\ Fault
    /\ UNCHANGED <<peer, now, db, memory, chain, ingested, seen, reader, halted>>

-----------------------------------------------------------------------------
\* The peer reader.

ReadPoll ==
    /\ vtodo = <<>>
    /\ vtodo' = SelectSeq(peer, LAMBDA e : e.slot > vcursor)
    /\ vtodo' # <<>>
    /\ UNCHANGED <<watcherVars, queue, ingested, seen, cache, vcursor, halted>>

\* One message: a block is screened and offered to the cache; one that does not
\* decode ends the pass, with the cursor at the last slot read whole.
ReadOne ==
    LET e    == Head(vtodo)
        rest == Tail(vtodo)
    IN  /\ vtodo # <<>>
        /\ cache' = IF e.item.kind = "block" /\ screen_peer_block(e.item.block)
                    THEN insert(cache, e.item.block) ELSE cache
        /\ vtodo' = IF e.item.kind = "garbage" THEN <<>> ELSE rest
        /\ vcursor' = IF e.item.kind # "garbage" /\ (rest = <<>> \/ Head(rest).slot # e.slot)
                      THEN e.slot ELSE vcursor
        /\ UNCHANGED <<watcherVars, queue, ingested, seen, halted>>

-----------------------------------------------------------------------------
\* Verification.

seen_key(m) == <<message_key(m), m.block_hash>>

\* Mutant: a dispatch is compared by its key, not by the block it names.
MutJudge(m) ==
    IF seen_key(m) \in seen THEN "ok"
    ELSE CASE resolve(cache, m.block_id) = "Behind"    -> "behind"
           [] resolve(cache, m.block_id) = "InsideRun" -> "forged"
           [] resolve(cache, m.block_id) = "Cached"    ->
                 IF \E d \in EmissionsOf(cache.blocks[m.block_id]) : message_key(d) = message_key(m)
                 THEN "ok" ELSE "forged"

\* One dispatch: a replay, not judged yet, or re-derived from the peer's block.
judge(m) ==
    IF seen_key(m) \in seen THEN "ok"
    ELSE CASE resolve(cache, m.block_id) = "Behind"    -> "behind"
           [] resolve(cache, m.block_id) = "InsideRun" -> "forged"
           [] resolve(cache, m.block_id) = "Cached"    ->
                 IF m \in EmissionsOf(cache.blocks[m.block_id]) THEN "ok" ELSE "forged"

\* verify_block and what the ingest loop does with it: the first dispatch that
\* is not ok decides; while it is behind, the block is retried.
Verify ==
    LET block == Head(queue)
        bad   == {i \in 1..Len(block) : judge(block[i]) # "ok"}
    IN  /\ queue # <<>> /\ ~halted
        /\ IF bad = {}
           THEN /\ queue' = Tail(queue)
                /\ ingested' = ingested \cup ToSet(block)
                /\ seen' = seen \cup {seen_key(m) : m \in ToSet(block)}
                /\ UNCHANGED halted
           ELSE /\ judge(block[Min(bad)]) = "forged"
                /\ halted' = TRUE
                /\ UNCHANGED <<queue, ingested, seen>>
        /\ UNCHANGED <<watcherVars, reader>>

\* The indexer restarts: its cache, cursor and seen set were in memory.
IndexerCrash ==
    /\ seen' = {} /\ cache' = EmptyCache /\ vcursor' = 0 /\ vtodo' = <<>> /\ halted' = FALSE
    /\ Fault
    /\ UNCHANGED <<peer, now, db, memory, chain, queue, ingested>>

IndexerStep == ReadPoll \/ ReadOne \/ Verify

Next == Sequencer \/ (\E m \in Claimed : Forge(m)) \/ IndexerStep \/ IndexerCrash

Spec == Init /\ [][Next]_vars

-----------------------------------------------------------------------------

\* The type of the state.
TypeOK ==
    /\ WatcherTypeOK
    /\ halted \in BOOLEAN /\ vcursor \in 0..now
    /\ ingested \subseteq AllDeliveries \cup Claimed
    /\ cache.prefix \in PeerTips \cup {NoTip}

\* The verifier's run is the peer's chain as its channel settles it, as far as
\* it was read: no order of reading, re-reading or restarting gives another.
VerifierFollowsThePeer ==
    cache.prefix # NoTip =>
        /\ cache.prefix.block_id <= Len(PeerRun)
        /\ \A k \in 1..cache.prefix.block_id :
              k \in DOMAIN cache.blocks /\ cache.blocks[k] = PeerRun[k]

\* Ingestion never halts on what honest sequencers produced.
NeverHaltsOnHonest == halted => Head(queue)[1] \in Claimed

\* Only messages that a block of the peer's chain emits are ever applied, also
\* when a dishonest sequencer's blocks claim others.
OnlyEmittedIsApplied ==
    \A m \in ingested : \E k \in 1..Len(PeerRun) : m \in EmissionsOf(PeerRun[k])
==============================================================================
