------------------------------ MODULE ChainOps ------------------------------
(***************************************************************************)
(* The methods of ChainState (lez/chain_state/src/chain.rs) as functions   *)
(* of the struct's value.  A method that returns an AcceptOutcome is an    *)
(* operator whose value is [chain |-> the struct after it, outcome |-> ..];*)
(* the state machines that own a ChainState (ChainState, Sequencer) apply  *)
(* them to their variable.                                                 *)
(*                                                                         *)
(* `panicked` records that an `expect` of the code failed.                 *)
(***************************************************************************)
EXTENDS Blocks, FiniteSetsExt

CONSTANTS
    Msg,        \* channel message ids (a block hash is one too: sentinels)
    NoStall,    \* final_stall = None
    CountMax    \* where the saturating counter of a stall saturates

ASSUME MsgAssumption == Hash \subseteq Msg

ASSUME CountAssumption == CountMax \in Nat

HeadEntries == [msg : Msg, block : Block]

Stalls == [block : Block, error : IngestErrors, orphans_since : 0..CountMax]

ASSUME NoStallAssumption == NoStall \notin Stalls

Chains == [final_state : Seq(Block),
           final_tip   : Tips \cup {NoTip},
           final_stall : Stalls \cup {NoStall},
           head_state  : Seq(Block),
           head_blocks : Seq(HeadEntries),
           panicked    : BOOLEAN]

-----------------------------------------------------------------------------

\* The blocks of a sequence of head entries.
BlocksOf(entries) == [i \in 1..Len(entries) |-> entries[i].block]

\* State restored from a persisted final tier; the head mirrors it.
from_final(state, tip) ==
    [final_state |-> state, final_tip |-> tip, final_stall |-> NoStall,
     head_state |-> state, head_blocks |-> <<>>, panicked |-> FALSE]

new == from_final(<<>>, NoTip)

head_tip(c) ==
    IF c.head_blocks = <<>> THEN c.final_tip
    ELSE TipOf(c.head_blocks[Len(c.head_blocks)].block)

\* Head entries at the block's height carrying its message or its hash.
head_position_of(c, m, b) ==
    {i \in 1..Len(c.head_blocks) :
        /\ c.head_blocks[i].block.id = b.id
        /\ c.head_blocks[i].msg = m \/ c.head_blocks[i].block.hash = b.hash}

\* State and tip after the first n head entries are replayed on the final tier.
replay_head_prefix(c, n) ==
    LET bs == BlocksOf(SubSeq(c.head_blocks, 1, n))
    IN  [state |-> c.final_state \o bs,
         tip   |-> IF n = 0 THEN c.final_tip ELSE TipOf(bs[n]),
         ok    |-> Replays(c.final_tip, c.final_state, bs)]

\* Mutant: the head is truncated and its state is not re-derived.
MutTruncateOnly(c, n) == [c EXCEPT !.head_blocks = SubSeq(@, 1, n)]

\* truncate(n) followed by rederive_head.
truncate_and_rederive(c, n) ==
    LET r == replay_head_prefix(c, n)
    IN  [c EXCEPT !.head_blocks = SubSeq(@, 1, n),
                  !.head_state = r.state,
                  !.panicked = @ \/ ~r.ok]

Result(c, o) == [chain |-> c, outcome |-> o]

-----------------------------------------------------------------------------

\* A block adopted on the channel: it extends the head, or reorgs it back to
\* its own height when the head already holds that height.
apply_adopted(c, m, b) ==
    LET above == {i \in 1..Len(c.head_blocks) : c.head_blocks[i].block.id >= b.id}
        kept  == IF above = {} THEN Len(c.head_blocks) ELSE Min(above) - 1
        base  == IF above = {}
                 THEN [state |-> c.head_state, tip |-> head_tip(c), ok |-> TRUE]
                 ELSE replay_head_prefix(c, kept)
        d     == [c EXCEPT !.panicked = @ \/ ~base.ok]
    IN  IF \/ head_position_of(c, m, b) # {}
           \/ c.final_tip # NoTip /\ b.id <= c.final_tip.block_id
        THEN Result(c, "AlreadyApplied")
        ELSE IF apply_block(base.tip, b, base.state) = Ok
        THEN Result([d EXCEPT !.head_blocks = Append(SubSeq(@, 1, kept),
                                                     [msg |-> m, block |-> b]),
                              !.head_state  = Append(base.state, b)],
                    "Applied")
        ELSE Result(d, "Parked")

\* A block this node produced: it may only extend the head.
apply_produced(c, m, b) ==
    IF head_tip(c) # NoTip /\ b.id <= head_tip(c).block_id
    THEN Result(c, "AlreadyApplied")
    ELSE apply_adopted(c, m, b)

revert_orphan(c, m, b) ==
    LET at == head_position_of(c, m, b)
    IN  IF at = {} THEN c ELSE truncate_and_rederive(c, Min(at) - 1)

\* The orphans of one channel update: one truncate at the earliest of them.
revert_orphans(c, orphaned) ==
    LET at == UNION {head_position_of(c, orphaned[k].msg, orphaned[k].block) :
                        k \in 1..Len(orphaned)}
    IN  IF at = {} THEN c ELSE truncate_and_rederive(c, Min(at) - 1)

\* The chain after the first i of the adopted inscriptions were applied.
AdoptAll(c, adopted) ==
    LET after[i \in 0..Len(adopted)] ==
            IF i = 0 THEN c
            ELSE apply_adopted(after[i - 1], adopted[i].msg, adopted[i].block).chain
    IN  after

\* One channel update: revert the orphans, then adopt in order.
apply_channel_update(c, orphaned, adopted) ==
    AdoptAll(revert_orphans(c, orphaned), adopted)[Len(adopted)]

\* Rebuilds one head entry from a persisted block, under its hash as message.
\* Err (anything but Ok) is fatal to the caller.
restore_head_block(c, b) ==
    LET err == apply_block(head_tip(c), b, c.head_state)
    IN  [error |-> err,
         chain |-> IF err # Ok THEN c
                   ELSE [c EXCEPT !.head_state  = Append(@, b),
                                  !.head_blocks = Append(@, [msg |-> b.hash, block |-> b])]]

-----------------------------------------------------------------------------

\* Mutant: the final tip is left behind.
MutFinalizeKeepsTip(c, n) ==
    LET r == replay_head_prefix(c, n)
    IN  [c EXCEPT !.final_state = r.state,
                  !.final_stall = NoStall,
                  !.head_blocks = SubSeq(@, n + 1, Len(@))]

\* Mutant: the entries are applied to a fresh state, not to the final one.
MutFinalizeOnFresh(c, n) ==
    LET r == replay_head_prefix(c, n)
    IN  [c EXCEPT !.final_state = BlocksOf(SubSeq(c.head_blocks, 1, n)),
                  !.final_tip   = r.tip,
                  !.final_stall = NoStall,
                  !.head_blocks = SubSeq(@, n + 1, Len(@))]

\* Moves the first n head entries into the final tier.
finalize_through(c, n) ==
    LET r == replay_head_prefix(c, n)
    IN  [c EXCEPT !.final_state = r.state,
                  !.final_tip   = r.tip,
                  !.final_stall = NoStall,
                  !.head_blocks = SubSeq(@, n + 1, Len(@)),
                  !.panicked    = @ \/ ~r.ok]

\* The first stall is kept verbatim; later ones only count.
record_final_stall(c, b, error) ==
    IF c.final_stall = NoStall
    THEN [block |-> b, error |-> error, orphans_since |-> 0]
    ELSE [c.final_stall EXCEPT !.orphans_since = IF @ < CountMax THEN @ + 1 ELSE @]

\* Mutant: the final tip itself is not recognised when it is delivered again.
MutDirectForgetsTip(c, b) ==
    LET err == apply_block(c.final_tip, b, c.final_state)
    IN  IF c.final_tip # NoTip /\ b.id < c.final_tip.block_id
        THEN Result(c, "AlreadyApplied")
        ELSE IF err = Ok
        THEN Result([c EXCEPT !.final_state = Append(@, b),
                              !.final_tip   = TipOf(b),
                              !.final_stall = NoStall,
                              !.head_blocks = <<>>,
                              !.head_state  = Append(c.final_state, b)],
                    "Applied")
        ELSE Result([c EXCEPT !.final_stall = record_final_stall(c, b, err)], "Parked")

\* A finalized block applied straight to the final tier; the head rebases.
apply_finalized_direct(c, b) ==
    LET err == apply_block(c.final_tip, b, c.final_state)
    IN  IF /\ c.final_tip # NoTip
           /\ \/ b.id < c.final_tip.block_id
              \/ b.id = c.final_tip.block_id /\ b.hash = c.final_tip.hash
        THEN Result(c, "AlreadyApplied")
        ELSE IF err = Ok
        THEN Result([c EXCEPT !.final_state = Append(@, b),
                              !.final_tip   = TipOf(b),
                              !.final_stall = NoStall,
                              !.head_blocks = <<>>,
                              !.head_state  = Append(c.final_state, b)],
                    "Applied")
        ELSE Result([c EXCEPT !.final_stall = record_final_stall(c, b, err)], "Parked")

\* A finalized inscription: in the head already (steady state), chaining on a
\* head entry (that prefix is final too), or neither (backfill).
apply_finalized(c, m, b) ==
    LET at     == head_position_of(c, m, b)
        parent == {i \in 1..Len(c.head_blocks) : c.head_blocks[i].block.hash = b.prev}
    IN  IF at # {} THEN Result(finalize_through(c, Min(at)), "Applied")
        ELSE apply_finalized_direct(
                 IF parent = {} THEN c ELSE finalize_through(c, Min(parent)), b)
=============================================================================
