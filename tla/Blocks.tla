------------------------------- MODULE Blocks -------------------------------
(***************************************************************************)
(* L2 blocks and the single validate-then-apply entry point that the       *)
(* sequencer and the indexer share (lez/chain_state/src/apply.rs).         *)
(*                                                                         *)
(* A block is its header plus what the checks can tell apart:              *)
(*   id, prev, hash   the header fields;                                   *)
(*   intact           recompute_hash() gives the header's hash;            *)
(*   body             "ok", "empty" (no transaction), "bad_clock" (the     *)
(*                    last one is not the clock invocation) or             *)
(*                    "non_public" (not every user transaction is public). *)
(* The state (V03State) is the sequence of blocks executed so far, of      *)
(* which every real state is a function.  Executes(state, b) says whether  *)
(* the transactions of b all execute on that state.                        *)
(***************************************************************************)
EXTENDS Integers, Sequences

CONSTANTS
    Block,          \* the blocks that can appear on the channel
    Hash,           \* block hashes
    NoTip,          \* Option<Tip>::None, the cold state
    Executes(_, _)  \* whether a block's transactions execute on a state

GENESIS_BLOCK_ID == 1

Ok == "Ok"

IngestErrors ==
    {"HashMismatch", "UnexpectedBlockId", "BrokenChainLink", "EmptyBlock",
     "InvalidClockTransaction", "NonPublicGenesisTransaction", "StateTransition"}

Tips == [block_id : Nat, hash : Hash]

ASSUME BlockAssumption ==
    \A b \in Block : /\ b.id \in Nat
                     /\ b.prev \in Hash
                     /\ b.hash \in Hash
                     /\ b.intact \in BOOLEAN
                     /\ b.body \in {"ok", "empty", "bad_clock", "non_public"}

\* The hash covers id, parent, timestamp and transactions, so two blocks whose
\* contents match their hashes and whose hashes agree are the same block.
ASSUME HashAssumption ==
    \A b1, b2 \in Block :
        b1.intact /\ b2.intact /\ b1.hash = b2.hash => b1 = b2

ASSUME NoTipAssumption == NoTip \notin Tips

-----------------------------------------------------------------------------

TipOf(b) == [block_id |-> b.id, hash |-> b.hash]

\* Hash integrity, then the block id, then the link to the parent.  A cold
\* state expects genesis and does not look at its parent hash.
validate_against_tip(tip, b) ==
    CASE ~b.intact -> "HashMismatch"
      [] b.intact /\ tip = NoTip ->
            IF b.id = GENESIS_BLOCK_ID THEN Ok ELSE "UnexpectedBlockId"
      [] OTHER ->
            IF b.id # tip.block_id + 1 THEN "UnexpectedBlockId"
            ELSE IF b.prev # tip.hash THEN "BrokenChainLink"
            ELSE Ok

apply_block_to_state(b, state) ==
    CASE b.body = "empty"     -> "EmptyBlock"
      [] b.body = "bad_clock" -> "InvalidClockTransaction"
      [] OTHER ->
            IF b.id = GENESIS_BLOCK_ID /\ b.body = "non_public"
            THEN "NonPublicGenesisTransaction"
            ELSE IF Executes(state, b) THEN Ok ELSE "StateTransition"

\* Ok, or why the block is refused.  On Ok the new state is Append(state, b).
apply_block(tip, b, state) ==
    IF validate_against_tip(tip, b) # Ok
    THEN validate_against_tip(tip, b)
    ELSE apply_block_to_state(b, state)

\* Whether the blocks bs apply one after the other from (tip, state): what the
\* replay loops of ChainState `expect`.
Replays(tip, state, bs) ==
    \A i \in 1..Len(bs) :
        apply_block(IF i = 1 THEN tip ELSE TipOf(bs[i - 1]), bs[i],
                    state \o SubSeq(bs, 1, i - 1)) = Ok

\* A chain: a sequence of blocks that replays from the cold state.
IsChain(bs) == bs \in Seq(Block) /\ Replays(NoTip, <<>>, bs)

TipOfChain(bs) == IF bs = <<>> THEN NoTip ELSE TipOf(bs[Len(bs)])

\* The chain t is s or continues it.
Extends(s, t) == Len(s) <= Len(t) /\ SubSeq(s, 1, Len(s)) = SubSeq(t, 1, Len(s))

\* What finality makes of a list of blocks: the first one that extends the chain
\* wins its height, everything else is skipped.
Settle(chain, b) ==
    IF apply_block(TipOfChain(chain), b, chain) = Ok THEN Append(chain, b) ELSE chain

SettledUpTo(bs) ==
    LET after[i \in 0..Len(bs)] == IF i = 0 THEN <<>> ELSE Settle(after[i - 1], bs[i])
    IN  after

Settled(bs) == SettledUpTo(bs)[Len(bs)]

-----------------------------------------------------------------------------
(***************************************************************************)
(* The finalized part of a channel, as a reader of it sees it: a sequence  *)
(* of entries [slot, msg] in slot order, several of which may share a      *)
(* slot.  A message is a block, an inscription that does not decode, or a  *)
(* deposit or withdrawal.                                                  *)
(***************************************************************************)

BlockMsg(b) == [kind |-> "block", block |-> b]
Garbage == [kind |-> "garbage"]
Other == [kind |-> "other"]

Messages == {BlockMsg(b) : b \in Block} \cup {Garbage, Other}

\* The blocks of a list of entries.
BlocksUpTo(entries) ==
    LET upto[k \in 0..Len(entries)] ==
            IF k = 0 THEN <<>>
            ELSE IF entries[k].msg.kind = "block"
            THEN Append(upto[k - 1], entries[k].msg.block)
            ELSE upto[k - 1]
    IN  upto

BlocksIn(entries) == BlocksUpTo(entries)[Len(entries)]

\* Every block follows the block it is built on, if that block exists at all.
InOrder(entries) ==
    \A k \in 1..Len(entries) : \A parent \in Block :
        /\ entries[k].msg.kind = "block"
        /\ parent.intact /\ parent.hash = entries[k].msg.block.prev
        => \E j \in 1..(k - 1) : entries[j].msg = BlockMsg(parent)

\* How many entries the slots up to s hold.
ReadUpTo(entries, s) ==
    CHOOSE n \in 0..Len(entries) : \A k \in 1..Len(entries) : entries[k].slot <= s <=> k <= n
=============================================================================
