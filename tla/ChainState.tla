----------------------------- MODULE ChainState -----------------------------
(***************************************************************************)
(* The two-tier chain state as a state machine: one action per method of   *)
(* ChainState, called in any order with any inscription the channel can    *)
(* carry.  The struct is owned behind a mutex, so a method is one step.    *)
(***************************************************************************)
EXTENDS ChainOps

CONSTANTS
    Inscription,    \* (message, block) pairs the channel can deliver
    MaxUpdate       \* longest list in one channel update

\* A message id commits to its payload.
ASSUME InscriptionAssumption ==
    /\ Inscription \subseteq HeadEntries
    /\ \A i, j \in Inscription : i.msg = j.msg => i = j
    /\ \A i \in Inscription : i.msg \notin Hash

\* A hash covers the parent's hash, so the links of intact blocks form no cycle.
ASSUME AcyclicAssumption ==
    \A S \in SUBSET {b \in Block : b.intact} :
        S # {} => \E first \in S : \A b \in S : b.hash # first.prev

ASSUME MaxUpdateAssumption == MaxUpdate \in Nat

VARIABLES
    chain,  \* the ChainState value
    live    \* FALSE while the stored blocks are being restored at start-up

vars == <<chain, live>>

\* The lists of inscriptions one channel update can carry.
Lists == UNION {[1..n -> Inscription] : n \in 0..MaxUpdate}

Init == chain = new /\ live = FALSE

RestoreHeadBlock(b) ==
    /\ ~live
    /\ restore_head_block(chain, b).error = Ok
    /\ chain' = restore_head_block(chain, b).chain
    /\ UNCHANGED live

ApplyAdopted(i) ==
    /\ chain' = apply_adopted(chain, i.msg, i.block).chain
    /\ live' = TRUE

ApplyProduced(i) ==
    /\ chain' = apply_produced(chain, i.msg, i.block).chain
    /\ live' = TRUE

RevertOrphan(i) ==
    /\ chain' = revert_orphan(chain, i.msg, i.block)
    /\ live' = TRUE

ApplyChannelUpdate(orphaned, adopted) ==
    /\ chain' = apply_channel_update(chain, orphaned, adopted)
    /\ live' = TRUE

ApplyFinalized(i) ==
    /\ chain' = apply_finalized(chain, i.msg, i.block).chain
    /\ live' = TRUE

Next ==
    \/ \E b \in Block : RestoreHeadBlock(b)
    \/ \E i \in Inscription :
          \/ ApplyAdopted(i)
          \/ ApplyProduced(i)
          \/ RevertOrphan(i)
          \/ ApplyFinalized(i)
    \/ \E orphaned, adopted \in Lists : ApplyChannelUpdate(orphaned, adopted)

Spec == Init /\ [][Next]_vars

-----------------------------------------------------------------------------

\* The struct keeps its type.
TypeOK == chain \in Chains /\ live \in BOOLEAN

\* `head_state` is `final_state` replayed through `head_blocks`: the doc comment
\* of ChainState, after every sequence of reorgs, orphans and finalizations.
HeadMatchesReplay ==
    chain.head_state = chain.final_state \o BlocksOf(chain.head_blocks)

\* Both tiers are one hash-linked chain that executes from the cold state, and
\* the stored final tip names its last final block.
OneValidChain ==
    /\ IsChain(chain.head_state)
    /\ chain.final_tip = TipOfChain(chain.final_state)

\* None of the `expect`s on replaying validated head blocks ever fails, neither
\* in finalize_through nor in replay_head_prefix.
NeverPanics == ~chain.panicked

\* The final tier is irreversible: whatever is called, finalized blocks stay
\* and new ones are appended.
FinalIsIrreversible == [][Extends(chain.final_state, chain'.final_state)]_vars

\* A block of our own never reorgs the head (apply_produced): the old head is
\* kept whole whatever the race on the channel did in between.
ProducedOnlyExtends ==
    \A i \in Inscription :
        Extends(chain.head_state, apply_produced(chain, i.msg, i.block).chain.head_state)

\* Re-delivery is idempotent: an inscription that was just applied, as adopted
\* or as finalized, is recognised and changes nothing the second time.  Of the
\* finalized ones, those whose contents match their hash: a held block's hash over
\* other contents is taken for that block, and its parent field is followed.
RedeliveryIsIdempotent ==
    \A i \in Inscription :
        LET a == apply_adopted(chain, i.msg, i.block)
            f == apply_finalized(chain, i.msg, i.block)
        IN  /\ a.outcome = "Applied" =>
                  apply_adopted(a.chain, i.msg, i.block) = Result(a.chain, "AlreadyApplied")
            /\ f.outcome = "Applied" /\ i.block.intact =>
                  apply_finalized(f.chain, i.msg, i.block) = Result(f.chain, "AlreadyApplied")
=============================================================================
