------------------------------ MODULE Follower ------------------------------
(***************************************************************************)
(* What every node that follows a channel promises, whatever it crashes,   *)
(* retries or reads twice: its ledger only grows, and only by what the     *)
(* finalized part of the channel settles.  Two followers of one channel    *)
(* therefore never disagree on a block.                                    *)
(***************************************************************************)
EXTENDS Blocks

VARIABLES
    log,        \* finalized blocks of the channel, in inscription order
    ledger      \* blocks the node treats as irreversible

vars == <<log, ledger>>

Init == log = <<>> /\ ledger = <<>>

\* More of the channel becomes final.
Finalize == Extends(log, log') /\ UNCHANGED ledger

\* The node settles more of what is final.
Follow ==
    /\ Extends(ledger, ledger')
    /\ Extends(ledger', Settled(log))
    /\ UNCHANGED log

Spec == Init /\ [][Finalize \/ Follow]_vars
=============================================================================
