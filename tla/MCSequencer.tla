---------------------------- MODULE MCSequencer ----------------------------
(***************************************************************************)
(* A small instance of Sequencer: our genesis and a peer's, rival blocks   *)
(* of ours and of a peer at height 2, and our successor of the peer's.     *)
(***************************************************************************)
EXTENDS Sequencer

B(id, prev, hash) ==
    [id |-> id, prev |-> prev, hash |-> hash, intact |-> TRUE, body |-> "ok"]

MCGenesis == B(1, "0", "1a")

MCPeerBlock == {B(1, "0", "1p"), B(2, "1a", "2p")}

\* A peer that joins our channel.
MCPeerJoins == {B(2, "1a", "2p")}

\* A peer that creates the channel and writes two blocks.
MCPeerCreates == {B(1, "0", "1p"), B(2, "1p", "2q")}

\* One block of ours at height 2, and one on top of the peer's.
MCOwnBlock == {MCGenesis, B(2, "1a", "2a"), B(3, "2p", "3a")}

\* Two blocks of ours at height 2: the clock moved on between them.
MCOwnRivals == {MCGenesis, B(2, "1a", "2a"), B(2, "1a", "2b")}

\* Two blocks of ours in a row.
MCOwnRewind == {MCGenesis, B(2, "1a", "2a"), B(3, "2a", "3b")}

MCBlock == MCOwnBlock \cup MCOwnRivals \cup MCOwnRewind \cup MCPeerBlock \cup MCPeerCreates

MCHash == {b.hash : b \in MCBlock} \cup {"0"}

MCExecutes(state, b) == TRUE

MCOwnMsg == [b \in MCBlock |-> "own " \o b.hash]

MCPeerMsg == [b \in PeerBlock |-> "peer " \o b.hash]

MCMsg == MCHash \cup Range(MCOwnMsg) \cup Range(MCPeerMsg)
=============================================================================
