---------------------------- MODULE MCChainState ----------------------------
(***************************************************************************)
(* A small instance of ChainState: a fork at height 2, two competitors at  *)
(* height 3, a block that does not execute, one with a wrong id, one whose *)
(* content does not match its hash, and a re-inscription.                  *)
(***************************************************************************)
EXTENDS ChainState

B(id, prev, hash, intact, body) ==
    [id |-> id, prev |-> prev, hash |-> hash, intact |-> intact, body |-> body]

MCBlock ==
    {B(1, "0",  "1a", TRUE, "ok"),
     B(2, "1a", "2a", TRUE, "ok"),
     B(2, "1a", "2b", TRUE, "ok"),
     B(3, "2a", "3a", TRUE, "ok"),
     B(3, "2b", "3b", TRUE, "ok"),
     B(3, "2a", "3x", TRUE, "ok"),       \* does not execute
     B(1, "2a", "1z", TRUE, "ok"),       \* claims height 1 on top of 2a
     B(2, "3a", "2a", FALSE, "empty")}   \* 2a's id and hash over other contents

MCHash == {b.hash : b \in MCBlock} \cup {"0"}

MCExecutes(state, b) == b.hash # "3x"

\* Message "m<hash>" per block; 2a is inscribed twice, the forged 2a once.
MsgFor(b) == CASE ~b.intact      -> "mforged"
               [] b.hash = "1a"  -> "m1a"
               [] b.hash = "2a"  -> "m2a"
               [] b.hash = "2b"  -> "m2b"
               [] b.hash = "3a"  -> "m3a"
               [] b.hash = "3b"  -> "m3b"
               [] b.hash = "3x"  -> "m3x"
               [] b.hash = "1z"  -> "m1z"

MCInscription ==
    {[msg |-> MsgFor(b), block |-> b] : b \in MCBlock}
        \cup {[msg |-> "m2a_again", block |-> b] : b \in {c \in MCBlock : c.hash = "2a" /\ c.intact}}

MCMsg == MCHash \cup {i.msg : i \in MCInscription}
=============================================================================
