----------------------------- MODULE ProgramIO ------------------------------
(***************************************************************************)
(* What the built-in programs share: the accounts they are given, the      *)
(* post-states, claims and chained calls they return, and their u128       *)
(* arithmetic (lee/state_machine/core/src/program/mod.rs).                 *)
(*                                                                         *)
(* A program is a function of its caller, its pre-states and its           *)
(* instruction.  A panic in the guest fails the transaction, so every      *)
(* assertion of a program is a condition of its output.                    *)
(***************************************************************************)
EXTENDS Accounts

CONSTANT NoCaller   \* caller_program_id of a top-level call

\* AccountWithMetadata
Meta(id, account, authorized) ==
    [account_id |-> id, account |-> account, is_authorized |-> authorized]

Authorize(m) == [m EXCEPT !.is_authorized = TRUE]

\* AccountPostState
New(account) == [account |-> account, claim |-> NoClaim]

NewClaimed(account, claim) == [account |-> account, claim |-> claim]

NewClaimedIfDefault(account, claim) ==
    IF account.program_owner = DEFAULT_PROGRAM_OWNER THEN NewClaimed(account, claim) ELSE New(account)

\* The post-state of an account the program only reads.
Same(m) == New(m.account)

WithData(account, data) == [account EXCEPT !.data = data]

\* ChainedCall
Call(program, pre_states, instruction, seeds) ==
    [program |-> program, pre_states |-> pre_states, instruction |-> instruction, seeds |-> seeds]

\* ProgramOutput, or no output at all.
Output(posts, chained) == [ok |-> TRUE, posts |-> posts, chained |-> chained]

Panic == [ok |-> FALSE, posts |-> <<>>, chained |-> <<>>]

Require(condition, output) == IF condition THEN output ELSE Panic

\* The result of a checked operation is in range; an unchecked one wraps, as in
\* the release profile the guests are built with.
Fits(n) == n \in 0..MaxBalance

Wrap(n) == n % (MaxBalance + 1)
=============================================================================
