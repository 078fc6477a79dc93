------------------------------ MODULE Programs ------------------------------
(***************************************************************************)
(* The built-in programs together, and the execution of one public         *)
(* transaction that calls them: call by call against a diff, every call    *)
(* checked before its output counts                                        *)
(* (lee/state_machine/src/validated_state_diff).                           *)
(*                                                                         *)
(* Ledger has the same execution for arbitrary programs; here a program    *)
(* does what its source says, so a transaction has one outcome.  A nonce   *)
(* is 0 until the account first signs and 1 from then on, which is all a   *)
(* program can see of it; replays are Ledger's subject.                    *)
(***************************************************************************)
EXTENDS Amm, Token, NativePrograms, FiniteSetsExt, TLC

CONSTANTS
    TOKEN, AMM, ATA, AUTHENTICATED_TRANSFER, PINATA, PINATA_TOKEN,  \* program ids
    MAX_NUMBER_CHAINED_CALLS,
    PrivateId       \* ids of private accounts, which only the circuit executes on

\* What a program returns; an id that no program has fails the transaction.
execute(program, caller, pres, ins) ==
    CASE program = TOKEN                  -> TokenProgram(pres, ins)
      [] program = AMM                    -> AmmProgram(pres, ins)
      [] program = ATA                    -> AtaProgram(pres, ins)
      [] program = AUTHENTICATED_TRANSFER -> AuthenticatedTransferProgram(pres, ins)
      [] program = VAULT                  -> VaultProgram(pres, ins)
      [] program = FAUCET                 -> FaucetProgram(caller, pres, ins)
      [] program = BRIDGE                 -> BridgeProgram(caller, pres, ins)
      [] program = PINATA                 -> PinataProgram(pres, ins)
      [] program = PINATA_TOKEN           -> PinataTokenProgram(pres, ins)
      [] program = CLOCK                  -> ClockProgram(pres, ins)
      [] program = BRIDGE_LOCK            -> BridgeLockProgram(caller, pres, ins)
      [] program = OUTBOX                 -> OutboxProgram(caller, pres, ins)
      [] program = INBOX                  -> InboxProgram(caller, pres, ins)
      [] program = WRAPPED_TOKEN          -> WrappedTokenProgram(caller, pres, ins)
      [] program = PING_SENDER            -> PingSenderProgram(caller, pres, ins)
      [] program = PING_RECEIVER          -> PingReceiverProgram(caller, pres, ins)
      [] program = STAKE                  -> StakeProgram(caller, pres, ins)
      [] OTHER                            -> Panic

\* get_account_by_id: an id without entry has the default account.
get(accounts, id) == IF id \in DOMAIN accounts THEN accounts[id] ELSE DefaultAccount

Overwrite(f, g) == g @@ f

\* A signed message: [program, account_ids, signers, instruction].
Message(program, account_ids, signers, instruction) ==
    [program |-> program, account_ids |-> account_ids, signers |-> signers, instruction |-> instruction]

\* A call with its caller data.
Chained(c, caller, authorized) ==
    [program |-> c.program, pre_states |-> c.pre_states, instruction |-> c.instruction,
     seeds |-> c.seeds, caller |-> caller, authorized |-> authorized]

InitialCall(accounts, tx) ==
    Chained(Call(tx.program,
                 [i \in 1..Len(tx.account_ids) |->
                     Meta(tx.account_ids[i], get(accounts, tx.account_ids[i]), tx.account_ids[i] \in tx.signers)],
                 tx.instruction, {}),
            NoCaller, tx.signers)

\* compute_public_authorized_pdas, and the accounts authorized before.
MayUse(c, id) ==
    id \in c.authorized \/ (c.caller # NoCaller /\ \E s \in c.seeds : id = Pda(c.caller, s))

\* validate_execution and the checks around it, for the output o of call c.  A
\* claim on a private account needs no authorization.
WellBehaved(c, o, Expected(_)) ==
    LET n == 1..Len(c.pre_states)
        Pre(i)   == c.pre_states[i]
        Post(i)  == o.posts[i].account
    IN  /\ o.ok
        /\ \A i, j \in n : i # j => Pre(i).account_id # Pre(j).account_id
        /\ \A i \in n :
              /\ Pre(i).account = Expected(Pre(i).account_id)
              /\ Pre(i).is_authorized = MayUse(c, Pre(i).account_id)
              /\ ValidPost(Pre(i).account, Post(i), c.program)
              /\ ValidClaim(Pre(i).account_id, Post(i), o.posts[i].claim, c.program,
                            Pre(i).is_authorized \/ Pre(i).account_id \in PrivateId)
        /\ MapThenSumSet(LAMBDA i : Pre(i).account.balance, n) = MapThenSumSet(LAMBDA i : Post(i).balance, n)

\* The accounts a call's output leaves, claims applied.
Outcome(c, o) ==
    [id \in {c.pre_states[i].account_id : i \in 1..Len(c.pre_states)} |->
        LET i == CHOOSE k \in 1..Len(c.pre_states) : c.pre_states[k].account_id = id
        IN  Claimed(o.posts[i].account, o.posts[i].claim, c.program)]

Refused == [ok |-> FALSE, diff |-> <<>>, calls |-> <<>>, counter |-> 0]

\* One iteration of the loop over the call stack: call c, whose output is o.
Step(accounts, m, c, o) ==
    LET Expected(id) == IF id \in DOMAIN m.diff THEN m.diff[id] ELSE get(accounts, id)
        authorized == c.authorized \cup
            {c.pre_states[i].account_id : i \in {k \in 1..Len(c.pre_states) : c.pre_states[k].is_authorized}}
    IN  IF m.counter <= MAX_NUMBER_CHAINED_CALLS /\ WellBehaved(c, o, Expected)
        THEN [ok |-> TRUE, diff |-> Overwrite(m.diff, Outcome(c, o)), counter |-> m.counter + 1,
              calls |-> [k \in 1..Len(o.chained) |-> Chained(o.chained[k], c.program, authorized)]
                        \o Tail(m.calls)]
        ELSE Refused

NextCall(accounts, m, c) ==
    Step(accounts, m, c, execute(c.program, c.caller, c.pre_states, c.instruction))

\* The loop: depth first, until no call is left or one is refused.
RECURSIVE Execution(_, _)
Execution(accounts, m) ==
    IF m.ok /\ m.calls # <<>> THEN Execution(accounts, NextCall(accounts, m, Head(m.calls))) ELSE m

\* The checks after the last call: what was written on an unowned account was
\* claimed, and every declared account came up.
Finished(accounts, tx, m) ==
    IF /\ m.ok
       /\ \A id \in DOMAIN m.diff :
             /\ get(accounts, id).program_owner = DEFAULT_PROGRAM_OWNER
             /\ get(accounts, id) # m.diff[id]
             => m.diff[id].program_owner # DEFAULT_PROGRAM_OWNER
       /\ \A i \in 1..Len(tx.account_ids) : tx.account_ids[i] \in DOMAIN m.diff
    THEN m ELSE Refused

from_public_transaction(accounts, tx) ==
    Finished(accounts, tx,
             Execution(accounts, [ok |-> TRUE, diff |-> <<>>, calls |-> <<InitialCall(accounts, tx)>>,
                                  counter |-> 0]))

\* apply_state_diff; a refused transaction leaves no trace.
Signed(after, tx) ==
    Overwrite(after, [id \in tx.signers |-> [get(after, id) EXCEPT !.nonce = 1]])

Applied(accounts, tx, m) == IF m.ok THEN Signed(Overwrite(accounts, m.diff), tx) ELSE accounts

\* transition_from_public_transaction
transition(accounts, tx) == Applied(accounts, tx, from_public_transaction(accounts, tx))
=============================================================================
