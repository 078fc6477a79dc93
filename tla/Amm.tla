-------------------------------- MODULE Amm ---------------------------------
(***************************************************************************)
(* The AMM program (lez/programs/amm): one constant-product pool per pair  *)
(* of tokens, with its vaults and its liquidity token at PDAs, moving      *)
(* tokens by chained calls to the token program.                           *)
(***************************************************************************)
EXTENDS Token

\* compute_pool_pda_seed sorts the two ids, so the seed is that of their set.
PoolSeed(a, b) == <<"pool", {a, b}>>

VaultSeed(pool_id, token) == <<"vault", pool_id, token>>

LiquiditySeed(pool_id) == <<"liquidity", pool_id>>

\* Fees are always 0.
PoolDefinition(a, b, vault_a, vault_b, lp, supply, reserve_a, reserve_b, active) ==
    [type |-> "Pool", definition_token_a_id |-> a, definition_token_b_id |-> b,
     vault_a_id |-> vault_a, vault_b_id |-> vault_b, liquidity_pool_id |-> lp,
     liquidity_pool_supply |-> supply, reserve_a |-> reserve_a, reserve_b |-> reserve_b,
     active |-> active]

isqrt(n) == CHOOSE r \in 0..n : r * r <= n /\ n < (r + 1) * (r + 1)

TokenTransfer(program, from, to, amount, seeds) ==
    Call(program, <<from, to>>, [op |-> "Transfer", amount |-> amount], seeds)

\* The accounts that only the chained calls change.
AfterPool(pool_post, rest) == <<pool_post>> \o [i \in 1..Len(rest) |-> Same(rest[i])]

-----------------------------------------------------------------------------

\* pres: pool, vault A, vault B, liquidity definition, user's A, B and
\* liquidity holdings.
new_definition(pres, amount_a, amount_b, amm) ==
    LET pool    == pres[1]
        lp      == pres[4]
        user_a  == pres[5]
        user_b  == pres[6]
        a       == user_a.account.data.definition_id
        b       == user_b.account.data.definition_id
        program == user_a.account.program_owner
        fresh   == pool.account = DefaultAccount
        initial == isqrt(Wrap(amount_a * amount_b))
    IN  Require(/\ amount_a # 0 /\ amount_b # 0
                /\ IsHolding(user_a.account.data) /\ IsHolding(user_b.account.data)
                /\ user_b.account.program_owner = program
                /\ a # b
                /\ pool.account_id = Pda(amm, PoolSeed(a, b))
                /\ pres[2].account_id = Pda(amm, VaultSeed(pool.account_id, a))
                /\ pres[3].account_id = Pda(amm, VaultSeed(pool.account_id, b))
                /\ lp.account_id = Pda(amm, LiquiditySeed(pool.account_id))
                /\ ~fresh => pool.account.data.type = "Pool" /\ ~pool.account.data.active,
                Output(AfterPool(NewClaimedIfDefault(
                                    WithData(pool.account,
                                             PoolDefinition(a, b, pres[2].account_id, pres[3].account_id,
                                                            lp.account_id, initial, amount_a, amount_b, TRUE)),
                                    PoolSeed(a, b)),
                                 Tail(pres)),
                       <<Call(program, <<Authorize(lp), pres[7]>>,
                              IF fresh THEN [op |-> "NewFungibleDefinition", total_supply |-> initial]
                              ELSE [op |-> "Mint", amount |-> initial],
                              {LiquiditySeed(pool.account_id)}),
                         TokenTransfer(program, user_b, Authorize(pres[3]), amount_b,
                                       {VaultSeed(pool.account_id, b)}),
                         TokenTransfer(program, user_a, Authorize(pres[2]), amount_a,
                                       {VaultSeed(pool.account_id, a)})>>))

\* The vaults are the pool's, hold fungible tokens and cover the reserves.
VaultsMatch(p, vault_a, vault_b) ==
    /\ vault_a.account_id = p.vault_a_id /\ vault_b.account_id = p.vault_b_id
    /\ vault_a.account.data.type = "Fungible" /\ vault_b.account.data.type = "Fungible"
    /\ vault_a.account.data.balance >= p.reserve_a /\ vault_b.account.data.balance >= p.reserve_b

LesserOf(m, n) == IF m > n THEN n ELSE m

\* min_lp is NonZero.
add_liquidity(pres, min_lp, max_a, max_b) ==
    LET pool     == pres[1]
        p        == pool.account.data
        lp       == pres[4]
        program  == pres[5].account.program_owner
        actual_a == LesserOf(Wrap(p.reserve_a * max_b) \div p.reserve_b, max_a)
        actual_b == LesserOf(Wrap(p.reserve_b * max_a) \div p.reserve_a, max_b)
        delta_lp == LesserOf(Wrap(p.liquidity_pool_supply * actual_a) \div p.reserve_a,
                             Wrap(p.liquidity_pool_supply * actual_b) \div p.reserve_b)
    IN  Require(/\ min_lp # 0
                /\ p.type = "Pool"
                /\ p.liquidity_pool_id = lp.account_id
                /\ max_a # 0 /\ max_b # 0
                /\ p.reserve_a # 0 /\ p.reserve_b # 0
                /\ VaultsMatch(p, pres[2], pres[3])
                /\ actual_a # 0 /\ actual_b # 0
                /\ delta_lp # 0 /\ delta_lp >= min_lp,
                Output(AfterPool(New(WithData(pool.account,
                                              [p EXCEPT !.liquidity_pool_supply = Wrap(@ + delta_lp),
                                                        !.reserve_a = Wrap(@ + actual_a),
                                                        !.reserve_b = Wrap(@ + actual_b)])),
                                 Tail(pres)),
                       <<Call(program, <<Authorize(lp), pres[7]>>, [op |-> "Mint", amount |-> delta_lp],
                              {LiquiditySeed(pool.account_id)}),
                         TokenTransfer(program, pres[6], pres[3], actual_b, {}),
                         TokenTransfer(program, pres[5], pres[2], actual_a, {})>>))

\* What a share of the liquidity is worth.
ShareOf(reserve, amount, supply) == Wrap(reserve * amount) \div supply

\* amount is NonZero; min_a and min_b bound the withdrawal from below.
remove_liquidity(pres, amount, min_a, min_b) ==
    LET pool     == pres[1]
        p        == pool.account.data
        lp       == pres[4]
        holding  == pres[7].account.data
        program  == pres[5].account.program_owner
        out_a    == ShareOf(p.reserve_a, amount, p.liquidity_pool_supply)
        out_b    == ShareOf(p.reserve_b, amount, p.liquidity_pool_supply)
        delta_lp == Wrap(p.liquidity_pool_supply * amount) \div p.liquidity_pool_supply
        supply   == Wrap(p.liquidity_pool_supply - delta_lp)
    IN  Require(/\ amount # 0
                /\ p.type = "Pool" /\ p.active
                /\ p.liquidity_pool_id = lp.account_id
                /\ pres[2].account_id = p.vault_a_id /\ pres[3].account_id = p.vault_b_id
                /\ min_a # 0 /\ min_b # 0
                /\ holding.type = "Fungible" /\ holding.definition_id = p.liquidity_pool_id
                /\ holding.balance <= p.liquidity_pool_supply
                /\ p.liquidity_pool_supply # 0
                /\ out_a >= min_a /\ out_b >= min_b,
                Output(AfterPool(New(WithData(pool.account,
                                              [p EXCEPT !.liquidity_pool_supply = supply,
                                                        !.reserve_a = Wrap(@ - out_a),
                                                        !.reserve_b = Wrap(@ - out_b),
                                                        !.active = supply # 0])),
                                 Tail(pres)),
                       <<Call(program, <<Authorize(lp), pres[7]>>, [op |-> "Burn", amount |-> delta_lp],
                              {LiquiditySeed(pool.account_id)}),
                         TokenTransfer(program, Authorize(pres[3]), pres[6], out_b,
                                       {VaultSeed(pool.account_id, p.definition_token_b_id)}),
                         TokenTransfer(program, Authorize(pres[2]), pres[5], out_a,
                                       {VaultSeed(pool.account_id, p.definition_token_a_id)})>>))

-----------------------------------------------------------------------------

\* swap_logic: what comes out for `amount` in, and whether it is accepted.
OutFor(reserve_in, reserve_out, amount) == (reserve_out * amount) \div Wrap(reserve_in + amount)

CanSwapIn(reserve_in, reserve_out, amount, min_out) ==
    /\ Fits(reserve_out * amount)
    /\ Wrap(reserve_in + amount) # 0
    /\ OutFor(reserve_in, reserve_out, amount) >= min_out
    /\ OutFor(reserve_in, reserve_out, amount) # 0

\* Mutant: plain division instead of div_ceil.
MutInFor(reserve_in, reserve_out, amount) == (reserve_in * amount) \div (reserve_out - amount)

\* exact_output_swap_logic: what must come in for `amount` out, rounded up.
InFor(reserve_in, reserve_out, amount) ==
    (reserve_in * amount + (reserve_out - amount) - 1) \div (reserve_out - amount)

CanSwapOut(reserve_in, reserve_out, amount, max_in) ==
    /\ amount # 0 /\ amount < reserve_out
    /\ Fits(reserve_in * amount)
    /\ InFor(reserve_in, reserve_out, amount) <= max_in

\* The user pays `deposit` into one vault and receives `withdrawn` from the other.
SwapCalls(pool, user_in, vault_in, vault_out, user_out, deposit, withdrawn) ==
    LET program == user_in.account.program_owner
    IN  <<TokenTransfer(program, user_in, vault_in, deposit, {}),
          TokenTransfer(program, Authorize(vault_out), user_out, withdrawn,
                        {VaultSeed(pool.account_id, vault_out.account.data.definition_id)})>>

\* create_swap_post_states
AfterSwap(p, a_in, in, out) ==
    IF a_in THEN [p EXCEPT !.reserve_a = Wrap(@ + in), !.reserve_b = Wrap(@ - out)]
    ELSE [p EXCEPT !.reserve_b = Wrap(@ + in), !.reserve_a = Wrap(@ - out)]

\* pres: pool, vault A, vault B, user's A and B holdings.  Accepts decides on
\* the reserves in the direction of the swap; Deposit and Withdrawn give the
\* amounts.
Swap(pres, token_in, Accepts(_, _), Deposit(_, _), Withdrawn(_, _)) ==
    LET p    == pres[1].account.data
        a_in == token_in = p.definition_token_a_id
        rin  == IF a_in THEN p.reserve_a ELSE p.reserve_b
        rout == IF a_in THEN p.reserve_b ELSE p.reserve_a
        in   == Deposit(rin, rout)
        out  == Withdrawn(rin, rout)
    IN  Require(/\ p.type = "Pool" /\ p.active
                /\ VaultsMatch(p, pres[2], pres[3])
                /\ token_in \in {p.definition_token_a_id, p.definition_token_b_id}
                /\ Accepts(rin, rout),
                Output(AfterPool(New(WithData(pres[1].account, AfterSwap(p, a_in, in, out))), Tail(pres)),
                       IF a_in THEN SwapCalls(pres[1], pres[4], pres[2], pres[3], pres[5], in, out)
                       ELSE SwapCalls(pres[1], pres[5], pres[3], pres[2], pres[4], in, out)))

swap_exact_input(pres, amount, min_out, token_in) ==
    Swap(pres, token_in,
         LAMBDA rin, rout : CanSwapIn(rin, rout, amount, min_out),
         LAMBDA rin, rout : amount,
         LAMBDA rin, rout : OutFor(rin, rout, amount))

swap_exact_output(pres, amount, max_in, token_in) ==
    Swap(pres, token_in,
         LAMBDA rin, rout : CanSwapOut(rin, rout, amount, max_in),
         LAMBDA rin, rout : InFor(rin, rout, amount),
         LAMBDA rin, rout : amount)

AmmProgram(pres, ins) ==
    CASE ins.op = "NewDefinition" /\ Len(pres) = 7 ->
            new_definition(pres, ins.token_a_amount, ins.token_b_amount, ins.amm_program_id)
      [] ins.op = "AddLiquidity" /\ Len(pres) = 7 ->
            add_liquidity(pres, ins.min_amount_liquidity, ins.max_a, ins.max_b)
      [] ins.op = "RemoveLiquidity" /\ Len(pres) = 7 ->
            remove_liquidity(pres, ins.amount, ins.min_a, ins.min_b)
      [] ins.op = "SwapExactInput" /\ Len(pres) = 5 ->
            swap_exact_input(pres, ins.amount, ins.min_out, ins.token_in)
      [] ins.op = "SwapExactOutput" /\ Len(pres) = 5 ->
            swap_exact_output(pres, ins.amount, ins.max_in, ins.token_in)
      [] OTHER -> Panic
=============================================================================
