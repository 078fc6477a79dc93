------------------------------ MODULE Circuit -------------------------------
(***************************************************************************)
(* The privacy-preserving circuit (lee/privacy_preserving_circuit/src):    *)
(* ExecutionState, which checks the outputs of a chain of calls over       *)
(* public and private accounts, and the nullifiers, commitments and notes  *)
(* that it yields.  An assertion that may fail is a set of outcomes: empty *)
(* if the circuit panics.                                                  *)
(*                                                                         *)
(* An identity is Public, or a private witness: the kind of account, its   *)
(* keys and identifier, whether the authorization key is supplied, the     *)
(* external binding of a PDA, and whether the account is created ("Init",  *)
(* which needs only the public part of nsk) or updated ("Update").         *)
(***************************************************************************)
EXTENDS Accounts, TLC

CONSTANTS NoCaller, NoBinding

Public == [type |-> "Public"]

IsPda(identity) == identity.type = "Private" /\ identity.kind = "Pda"

npk(identity) == NullifierPublicKey(identity.nsk)

NewExecutionState ==
    [pre_states |-> <<>>, post_states |-> <<>>, bound |-> <<>>, family |-> <<>>,
     globally_authorized |-> {}]

\* An entry that may be repeated but not changed.
Entered(map, key, value) ==
    IF key \in DOMAIN map /\ map[key] # value THEN {} ELSE {(key :> value) @@ map}

assert_family_binding(st, program, seed, id) ==
    {[st EXCEPT !.family = f] : f \in Entered(st.family, <<program, seed>>, id)}

bind_private_pda_position(st, position, program, seed) ==
    {[st EXCEPT !.bound = b] : b \in Entered(st.bound, position, <<program, seed>>)}

\* Both, for the private PDA at this position.
Resolved(st, position, program, seed, id) ==
    UNION {assert_family_binding(s, program, seed, id) :
              s \in bind_private_pda_position(st, position, program, seed)}

DerivedPda(identity, program, seed) ==
    for_private_pda(program, seed, npk(identity), identity.vpk, identity.identifier)

match_caller_seed_as_public_pda(call, id) ==
    IF call.caller = NoCaller THEN {} ELSE {s \in call.seeds : Pda(call.caller, s) = id}

match_caller_seed_as_private_pda(identity, call, id) ==
    IF call.caller = NoCaller \/ ~IsPda(identity) THEN {}
    ELSE {s \in call.seeds : DerivedPda(identity, call.caller, s) = id}

assert_authorization_and_record_bindings(st, identity, call, pre, position) ==
    LET id == pre.account_id
        public == match_caller_seed_as_public_pda(call, id)
        private == match_caller_seed_as_private_pda(identity, call, id)
        known == id \in st.globally_authorized \cup call.authorized
    IN  IF pre.is_authorized # (public # {} \/ private # {} \/ known) THEN {}
        ELSE IF public # {} THEN UNION {assert_family_binding(st, call.caller, s, id) : s \in public}
        ELSE IF private # {} THEN UNION {Resolved(st, position, call.caller, s, id) : s \in private}
        ELSE {st}

Pushed(st, pre) == [st EXCEPT !.pre_states = Append(@, pre)]

\* A public account or a regular private one: a PDA that the caller vouches for
\* enters the journal as not authorized, and an account authorized in another
\* way stays authorized in every call.
authorize_first_sight_without_pda_witness(st, call, pre) ==
    LET seeds == match_caller_seed_as_public_pda(call, pre.account_id)
    IN  IF seeds = {}
        THEN {Pushed([st EXCEPT !.globally_authorized =
                                    @ \cup (IF pre.is_authorized THEN {pre.account_id} ELSE {})], pre)}
        ELSE IF ~pre.is_authorized THEN {}
        ELSE {Pushed(s, [pre EXCEPT !.is_authorized = FALSE]) :
                 s \in UNION {assert_family_binding(st, call.caller, seed, pre.account_id) : seed \in seeds}}

\* The binding that the witness itself supplies, checked at first sight.
ExternallyBound(st, identity, pre, position) ==
    IF ~IsPda(identity) \/ identity.binding = NoBinding THEN {st}
    ELSE IF pre.account_id # DerivedPda(identity, identity.binding[1], identity.binding[2]) THEN {}
    ELSE Resolved(st, position, identity.binding[1], identity.binding[2], pre.account_id)

FirstSight(st, identity, call, pre) ==
    LET position == Len(st.pre_states) + 1
    IN  UNION {IF IsPda(identity)
               THEN {Pushed(t, pre) : t \in assert_authorization_and_record_bindings(s, identity, call, pre, position)}
               ELSE authorize_first_sight_without_pda_witness(s, call, pre) :
                  s \in ExternallyBound(st, identity, pre, position)}

Position(st, id) == CHOOSE i \in DOMAIN st.pre_states : st.pre_states[i].account_id = id

KnownAccount(st, identities, call, pre) ==
    IF st.post_states[pre.account_id] # pre.account THEN {}
    ELSE LET i == Position(st, pre.account_id)
         IN  assert_authorization_and_record_bindings(st, identities[i], call, pre, i)

\* A claim on a private account is not checked, unless it names a PDA.
ClaimChecked(st, identities, call, pre, post, claim) ==
    LET i == Position(st, pre.account_id)
        public == identities[i] = Public
    IN  IF claim = NoClaim THEN {st}
        ELSE IF post.program_owner # DEFAULT_PROGRAM_OWNER THEN {}
        ELSE IF claim = AuthorizedClaim THEN IF public /\ ~pre.is_authorized THEN {} ELSE {st}
        ELSE IF public
        THEN IF pre.account_id # Pda(call.program, claim) THEN {}
             ELSE assert_family_binding(st, call.program, claim, pre.account_id)
        ELSE IF ~IsPda(identities[i]) \/ pre.account_id # DerivedPda(identities[i], call.program, claim) THEN {}
        ELSE Resolved(st, i, call.program, claim, pre.account_id)

\* One account of a call's output.
validate_and_sync_states(st, identities, call, pre, post, claim) ==
    LET seen == IF pre.account_id \in DOMAIN st.post_states
                THEN KnownAccount(st, identities, call, pre)
                ELSE IF Len(st.pre_states) >= Len(identities) THEN {}
                ELSE FirstSight(st, identities[Len(st.pre_states) + 1], call, pre)
    IN  {[s EXCEPT !.post_states = (pre.account_id :> Claimed(post, claim, call.program)) @@ @] :
            s \in UNION {ClaimChecked(t, identities, call, pre, post, claim) : t \in seen}}

\* The checks once every call has run.
derive_from_outputs(st, identities) ==
    /\ Len(identities) = Len(st.pre_states)
    /\ \A i \in DOMAIN identities : IsPda(identities[i]) => i \in DOMAIN st.bound
    /\ \A i \in DOMAIN st.pre_states :
          LET pre == st.pre_states[i].account
              post == st.post_states[st.pre_states[i].account_id]
          IN  pre.program_owner = DEFAULT_PROGRAM_OWNER /\ pre # post =>
                  post.program_owner # DEFAULT_PROGRAM_OWNER

\* The accounts of the execution, each before and after it.
into_parts(st) ==
    [i \in DOMAIN st.pre_states |-> <<st.pre_states[i], st.post_states[st.pre_states[i].account_id]>>]

-----------------------------------------------------------------------------

\* What the witness must satisfy for the account's state before.
WitnessChecked(identity, pre) ==
    /\ identity.kind = "Regular" =>
          /\ pre.account_id = for_regular_private_account(npk(identity), identity.vpk, identity.identifier)
          /\ pre.is_authorized = identity.ask
    /\ identity.nullifier = "Init" => pre.account = DefaultAccount

\* Mutant: the note of a PDA says that the account is a regular one.
MutKindOf(st, identities, i) == Regular(identities[i].identifier)

KindOf(st, identities, i) ==
    IF identities[i].kind = "Regular" THEN Regular(identities[i].identifier)
    ELSE PdaKind(st.bound[i][1], st.bound[i][2], identities[i].identifier)

\* The account with its new nonce, committed to and encrypted for its viewing key.
emit_private_output(post_state, id, kind, vpk, nullifier, root, nonce) ==
    LET post == [post_state EXCEPT !.nonce = nonce]
    IN  [nullifier |-> nullifier, root |-> root, commitment |-> Commitment(id, post),
         note |-> encrypt(post, kind, vpk, nullifier)]

\* Nullifier, root, commitment and note of one account.
\* `roots[c]` is the digest that the membership proof of c leads to.
PrivateAction(st, identities, i, roots) ==
    LET identity == identities[i]
        pre == into_parts(st)[i][1]
        id == pre.account_id
        Emit(nullifier, root, nonce) ==
            emit_private_output(into_parts(st)[i][2], id, KindOf(st, identities, i), identity.vpk,
                                nullifier, root, nonce)
    IN  IF identity.nullifier = "Init"
        THEN Emit(for_account_initialization(id), identity.root, private_account_nonce_init(id))
        ELSE Emit(for_account_update(Commitment(id, pre.account), identity.nsk),
                  roots[Commitment(id, pre.account)],
                  private_account_nonce_increment(pre.account.nonce, identity.nsk))

\* emit_dummy_output: padding, whose note is supplied from outside.
DummyAction(dummy) ==
    LET nullifier == NullifierForDummy(dummy.nullifier_seed)
    IN  [nullifier |-> nullifier, root |-> dummy.root,
         commitment |-> CommitmentForDummy(nullifier, dummy.commitment_seed),
         note |-> dummy.note]

\* obfuscate_output_ordering: nullifiers and commitments are sorted separately,
\* by their bytes, so a commitment can end up at any action.
obfuscate_output_ordering(actions, order) ==
    [i \in DOMAIN actions |-> [actions[i] EXCEPT !.commitment = actions[order[i]].commitment]]

PublicPositions(identities) == {i \in DOMAIN identities : identities[i] = Public}

\* The positions of a set in increasing order.
InOrder(S) ==
    [k \in 1..Cardinality(S) |-> CHOOSE i \in S : Cardinality({j \in S : j <= i}) = k]

OutputChecked(st, identities) ==
    \A i \in DOMAIN identities \ PublicPositions(identities) :
        WitnessChecked(identities[i], st.pre_states[i])

\* main: the circuit commits to an output.
Accepts(st, identities) == derive_from_outputs(st, identities) /\ OutputChecked(st, identities)

public_actions(st, identities) ==
    LET at == InOrder(PublicPositions(identities))
    IN  [k \in DOMAIN at |-> [pre |-> into_parts(st)[at[k]][1], post |-> into_parts(st)[at[k]][2]]]

private_actions(st, identities, dummies, roots) ==
    LET at == InOrder(DOMAIN identities \ PublicPositions(identities))
    IN  [k \in DOMAIN at |-> PrivateAction(st, identities, at[k], roots)]
        \o [k \in DOMAIN dummies |-> DummyAction(dummies[k])]
=============================================================================
