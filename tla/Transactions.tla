---------------------------- MODULE Transactions ----------------------------
(***************************************************************************)
(* What a transaction promises on its own, before any database is asked:   *)
(* check_construction of every kind, its hashes, mining, to_committed, and *)
(* TransactionValidator::check with the network fees of network_fees.cpp.  *)
(*                                                                         *)
(* A commitment to amount n is <<"commitment", n>>, a key image outside    *)
(* the prime subgroup Torsion; a CLSAG signature is <<"clsag", ring size>> *)
(* and a range proof <<"proof", whether it is well formed>>.               *)
(***************************************************************************)
EXTENDS Structures, NetworkFees

CONSTANTS RING_SIZE, MAXIMUM_INPUTS, MINIMUM_OUTPUTS, MAXIMUM_OUTPUTS, MAXIMUM_EXTRA_SIZE,
          MaxNonce    \* stands for UINT64_MAX where mine gives up

ASSUME ConfigAssumption ==
    /\ {RING_SIZE, MAXIMUM_INPUTS, MINIMUM_OUTPUTS, MAXIMUM_OUTPUTS, MAXIMUM_EXTRA_SIZE, MaxNonce} \subseteq Nat
    /\ MINIMUM_OUTPUTS <= MAXIMUM_OUTPUTS

Torsion == <<"torsion">>
Commitment(n) == <<"commitment", n>>
AmountOf(c) == IF c = Z THEN 0 ELSE c[2]
SecretKey(k) == <<"secret", k>>
secret_key_to_public_key(s) == s[2]

\* Crypto::RingCT::check_commitments_parity
check_commitments_parity(pseudo, commitments, fee) ==
    Total([i \in DOMAIN pseudo |-> AmountOf(pseudo[i])]) =
        Total([i \in DOMAIN commitments |-> AmountOf(commitments[i])]) + fee

-----------------------------------------------------------------------------
(* check_construction: the first check that fails names the error *)

FirstError(checks) ==
    LET failed == {i \in DOMAIN checks : checks[i][1]}
    IN  IF failed = {} THEN "SUCCESS" ELSE checks[Min(failed)][2]

StakerOutput_check(o) == FirstError(<<
    <<o.staker_id = Z, "TX_STAKER_REWARD_ID">>,
    <<o.amount = 0, "TX_STAKER_REWARD_AMOUNT">> >>)

TransactionOutput_check(o) == FirstError(<<
    <<o.public_ephemeral = Z, "TX_OUTPUT_PUBLIC_EPHEMERAL">>,
    <<o.amount = 0, "TX_OUTPUT_AMOUNT">>,
    <<o.commitment = Z, "TX_OUTPUT_COMMITMENT">> >>)

\* The loops over outputs: the first bad output's own error
OutputChecks(outputs) ==
    [i \in DOMAIN outputs |-> <<TransactionOutput_check(outputs[i]) # "SUCCESS",
                                TransactionOutput_check(outputs[i])>>]
StakerOutputChecks(outputs) ==
    [i \in DOMAIN outputs |-> <<StakerOutput_check(outputs[i]) # "SUCCESS",
                                StakerOutput_check(outputs[i])>>]

genesis_check(tx) == FirstError(<<
    <<tx.version # 1, "TX_INVALID_VERSION">>,
    <<tx.public_key = Z, "TX_PUBLIC_KEY">>,
    <<tx.secret_key = Z, "TX_SECRET_KEY">>,
    <<tx.secret_key # Z /\ secret_key_to_public_key(tx.secret_key) # tx.public_key, "TX_KEYPAIR_MISMATCH">>,
    <<Len(tx.outputs) # RING_SIZE * 2, "TX_INVALID_OUTPUT_COUNT">> >> \o OutputChecks(tx.outputs))

staker_check(tx) == FirstError(<<<<tx.version # 1, "TX_INVALID_VERSION">>>>
    \o StakerOutputChecks(tx.staker_outputs) \o StakerOutputChecks(tx.staker_penalties))

refund_check(tx) == FirstError(<<
    <<tx.version # 1, "TX_INVALID_VERSION">>,
    <<tx.public_key = Z, "TX_PUBLIC_KEY">>,
    <<tx.secret_key = Z, "TX_SECRET_KEY">>,
    <<tx.secret_key # Z /\ secret_key_to_public_key(tx.secret_key) # tx.public_key, "TX_KEYPAIR_MISMATCH">>,
    <<tx.recall_stake_tx = Z, "TX_RECALL_STAKE_TX_HASH">>,
    <<Len(tx.outputs) # 1, "TX_INVALID_OUTPUT_COUNT">> >> \o OutputChecks(tx.outputs))

\* The checks that every user transaction repeats
UserChecks(tx, versions) == <<
    <<tx.version \notin versions, "TX_INVALID_VERSION">>,
    <<tx.public_key = Z, "TX_PUBLIC_KEY">>,
    <<tx.fee = 0, "TX_MISSING_FEE">>,
    <<Len(tx.key_images) \notin 1..MAXIMUM_INPUTS, "TX_INVALID_INPUT_COUNT">>,
    <<Torsion \in ToSet(tx.key_images), "TX_INVALID_KEY_IMAGE">>,
    <<Cardinality(ToSet(tx.key_images)) # Len(tx.key_images), "TX_DUPLICATE_KEY_IMAGE">>,
    <<Len(tx.outputs) \notin MINIMUM_OUTPUTS..MAXIMUM_OUTPUTS, "TX_INVALID_OUTPUT_COUNT">> >>
    \o OutputChecks(tx.outputs)

\* The checks that every uncommitted transaction repeats
SignatureChecks(tx) == <<
    <<Len(tx.key_images) # Len(tx.pseudo_commitments), "TX_INVALID_PSEUDO_COMMITMENT_COUNT">>,
    <<~check_commitments_parity(tx.pseudo_commitments,
          [i \in DOMAIN tx.outputs |-> tx.outputs[i].commitment], tx.fee), "TX_COMMITMENTS_DO_NOT_BALANCE">>,
    <<~tx.range_proof[2], "TX_INVALID_RANGE_PROOF">>,
    <<Len(tx.key_images) # Len(tx.signatures), "TX_SIG_SIZE_MISMATCH">>,
    <<\E i \in DOMAIN tx.signatures : tx.signatures[i][2] # RING_SIZE, "TX_INVALID_SIGNATURE">> >>

ExtraChecks(tx) == <<<<Len(tx.extra) > MAXIMUM_EXTRA_SIZE, "TX_EXTRA_TOO_LARGE">>>>

StakeChecks(tx) == <<
    <<tx.stake_amount = 0, "TX_STAKE_NO_AMOUNT">>,
    <<tx.candidate_public_key = Z, "STAKING_CANDIDATE_NOT_FOUND">>,
    <<tx.staker_public_view_key = Z, "TX_PUBLIC_VIEW_KEY_NOT_FOUND">>,
    <<tx.staker_public_spend_key = Z, "TX_PUBLIC_SPEND_KEY_NOT_FOUND">> >>

RecallChecks(tx) == <<
    <<tx.stake_amount = 0, "TX_STAKE_NO_AMOUNT">>,
    <<tx.candidate_public_key = Z, "STAKING_CANDIDATE_NOT_FOUND">>,
    <<tx.staker_id = Z, "TX_STAKER_ID">>,
    <<tx.view_signature = Z, "TX_RECALL_VIEW_SIGNATURE">>,
    <<tx.spend_signature = Z, "TX_RECALL_SPEND_SIGNATURE">> >>

\* The third comparison is of the view key with itself, as in the code: no
\* uncommitted stake transaction passes
KeyReuseChecks(tx) == <<
    << \/ tx.candidate_public_key = tx.staker_public_view_key
       \/ tx.candidate_public_key = tx.staker_public_spend_key
       \/ tx.staker_public_view_key = tx.staker_public_view_key, "TX_STAKING_PUBLIC_KEYS_REUSE">> >>

committed_normal_check(tx) == FirstError(UserChecks(tx, {1}) \o ExtraChecks(tx))
uncommitted_normal_check(tx) == FirstError(UserChecks(tx, {1}) \o ExtraChecks(tx) \o SignatureChecks(tx))
committed_stake_check(tx) == FirstError(UserChecks(tx, {1, 2}) \o StakeChecks(tx))
uncommitted_stake_check(tx) ==
    FirstError(UserChecks(tx, {1, 2}) \o StakeChecks(tx) \o KeyReuseChecks(tx) \o SignatureChecks(tx))
committed_recall_check(tx) == FirstError(UserChecks(tx, {1, 2}) \o RecallChecks(tx))
uncommitted_recall_check(tx) == FirstError(UserChecks(tx, {1, 2}) \o RecallChecks(tx) \o SignatureChecks(tx))

-----------------------------------------------------------------------------
(* Hashes.  d is the digest's field list of the kind *)

signature_hash(tx) == sha3(Written(serialize_signatures, tx))
range_proof_hash(tx) == sha3(<<tx.range_proof>>)

digest(d, tx) == sha3(Written(d, tx))

committed_hash(d, tx) == sha3(<<digest(d, tx), tx.signature_hash, tx.range_proof_hash>>)
uncommitted_hash(d, tx) == sha3(<<digest(d, tx), signature_hash(tx), range_proof_hash(tx)>>)

committed_pow_hash(d, tx) == argon2id(sha3(<<Written(d, tx), tx.range_proof_hash>>))
uncommitted_pow_hash(d, tx) == argon2id(sha3(<<Written(d, tx), range_proof_hash(tx)>>))

\* The luck of a hash: the proof of work of a transaction with nonce n has
\* n leading zeros.  The nonce is the token behind a prefix of four.
leading_zeros(h) == h[2][2][1][5][2]

\* mine tries the nonce at hand, then 1, 2, ... up to the limit
mine(d, tx, zeros) ==
    LET at(n) == leading_zeros(uncommitted_pow_hash(d, [tx EXCEPT !.nonce = n]))
        tried == {n \in 1..MaxNonce : at(n) >= zeros}
    IN  IF at(tx.nonce) >= zeros THEN tx
        ELSE [tx EXCEPT !.nonce = IF tried = {} THEN MaxNonce ELSE Min(tried)]

\* size and committed_size; the latter takes two hashes for the suffix
committed_size(d, tx) == Size(Written(d, tx)) + 32 + 32

\* to_committed starts from a new committed transaction, whose type is its own
to_committed_normal(tx) ==
    [type |-> TransactionType.NORMAL, version |-> tx.version, unlock_block |-> tx.unlock_block,
     public_key |-> tx.public_key, nonce |-> tx.nonce, fee |-> tx.fee, key_images |-> tx.key_images,
     outputs |-> tx.outputs, extra |-> tx.extra,
     signature_hash |-> signature_hash(tx), range_proof_hash |-> range_proof_hash(tx)]
to_committed_stake(tx) ==
    [type |-> TransactionType.STAKE, version |-> tx.version, unlock_block |-> tx.unlock_block,
     public_key |-> tx.public_key, nonce |-> tx.nonce, fee |-> tx.fee, key_images |-> tx.key_images,
     outputs |-> tx.outputs, stake_amount |-> tx.stake_amount,
     candidate_public_key |-> tx.candidate_public_key,
     staker_public_view_key |-> tx.staker_public_view_key,
     staker_public_spend_key |-> tx.staker_public_spend_key,
     signature_hash |-> signature_hash(tx), range_proof_hash |-> range_proof_hash(tx)]
to_committed_recall_unsigned(tx) ==
    [type |-> TransactionType.RECALL_STAKE, version |-> tx.version, unlock_block |-> tx.unlock_block,
     public_key |-> tx.public_key, nonce |-> tx.nonce, fee |-> tx.fee, key_images |-> tx.key_images,
     outputs |-> tx.outputs, staker_id |-> tx.staker_id,
     candidate_public_key |-> tx.candidate_public_key, stake_amount |-> tx.stake_amount,
     view_signature |-> Z, spend_signature |-> tx.spend_signature,
     signature_hash |-> signature_hash(tx), range_proof_hash |-> range_proof_hash(tx)]
to_committed_recall(tx) ==
    [type |-> TransactionType.RECALL_STAKE, version |-> tx.version, unlock_block |-> tx.unlock_block,
     public_key |-> tx.public_key, nonce |-> tx.nonce, fee |-> tx.fee, key_images |-> tx.key_images,
     outputs |-> tx.outputs, staker_id |-> tx.staker_id,
     candidate_public_key |-> tx.candidate_public_key, stake_amount |-> tx.stake_amount,
     view_signature |-> tx.view_signature, spend_signature |-> tx.spend_signature,
     signature_hash |-> signature_hash(tx), range_proof_hash |-> range_proof_hash(tx)]

-----------------------------------------------------------------------------
(* TransactionValidator::check.  error is what check_construction returned, *)
(* d and fields the field lists of the kind's digest and of its bytes       *)

check_pow_zeros(zeros) == IF zeros < MINIMUM_POW_ZEROS THEN "TX_MINIMUM_POW" ELSE "SUCCESS"

PaidFor(tx, size, zeros) ==
    IF check_pow_zeros(zeros) # "SUCCESS" THEN check_pow_zeros(zeros)
    ELSE IF tx.fee < calculate_transaction_fee(size, zeros) THEN "TX_LOW_FEE"
    ELSE "SUCCESS"

check_uncommitted(error, d, fields, tx) ==
    IF error # "SUCCESS" THEN error
    ELSE PaidFor(tx, Size(Written(fields, tx)), leading_zeros(uncommitted_pow_hash(d, tx)))

check_committed(error, d, fields, tx) ==
    IF error # "SUCCESS" THEN error
    ELSE PaidFor(tx, Size(Written(fields, tx)), leading_zeros(committed_pow_hash(d, tx)))
=============================================================================
