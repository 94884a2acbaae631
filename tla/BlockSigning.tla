---------------------------- MODULE BlockSigning ----------------------------
(***************************************************************************)
(* block_t and its signatures.  Several nodes hold copies of a block under *)
(* construction: it is signed with the secret keys of a producer and of    *)
(* validators, transactions are still appended, the signatures that        *)
(* producer_sign and validator_sign return are passed on and appended      *)
(* elsewhere, public members are assigned, and whole copies travel as      *)
(* bytes or JSON.  Nothing in the repository orders these calls, so they   *)
(* may come in any order.                                                  *)
(*                                                                         *)
(* A signature names its signer and the digest it signed: it cannot be     *)
(* forged and fits no other digest.                                        *)
(***************************************************************************)
EXTENDS Structures

CONSTANTS Nodes,       \* each with its copy of the block
          Keys,        \* key pairs, by their public key
          Hashes,      \* transaction hashes
          MaxChanges,  \* signatures made and members assigned in all
          MaxAssigns,  \* members assigned in all
          MaxSends     \* copies sent in all

ASSUME BoundsAssumption == {MaxChanges, MaxAssigns, MaxSends} \subseteq Nat

\* No public key is the unset key
ASSUME KeysAssumption == Z \notin Keys

VARIABLES blk,         \* each node's copy
          sigs,        \* the (key, signature) pairs handed out by the sign methods
          copy,        \* a copy on its way, and what was read of it
          assigns,     \* members assigned so far
          sends,       \* copies sent so far
          signed       \* history: who signed what, in which role

block_vars == <<blk, sigs, copy, assigns, sends, signed>>

-----------------------------------------------------------------------------
(* The block's bytes *)

BLOCK_DIGEST_FULL == "full"
BLOCK_DIGEST_PRODUCER == "producer"
BLOCK_DIGEST_VALIDATOR == "validator"

RewardFields(type) == IF type = TransactionType.GENESIS THEN genesis_serialize ELSE staker_serialize

block_fields == <<varint("version"), key("previous_blockhash"), varint("timestamp"), varint("block_index")>>
boolean(n) == Field(n, "boolean", <<>>)
producer_flag == <<boolean("has_producer")>>
producer_fields(has) == IF has THEN <<key("producer_public_key"), signature("producer_signature")>> ELSE <<>>
transaction_fields == <<keyV("transactions")>>
validator_fields == <<key("public_key"), signature("signature")>>
vote_fields == <<vector("votes", validator_fields)>>

has_producer(b) == b.producer_public_key # Z /\ b.producer_signature # Z

\* std::set and std::map are visited in the order of their keys: equal
\* containers give equal sequences
Ordered(S) == SetToSeq(S)
Votes(b) == LET keys == Ordered(DOMAIN b.validator_signatures)
            IN  [i \in DOMAIN keys |-> [public_key |-> keys[i],
                                        signature |-> b.validator_signatures[keys[i]]]]

content(b) == Written(block_fields, b)
                \o Written(RewardFields(b.reward_tx.type), b.reward_tx)
                \o Written(transaction_fields, [transactions |-> Ordered(b.transactions)])
producer(b) == Written(producer_flag, [has_producer |-> has_producer(b)])
                 \o Written(producer_fields(has_producer(b)), b)
validators(b) == Written(vote_fields, [votes |-> Votes(b)])

serialize_role_blind(b, mode) ==
    content(b) \o (IF mode = BLOCK_DIGEST_FULL THEN producer(b) \o validators(b) ELSE <<>>)
serialize_no_validators(b, mode) ==
    content(b) \o (IF mode = BLOCK_DIGEST_PRODUCER THEN <<>> ELSE producer(b))

\* VALIDATOR mode throws without a producer: see can_digest
block_serialize(b, mode) ==
    CASE mode = BLOCK_DIGEST_PRODUCER -> content(b)
      [] mode = BLOCK_DIGEST_VALIDATOR -> content(b) \o producer(b)
      [] mode = BLOCK_DIGEST_FULL -> content(b) \o producer(b) \o validators(b)

can_digest(b, mode) == mode = BLOCK_DIGEST_VALIDATOR => has_producer(b)

message_digest(b, mode) == sha3(block_serialize(b, mode))
hash_of_content(b) == message_digest(b, BLOCK_DIGEST_PRODUCER)
hash(b) == message_digest(b, BLOCK_DIGEST_FULL)

\* The first entry of a key stays: insert and append_validator_signature do
\* not replace
MapOf(votes) ==
    [k \in {votes[i].public_key : i \in DOMAIN votes} |->
        votes[Min({i \in DOMAIN votes : votes[i].public_key = k})].signature]

\* header holds version to block_index
Block(header, reward, transactions, public_key, sig, votes) ==
    [version |-> header.version, previous_blockhash |-> header.previous_blockhash,
     timestamp |-> header.timestamp, block_index |-> header.block_index,
     reward_tx |-> reward, transactions |-> transactions,
     producer_public_key |-> public_key, producer_signature |-> sig, validator_signatures |-> votes]

\* Of a producer with only a key, or only a signature, nothing is written
AsWritten(b) ==
    IF has_producer(b) THEN b
    ELSE Block(b, b.reward_tx, b.transactions, Z, Z, b.validator_signatures)

\* The type of the reward transaction is looked at before it is read
reward_fields(in) ==
    LET type == IF in = <<>> THEN <<"end", 0>> ELSE Head(in)
    IN  CASE type = <<"varint", TransactionType.GENESIS>> -> genesis_deserialize
          [] type = <<"varint", TransactionType.STAKER>> -> staker_deserialize
          [] OTHER -> <<>>

\* The object that is read into is a new block, without a producer
block_deserialize(data) ==
    LET header == ReadFields(Reader(data), block_fields)
        reward == ReadFields(Reader(header.in), reward_fields(header.in))
        txs == ReadFields(Reader(reward.in), transaction_fields)
        flag == ReadFields(Reader(txs.in), producer_flag)
        has == flag.ok /\ flag.out.has_producer
        maker == ReadFields(Reader(flag.in), producer_fields(has))
        votes == ReadFields(Reader(maker.in), vote_fields)
    IN  IF header.ok /\ reward_fields(header.in) # <<>> /\ reward.ok /\ txs.ok /\ flag.ok /\ maker.ok /\ votes.ok
        THEN [ok |-> TRUE, in |-> votes.in,
              out |-> Block(header.out, reward.out, ToSet(txs.out.transactions),
                            IF has THEN maker.out.producer_public_key ELSE Z,
                            IF has THEN maker.out.producer_signature ELSE Z,
                            MapOf(votes.out.votes))]
        ELSE Thrown

-----------------------------------------------------------------------------
(* The block's JSON *)

JsonPair(k, s) == ToJSON(validator_fields, [public_key |-> k, signature |-> s])

\* For every validator signature the producer's key and signature are written
block_toJSON(b) ==
    LET members == Names(block_fields) \cup {"reward_tx", "transactions"}
                     \cup (IF has_producer(b) THEN {"producer_signature"} ELSE {})
                     \cup (IF b.validator_signatures # <<>> THEN {"validator_signatures"} ELSE {})
        pair == JsonPair(b.producer_public_key, b.producer_signature)
    IN  [n \in members |->
            CASE n = "reward_tx" -> <<"object", IF b.reward_tx.type = TransactionType.GENESIS
                                                THEN ToJSON(genesis_toJSON, b.reward_tx)
                                                ELSE ToJSON(staker_toJSON, b.reward_tx)>>
              [] n = "transactions" -> <<"array", Ordered(b.transactions)>>
              [] n = "producer_signature" -> <<"object", pair>>
              [] n = "validator_signatures" -> <<"array", [i \in DOMAIN Votes(b) |-> pair]>>
              [] OTHER -> ToJSON(block_fields, b)[n]]

block_fromJSON(j) ==
    LET header == FromJSON(block_fields, j)
        reward == FromJSON(IF j.reward_tx[2].type[2] = TransactionType.GENESIS
                           THEN genesis_fromJSON ELSE staker_fromJSON, j.reward_tx[2])
        maker == IF "producer_signature" \in DOMAIN j
                    THEN FromJSON(validator_fields, j.producer_signature[2]).out
                    ELSE [public_key |-> Z, signature |-> Z]
        votes == IF "validator_signatures" \in DOMAIN j
                 THEN [i \in DOMAIN j.validator_signatures[2] |->
                          FromJSON(validator_fields, j.validator_signatures[2][i]).out]
                 ELSE <<>>
    IN  [ok |-> header.ok /\ reward.ok, in |-> <<>>,
         out |-> Block(header.out, reward.out, ToSet(j.transactions[2]),
                       maker.public_key, maker.signature, MapOf(votes))]

-----------------------------------------------------------------------------
(* Signatures *)

generate_signature(d, k) == <<"signature", k, d>>
check_signature(d, k, s) == s = generate_signature(d, k)

validate_producer_signature(b) ==
    check_signature(message_digest(b, BLOCK_DIGEST_PRODUCER), b.producer_public_key, b.producer_signature)

validate_validator_signatures(b) ==
    /\ b.validator_signatures # <<>>
    /\ can_digest(b, BLOCK_DIGEST_VALIDATOR)
    /\ \A k \in DOMAIN b.validator_signatures :
          check_signature(message_digest(b, BLOCK_DIGEST_VALIDATOR), k, b.validator_signatures[k])

validate_construction(b) ==
    /\ IF b.reward_tx.type = TransactionType.GENESIS
       THEN b.reward_tx.outputs # <<>> ELSE b.reward_tx.staker_outputs # <<>>
    /\ b.producer_public_key \notin DOMAIN b.validator_signatures
    /\ validate_producer_signature(b)
    /\ validate_validator_signatures(b)

\* What a signature is meant to cover
Content(b) == [version |-> b.version, previous_blockhash |-> b.previous_blockhash,
               timestamp |-> b.timestamp, block_index |-> b.block_index,
               reward_tx |-> b.reward_tx, transactions |-> b.transactions]

\* std::map::insert leaves an entry that is there
inserted(votes, k, s) == [x \in DOMAIN votes \cup {k} |-> IF x \in DOMAIN votes THEN votes[x] ELSE s]

-----------------------------------------------------------------------------
NoCopy == [form |-> "none", of |-> <<>>, got |-> Thrown, cut |-> {}]

Genesis == [type |-> TransactionType.GENESIS, version |-> 1, unlock_block |-> 0, public_key |-> <<"g">>,
            secret_key |-> <<"s">>,
            outputs |-> <<[public_ephemeral |-> <<"e">>, amount |-> 1, commitment |-> <<"c">>]>>]
Staker(outputs) == [type |-> TransactionType.STAKER, version |-> 1, staker_outputs |-> outputs,
                    staker_penalties |-> <<>>]

FirstStaker == Staker(<<[staker_id |-> <<"i">>, amount |-> 1]>>)
Rewards == {Genesis, FirstStaker}

NewHeader == [version |-> 1, timestamp |-> 0, block_index |-> 0, previous_blockhash |-> Z]
\* Other values of its members
Header == [version |-> 2, timestamp |-> 1, block_index |-> 1, previous_blockhash |-> <<"p">>]

\* New blocks, with a reward and nothing else
BlockInit ==
    /\ blk = [p \in Nodes |-> Block(NewHeader, FirstStaker, {}, Z, Z, <<>>)]
    /\ sigs = {}
    /\ copy = NoCopy
    /\ assigns = 0 /\ sends = 0
    /\ signed = {}

More == Cardinality(signed) + assigns < MaxChanges

\* The members are public: a caller assigns one of them, and the others, the
\* signatures among them, stay
assign_member(p, b) ==
    /\ More /\ assigns < MaxAssigns /\ b # blk[p]
    /\ assigns' = assigns + 1
    /\ blk' = [blk EXCEPT ![p] = b]
    /\ UNCHANGED <<sigs, copy, sends, signed>>

assign_header(p, n) ==
    LET b == blk[p]
    IN  assign_member(p, Block([b EXCEPT ![n] = Header[n]], b.reward_tx, b.transactions,
                               b.producer_public_key, b.producer_signature, b.validator_signatures))

assign_reward_tx(p, r) ==
    LET b == blk[p]
    IN  assign_member(p, Block(b, r, b.transactions, b.producer_public_key, b.producer_signature,
                               b.validator_signatures))

assign_producer_public_key(p, k) ==
    LET b == blk[p]
    IN  assign_member(p, Block(b, b.reward_tx, b.transactions, k, b.producer_signature,
                               b.validator_signatures))

\* One that was made, or one of random scalars
Assignable(S) == {<<"random">>} \cup {v.signature : v \in S}
assign_producer_signature(p, s) ==
    LET b == blk[p]
    IN  assign_member(p, Block(b, b.reward_tx, b.transactions, b.producer_public_key, s,
                               b.validator_signatures))

append_transaction_hash(p, h) ==
    /\ blk' = [blk EXCEPT ![p].transactions = @ \cup {h}]
    /\ UNCHANGED <<sigs, copy, assigns, sends, signed>>

\* The key is set before the digest is taken; PRODUCER mode leaves it out
producer_sign(p, k) ==
    LET s == generate_signature(message_digest(blk[p], BLOCK_DIGEST_PRODUCER), k)
    IN  /\ More
        /\ blk' = [blk EXCEPT ![p].producer_public_key = k, ![p].producer_signature = s]
        /\ sigs' = sigs \cup {[public_key |-> k, signature |-> s]}
        /\ signed' = signed \cup {[key |-> k, role |-> "producer", content |-> Content(blk[p]),
                                   producer |-> k]}
        /\ UNCHANGED <<copy, assigns, sends>>

\* Throws without a producer signature
validator_sign(p, k) ==
    LET s == generate_signature(message_digest(blk[p], BLOCK_DIGEST_VALIDATOR), k)
    IN  /\ More
        /\ can_digest(blk[p], BLOCK_DIGEST_VALIDATOR)
        /\ blk' = [blk EXCEPT ![p].validator_signatures = inserted(@, k, s)]
        /\ sigs' = sigs \cup {[public_key |-> k, signature |-> s]}
        /\ signed' = signed \cup {[key |-> k, role |-> "validator", content |-> Content(blk[p]),
                                   producer |-> blk[p].producer_public_key]}
        /\ UNCHANGED <<copy, assigns, sends>>

append_validator_signature(p, v) ==
    /\ v.public_key \notin DOMAIN blk[p].validator_signatures
    /\ blk' = [blk EXCEPT ![p].validator_signatures = inserted(@, v.public_key, v.signature)]
    /\ UNCHANGED <<sigs, copy, assigns, sends, signed>>

\* A copy is written and what arrives is read; it is taken over later.  cut
\* holds the lengths at which a copy that was cut short would still be read.
send_bytes(p) ==
    LET data == block_serialize(blk[p], BLOCK_DIGEST_FULL)
    IN  /\ copy = NoCopy /\ sends < MaxSends
        /\ copy' = [form |-> "bytes", of |-> blk[p], got |-> block_deserialize(data),
                    cut |-> {n \in 0..(Len(data) - 1) : block_deserialize(SubSeq(data, 1, n)).ok}]
        /\ sends' = sends + 1
        /\ UNCHANGED <<blk, sigs, assigns, signed>>

send_JSON(p) ==
    /\ copy = NoCopy /\ sends < MaxSends
    /\ copy' = [form |-> "json", of |-> blk[p], got |-> block_fromJSON(block_toJSON(blk[p])), cut |-> {}]
    /\ sends' = sends + 1
    /\ UNCHANGED <<blk, sigs, assigns, signed>>

\* A block that cannot be read is dropped
take(p) ==
    /\ copy # NoCopy
    /\ blk' = IF copy.got.ok THEN [blk EXCEPT ![p] = copy.got.out] ELSE blk
    /\ copy' = NoCopy
    /\ UNCHANGED <<sigs, assigns, sends, signed>>

BlockNext ==
    \/ \E p \in Nodes :
         \/ \E h \in Hashes : append_transaction_hash(p, h)
         \/ \E k \in Keys : producer_sign(p, k)
         \/ \E k \in Keys : validator_sign(p, k)
         \/ \E v \in sigs : append_validator_signature(p, v)
         \/ \E n \in DOMAIN Header : assign_header(p, n)
         \/ \E r \in Rewards : assign_reward_tx(p, r)
         \/ \E k \in Keys : assign_producer_public_key(p, k)
         \/ \E s \in Assignable(sigs) : assign_producer_signature(p, s)
         \/ send_bytes(p)
         \/ send_JSON(p)
         \/ take(p)

BlockSpec == BlockInit /\ [][BlockNext]_block_vars

-----------------------------------------------------------------------------
(* Properties *)

\* A copy that validate_construction accepts was signed, as it stands, by its
\* producer, and by each of its validators after that producer: no signature
\* made before the last change of the content, under another producer, or in
\* the other role, passes
ValidIsSigned ==
    \A p \in Nodes :
        LET b == blk[p]
            by(k, role) == [key |-> k, role |-> role, content |-> Content(b),
                            producer |-> b.producer_public_key]
        IN  validate_construction(b) =>
              /\ by(b.producer_public_key, "producer") \in signed
              /\ \A k \in DOMAIN b.validator_signatures :
                    by(k, "validator") \in signed /\ k # b.producer_public_key

\* Copies with one hash are one block: BlockchainStorage stores and finds
\* blocks by that hash.  Only a producer with a key and no signature, or the
\* reverse, is not told from none
HashFixesBlock ==
    \A p, q \in Nodes : hash(blk[p]) = hash(blk[q]) => AsWritten(blk[p]) = AsWritten(blk[q])

\* A copy that arrives whole as bytes is the block that was sent, hash and
\* signatures included, but for half a producer; cut short anywhere,
\* deserialize refuses it.  (JSON copies come with other votes.)
BlockReadBack ==
    copy.form = "bytes" =>
        /\ copy.got.ok /\ copy.got.in = <<>> /\ copy.got.out = AsWritten(copy.of)
        /\ copy.cut = {}
=============================================================================
