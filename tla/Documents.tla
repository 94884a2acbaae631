----------------------------- MODULE Documents -----------------------------
(***************************************************************************)
(* The life of one object of any of the structures: constructed, its       *)
(* public members assigned, mined, turned into its committed form, written *)
(* as bytes or JSON, perhaps cut short on its way (a message part or a     *)
(* database record that was truncated), and read by another object's       *)
(* constructor.  Reading always goes into a new object, so that one which  *)
(* throws half way leaves nothing behind.                                  *)
(***************************************************************************)
EXTENDS Transactions

CONSTANTS MaxEdits   \* member assignments between construction and writing

ASSUME MaxEditsAssumption == MaxEdits \in Nat

VARIABLES doc,      \* the object: its structure and its members
          edits,    \* assignments so far
          wire,     \* what was written of it
          got       \* the object that was read

vars == <<doc, edits, wire, got>>

-----------------------------------------------------------------------------
(* The methods of each structure *)

Methods(ser, deser, to, from) == [serialize |-> ser, deserialize |-> deser, toJSON |-> to, fromJSON |-> from]

Structure == [
    genesis_transaction_t |-> Methods(genesis_serialize, genesis_deserialize, genesis_toJSON, genesis_fromJSON),
    staker_transaction_t |-> Methods(staker_serialize, staker_deserialize, staker_toJSON, staker_fromJSON),
    stake_refund_transaction_t |-> Methods(refund_serialize, refund_deserialize, refund_toJSON, refund_fromJSON),
    committed_normal_transaction_t |-> Methods(committed_normal_serialize, committed_normal_deserialize,
        committed_normal_toJSON, committed_normal_fromJSON),
    uncommited_normal_transaction_t |-> Methods(uncommitted_normal_serialize, uncommitted_normal_deserialize,
        uncommitted_normal_toJSON, uncommitted_normal_fromJSON),
    committed_stake_transaction_t |-> Methods(committed_stake_serialize, committed_stake_deserialize,
        committed_stake_toJSON, committed_stake_fromJSON),
    uncommitted_stake_transaction_t |-> Methods(uncommitted_stake_serialize, uncommitted_stake_deserialize,
        uncommitted_stake_toJSON, uncommitted_stake_fromJSON),
    committed_recall_stake_transaction_t |-> Methods(committed_recall_serialize, committed_recall_deserialize,
        committed_recall_toJSON, committed_recall_fromJSON),
    uncommitted_recall_stake_transaction_t |-> Methods(uncommitted_recall_serialize,
        uncommitted_recall_deserialize, uncommitted_recall_toJSON, uncommitted_recall_fromJSON),
    transaction_output_t |-> Methods(TransactionOutput_serialize, TransactionOutput_deserialize,
        TransactionOutput_toJSON, TransactionOutput_fromJSON),
    staker_output_t |-> Methods(StakerOutput_serialize, StakerOutput_deserialize,
        StakerOutput_toJSON, StakerOutput_fromJSON),
    candidate_node_t |-> Methods(candidate_serialize, candidate_deserialize, candidate_toJSON, candidate_fromJSON),
    stake_t |-> Methods(stake_serialize, stake_deserialize, stake_toJSON, stake_fromJSON),
    network_peer_t |-> Methods(peer_serialize, peer_deserialize, peer_toJSON, peer_fromJSON),
    packet_handshake_t |-> Methods(handshake_serialize, handshake_deserialize, handshake_toJSON, handshake_fromJSON),
    packet_peer_exchange_t |-> Methods(peer_exchange_serialize, peer_exchange_deserialize,
        peer_exchange_toJSON, peer_exchange_fromJSON),
    packet_keepalive_t |-> Methods(keepalive_serialize, keepalive_deserialize, keepalive_toJSON, keepalive_fromJSON),
    packet_data_t |-> Methods(data_serialize, data_deserialize, data_toJSON, data_fromJSON)]

\* l_type as the constructors set it
l_type == [
    genesis_transaction_t |-> TransactionType.GENESIS,
    staker_transaction_t |-> TransactionType.STAKER,
    stake_refund_transaction_t |-> TransactionType.STAKE_REFUND,
    committed_normal_transaction_t |-> TransactionType.NORMAL,
    uncommited_normal_transaction_t |-> TransactionType.NORMAL,
    committed_stake_transaction_t |-> TransactionType.STAKE,
    uncommitted_stake_transaction_t |-> TransactionType.STAKE,
    committed_recall_stake_transaction_t |-> TransactionType.RECALL_STAKE,
    uncommitted_recall_stake_transaction_t |-> TransactionType.RECALL_STAKE,
    packet_handshake_t |-> NetworkPacketTypes.NETWORK_HANDSHAKE,
    packet_peer_exchange_t |-> NetworkPacketTypes.NETWORK_PEER_EXCHANGE,
    packet_keepalive_t |-> NetworkPacketTypes.NETWORK_KEEPALIVE,
    packet_data_t |-> NetworkPacketTypes.NETWORK_DATA]

\* The user transactions: digest, check_construction and to_committed
Uncommitted == [
    uncommited_normal_transaction_t |-> "committed_normal_transaction_t",
    uncommitted_stake_transaction_t |-> "committed_stake_transaction_t",
    uncommitted_recall_stake_transaction_t |-> "committed_recall_stake_transaction_t"]

Digest == [
    uncommited_normal_transaction_t |-> uncommitted_normal_digest,
    uncommitted_stake_transaction_t |-> uncommitted_stake_digest,
    uncommitted_recall_stake_transaction_t |-> uncommitted_recall_digest,
    committed_normal_transaction_t |-> committed_normal_digest,
    committed_stake_transaction_t |-> committed_stake_digest,
    committed_recall_stake_transaction_t |-> committed_recall_digest]

check_construction(kind, tx) ==
    CASE kind = "uncommited_normal_transaction_t" -> uncommitted_normal_check(tx)
      [] kind = "uncommitted_stake_transaction_t" -> uncommitted_stake_check(tx)
      [] kind = "uncommitted_recall_stake_transaction_t" -> uncommitted_recall_check(tx)
      [] kind = "committed_normal_transaction_t" -> committed_normal_check(tx)
      [] kind = "committed_stake_transaction_t" -> committed_stake_check(tx)
      [] kind = "committed_recall_stake_transaction_t" -> committed_recall_check(tx)
      [] kind = "genesis_transaction_t" -> genesis_check(tx)
      [] kind = "staker_transaction_t" -> staker_check(tx)
      [] kind = "stake_refund_transaction_t" -> refund_check(tx)

to_committed(kind, tx) ==
    CASE kind = "uncommited_normal_transaction_t" -> to_committed_normal(tx)
      [] kind = "uncommitted_stake_transaction_t" -> to_committed_stake(tx)
      [] kind = "uncommitted_recall_stake_transaction_t" -> to_committed_recall(tx)

check(kind, tx) ==
    IF kind \in DOMAIN Uncommitted
    THEN check_uncommitted(check_construction(kind, tx), Digest[kind], Structure[kind].serialize, tx)
    ELSE check_committed(check_construction(kind, tx), Digest[kind], Structure[kind].serialize, tx)

-----------------------------------------------------------------------------
(* Values of members *)

K1 == <<"k1">>
K2 == <<"k2">>
V4 == normalize_v4_embedded([flags |-> {"IPV4_COMPAT"}, components |-> <<10, 1, 0, 0, 0, 0, 0, 0>>])
V6 == [flags |-> {}, components |-> <<1, 2, 3, 4, 5, 6, 7, 8>>]
output(e, a, c) == [public_ephemeral |-> e, amount |-> a, commitment |-> c]
peer(a) == [address |-> a, port |-> 1, peer_id |-> K1, network_id |-> K2, last_seen |-> 3]

Default(f) == CASE f.kind = "varint" -> IF f.name \in {"version", "record_version"} THEN 1 ELSE 0
                [] f.kind = "proof" -> <<"proof", FALSE>>
                [] f.kind = "address" -> [flags |-> {}, components |-> <<0, 0, 0, 0, 0, 0, 0, 0>>]
                [] OTHER -> <<>>

\* An object of the default constructor
New(kind) ==
    LET fields == Structure[kind].serialize
    IN  [n \in Names(fields) |-> IF n = "type" THEN l_type[kind] ELSE Default(FieldNamed(fields, n))]

\* Values to assign.  l_type and record_version are not public.
ValuesOf == [
    fee |-> {0, 1, 4, 12},
    nonce |-> {0, 1, MaxNonce},
    secret_key |-> {SecretKey(K1), SecretKey(K2)},
    key_images |-> {<<K1>>, <<K1, K1>>, <<Torsion>>, <<K2, K1>>},
    pseudo_commitments |-> {<<Commitment(6)>>, <<Commitment(14)>>},
    ring_participants |-> {<<K1, K2>>},
    signatures |-> {<<<<"clsag", RING_SIZE>>>>, <<<<"clsag", RING_SIZE + 1>>>>},
    outputs |-> {<<output(K1, 1, Commitment(1))>>,
                 <<output(K1, 1, Commitment(1)), output(K2, 2, Commitment(1))>>,
                 <<output(K1, 1, Commitment(1)), output(Z, 2, Z)>>},
    staker_outputs |-> {<<[staker_id |-> K1, amount |-> 2]>>},
    staker_penalties |-> {<<[staker_id |-> K1, amount |-> 2]>>},
    peers |-> {<<peer(V4)>>, <<peer(V6), peer(V4)>>}]

Values(f) ==
    IF f.name \in {"type", "record_version"} THEN {}
    ELSE IF f.name \in DOMAIN ValuesOf THEN ValuesOf[f.name]
    ELSE CASE f.kind = "varint" -> {0, 2, 3}
           [] f.kind \in {"key", "signature"} -> {K1, K2}
           [] f.kind = "proof" -> {<<"proof", TRUE>>}
           [] f.kind = "bytes" -> {<<7>>, <<7, 8>>}
           [] f.kind = "address" -> {V4, V6}

\* A transaction that passes every check, to start from
SampleOf == [
    fee |-> 12,
    nonce |-> 1,
    key_images |-> <<K1>>,
    outputs |-> <<output(K1, 1, Commitment(1)), output(K2, 2, Commitment(1))>>,
    pseudo_commitments |-> <<Commitment(14)>>,
    signatures |-> <<<<"clsag", RING_SIZE>>>>,
    range_proof |-> <<"proof", TRUE>>,
    staker_public_spend_key |-> K2]

Sample(kind) ==
    [n \in Names(Structure[kind].serialize) |->
        LET f == FieldNamed(Structure[kind].serialize, n)
        IN  IF n \in {"type", "version"} THEN New(kind)[n]
            ELSE IF n \in DOMAIN SampleOf THEN SampleOf[n]
            ELSE CASE f.kind = "varint" -> 1
                   [] f.kind \in {"key", "signature"} -> K1
                   [] OTHER -> <<>>]

-----------------------------------------------------------------------------
Nothing == [form |-> "none", data |-> <<>>, whole |-> TRUE]

Init == /\ \E kind \in DOMAIN Structure :
              doc \in [kind : {kind}, val : {New(kind)} \cup
                          (IF kind \in DOMAIN Digest THEN {Sample(kind)} ELSE {})]
        /\ edits = 0
        /\ wire = Nothing
        /\ got = Thrown

\* A public member is assigned
assign == /\ wire = Nothing
          /\ edits < MaxEdits
          /\ \E i \in DOMAIN Structure[doc.kind].serialize :
               LET f == Structure[doc.kind].serialize[i]
               IN  \E v \in Values(f) : doc' = [doc EXCEPT !.val = [@ EXCEPT ![f.name] = v]]
          /\ edits' = edits + 1
          /\ UNCHANGED <<wire, got>>

mine_nonce == /\ wire = Nothing
              /\ doc.kind \in DOMAIN Uncommitted
              /\ \E zeros \in 1..(MaxNonce + 1) :
                   doc' = [doc EXCEPT !.val = mine(Digest[doc.kind], @, zeros)]
              /\ UNCHANGED <<edits, wire, got>>

commit == /\ wire = Nothing
          /\ doc.kind \in DOMAIN Uncommitted
          /\ doc' = [kind |-> Uncommitted[doc.kind], val |-> to_committed(doc.kind, doc.val)]
          /\ UNCHANGED <<edits, wire, got>>

serialize == /\ wire = Nothing
             /\ wire' = [form |-> "bytes", whole |-> TRUE,
                         data |-> Written(Structure[doc.kind].serialize, doc.val)]
             /\ UNCHANGED <<doc, edits, got>>

toJSON == /\ wire = Nothing
          /\ wire' = [form |-> "json", whole |-> TRUE,
                      data |-> ToJSON(Structure[doc.kind].toJSON, doc.val)]
          /\ UNCHANGED <<doc, edits, got>>

truncate == /\ wire.form = "bytes" /\ wire.whole
            /\ \E n \in 0..(Len(wire.data) - 1) :
                 wire' = [wire EXCEPT !.data = SubSeq(@, 1, n), !.whole = FALSE]
            /\ UNCHANGED <<doc, edits, got>>

deserialize == /\ wire.form = "bytes"
               /\ got' = ReadFields(Reader(wire.data), Structure[doc.kind].deserialize)
               /\ wire' = [wire EXCEPT !.form = "bytes read"]
               /\ UNCHANGED <<doc, edits>>

fromJSON == /\ wire.form = "json"
            /\ got' = FromJSON(Structure[doc.kind].fromJSON, wire.data)
            /\ wire' = [wire EXCEPT !.form = "json read"]
            /\ UNCHANGED <<doc, edits>>

\* The reader goes on with its object, or gives up
proceed == /\ wire.form \in {"bytes read", "json read"}
           /\ doc' = IF got.ok THEN [doc EXCEPT !.val = got.out] ELSE doc
           /\ wire' = Nothing
           /\ got' = Thrown
           /\ UNCHANGED edits

Next == \/ assign \/ mine_nonce \/ commit
        \/ serialize \/ toJSON \/ truncate \/ deserialize \/ fromJSON \/ proceed

Spec == Init /\ [][Next]_vars

-----------------------------------------------------------------------------
(* Properties *)

\* Bytes that arrive whole are read back, to the last byte, as the object that
\* serialize wrote; bytes cut short anywhere are refused by deserialize,
\* whatever the structure
ReadBack ==
    wire.form = "bytes read" =>
        IF wire.whole THEN got.ok /\ got.in = <<>> /\ got.out = doc.val
                      ELSE ~got.ok

\* What toJSON wrote of an object, fromJSON reads back as the same object
JsonReadBack == wire.form = "json read" => got.ok /\ got.out = doc.val

\* A transaction and what to_committed makes of it have one hash, one proof of
\* work and the size that committed_size announced; once the uncommitted form
\* has passed TransactionValidator::check, the committed form passes it too
CommittedAgrees ==
    doc.kind \in DOMAIN Uncommitted =>
        LET kind == Uncommitted[doc.kind]
            tx == doc.val
            c == to_committed(doc.kind, tx)
        IN  /\ committed_hash(Digest[kind], c) = uncommitted_hash(Digest[doc.kind], tx)
            /\ committed_pow_hash(Digest[kind], c) = uncommitted_pow_hash(Digest[doc.kind], tx)
            /\ Size(Written(Structure[kind].serialize, c)) = committed_size(Digest[doc.kind], tx)
            /\ check(doc.kind, tx) = "SUCCESS" => check(kind, c) = "SUCCESS"
=============================================================================
