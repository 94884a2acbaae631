----------------------------- MODULE Structures -----------------------------
(***************************************************************************)
(* The structures of include/blockchain, include/staking and               *)
(* include/network: for each, the fields its serialize, deserialize,       *)
(* toJSON and fromJSON visit, each listed from the method itself, and the  *)
(* object its default constructor makes.  A structure's members keep their *)
(* names, l_type is "type" as in JSON.                                     *)
(***************************************************************************)
EXTENDS WireFormat

TransactionType == [GENESIS |-> 0, STAKER |-> 1, NORMAL |-> 2, STAKE |-> 3,
                    RECALL_STAKE |-> 4, STAKE_REFUND |-> 5]
NetworkPacketTypes == [NETWORK_HANDSHAKE |-> 1000, NETWORK_KEEPALIVE |-> 1100,
                       NETWORK_PEER_EXCHANGE |-> 1200, NETWORK_DATA |-> 3000]

-----------------------------------------------------------------------------
(* The parts transactions are made of *)

serialize_header == <<varint("type"), varint("version")>>
deserialize_header == <<varint("type"), varint("version")>>
header_toJSON == <<varint("type"), varint("version")>>
header_fromJSON == <<varint("type"), varint("version")>>

serialize_prefix == serialize_header \o <<varint("unlock_block"), key("public_key")>>
deserialize_prefix == deserialize_header \o <<varint("unlock_block"), key("public_key")>>
prefix_toJSON_no_unlock == header_toJSON \o <<key("public_key")>>
prefix_toJSON == header_toJSON \o <<varint("unlock_block"), key("public_key")>>
prefix_fromJSON == header_fromJSON \o <<varint("unlock_block"), key("public_key")>>

StakerOutput_serialize == <<key("staker_id"), varint("amount")>>
StakerOutput_deserialize == <<key("staker_id"), varint("amount")>>
StakerOutput_toJSON == <<key("staker_id"), varint("amount")>>
StakerOutput_fromJSON == <<key("staker_id"), varint("amount")>>

TransactionOutput_serialize == <<key("public_ephemeral"), varint("amount"), key("commitment")>>
TransactionOutput_deserialize == <<key("public_ephemeral"), varint("amount"), key("commitment")>>
TransactionOutput_toJSON == <<key("public_ephemeral"), varint("amount"), key("commitment")>>
TransactionOutput_fromJSON == <<key("public_ephemeral"), varint("amount"), key("commitment")>>

serialize_body == <<varint("nonce"), varint("fee"), keyV("key_images"),
                    vector("outputs", TransactionOutput_serialize)>>
deserialize_body_fee_first == <<varint("fee"), varint("nonce"), keyV("key_images"),
                                vector("outputs", TransactionOutput_deserialize)>>
deserialize_body == <<varint("nonce"), varint("fee"), keyV("key_images"),
                      vector("outputs", TransactionOutput_deserialize)>>
body_toJSON == <<varint("nonce"), varint("fee"), keyV("key_images"),
                 vector("outputs", TransactionOutput_toJSON)>>
body_fromJSON == <<varint("nonce"), varint("fee"), keyV("key_images"),
                   vector("outputs", TransactionOutput_fromJSON)>>

\* UncommittedTransactionSuffix.  range_proof.serialize writes one token
serialize_signatures == <<keyV("pseudo_commitments"), keyV("ring_participants"),
                          vector("signatures", <<proof(Itself)>>)>>
serialize_uncommitted_suffix == serialize_signatures \o <<proof("range_proof")>>
deserialize_uncommitted_suffix ==
    <<keyV("pseudo_commitments"), keyV("ring_participants"),
      vector("signatures", <<proof(Itself)>>), proof("range_proof")>>
uncommitted_suffix_toJSON ==
    <<keyV("pseudo_commitments"), keyV("ring_participants"),
      vector("signatures", <<proof(Itself)>>), proof("range_proof")>>
uncommitted_suffix_fromJSON ==
    <<keyV("pseudo_commitments"), keyV("ring_participants"),
      vector("signatures", <<proof(Itself)>>), proof("range_proof")>>

\* CommittedTransactionSuffix
serialize_suffix == <<key("signature_hash"), key("range_proof_hash")>>
deserialize_suffix == <<key("signature_hash"), key("range_proof_hash")>>
suffix_toJSON == <<key("signature_hash"), key("range_proof_hash")>>
suffix_fromJSON == <<key("signature_hash"), key("range_proof_hash")>>

\* NormalTransactionData: a count and the bytes; in JSON a hexadecimal string
serialize_extra == <<bytes("extra")>>
deserialize_extra == <<bytes("extra")>>
extra_toJSON == <<bytes("extra")>>
extra_fromJSON == <<bytes("extra")>>

\* StakeTransactionData
serialize_stake == <<varint("stake_amount"), key("candidate_public_key"),
                     key("staker_public_view_key"), key("staker_public_spend_key")>>
deserialize_stake == <<varint("stake_amount"), key("candidate_public_key"),
                       key("staker_public_view_key"), key("staker_public_spend_key")>>
stake_data_toJSON == <<varint("stake_amount"), key("candidate_public_key"),
                       key("staker_public_view_key"), key("staker_public_spend_key")>>
stake_data_fromJSON == <<varint("stake_amount"), key("candidate_public_key"),
                         key("staker_public_view_key"), key("staker_public_spend_key")>>

\* RecallStakeTransactionData
serialize_recall == <<varint("stake_amount"), key("candidate_public_key"), key("staker_id"),
                      signature("view_signature"), signature("spend_signature")>>
deserialize_recall == <<varint("stake_amount"), key("candidate_public_key"), key("staker_id"),
                        signature("view_signature"), signature("spend_signature")>>
recall_data_toJSON == <<varint("stake_amount"), key("candidate_public_key"), key("staker_id"),
                        signature("view_signature"), signature("spend_signature")>>
recall_data_fromJSON == <<varint("stake_amount"), key("candidate_public_key"), key("staker_id"),
                          signature("view_signature"), signature("spend_signature")>>

-----------------------------------------------------------------------------
(* Transactions.  The uncommitted and the committed form of a user          *)
(* transaction share prefix, body and data, which are its digest.           *)

genesis_serialize == serialize_prefix \o <<key("secret_key"), vector("outputs", TransactionOutput_serialize)>>
genesis_deserialize == deserialize_prefix \o <<key("secret_key"), vector("outputs", TransactionOutput_deserialize)>>
genesis_toJSON == prefix_toJSON \o <<key("secret_key"), vector("outputs", TransactionOutput_toJSON)>>
genesis_fromJSON == prefix_fromJSON \o <<key("secret_key"), vector("outputs", TransactionOutput_fromJSON)>>

staker_serialize == serialize_header \o <<vector("staker_outputs", StakerOutput_serialize),
                                          vector("staker_penalties", StakerOutput_serialize)>>
staker_deserialize == deserialize_header \o <<vector("staker_outputs", StakerOutput_deserialize),
                                              vector("staker_penalties", StakerOutput_deserialize)>>
staker_toJSON == header_toJSON \o <<vector("staker_outputs", StakerOutput_toJSON),
                                    vector("staker_penalties", StakerOutput_toJSON)>>
staker_fromJSON == header_fromJSON \o <<vector("staker_outputs", StakerOutput_fromJSON),
                                        vector("staker_penalties", StakerOutput_fromJSON)>>

refund_serialize == serialize_prefix \o <<key("secret_key"), key("recall_stake_tx"),
                                          vector("outputs", TransactionOutput_serialize)>>
refund_deserialize == deserialize_prefix \o <<key("secret_key"), key("recall_stake_tx"),
                                              vector("outputs", TransactionOutput_deserialize)>>
refund_toJSON == prefix_toJSON \o <<key("secret_key"), key("recall_stake_tx"),
                                    vector("outputs", TransactionOutput_toJSON)>>
refund_fromJSON == prefix_fromJSON \o <<key("secret_key"), key("recall_stake_tx"),
                                        vector("outputs", TransactionOutput_fromJSON)>>

committed_normal_digest == serialize_prefix \o serialize_body \o serialize_extra
committed_normal_serialize == committed_normal_digest \o serialize_suffix
committed_normal_deserialize == deserialize_prefix \o deserialize_body \o deserialize_extra \o deserialize_suffix
committed_normal_toJSON == prefix_toJSON \o body_toJSON \o extra_toJSON \o suffix_toJSON
committed_normal_fromJSON == prefix_fromJSON \o body_fromJSON \o extra_fromJSON \o suffix_fromJSON

uncommitted_normal_digest == serialize_prefix \o serialize_body \o serialize_extra
uncommitted_normal_serialize == uncommitted_normal_digest \o serialize_uncommitted_suffix
uncommitted_normal_deserialize ==
    deserialize_prefix \o deserialize_body \o deserialize_extra \o deserialize_uncommitted_suffix
uncommitted_normal_toJSON == prefix_toJSON \o body_toJSON \o extra_toJSON \o uncommitted_suffix_toJSON
uncommitted_normal_fromJSON == prefix_fromJSON \o body_fromJSON \o extra_fromJSON \o uncommitted_suffix_fromJSON

committed_stake_digest == serialize_prefix \o serialize_body \o serialize_stake
committed_stake_serialize == committed_stake_digest \o serialize_suffix
committed_stake_deserialize == deserialize_prefix \o deserialize_body \o deserialize_stake \o deserialize_suffix
committed_stake_toJSON == prefix_toJSON \o body_toJSON \o stake_data_toJSON \o suffix_toJSON
committed_stake_fromJSON == prefix_fromJSON \o body_fromJSON \o stake_data_fromJSON \o suffix_fromJSON

uncommitted_stake_digest == serialize_prefix \o serialize_body \o serialize_stake
uncommitted_stake_serialize == uncommitted_stake_digest \o serialize_uncommitted_suffix
uncommitted_stake_deserialize ==
    deserialize_prefix \o deserialize_body \o deserialize_stake \o deserialize_uncommitted_suffix
uncommitted_stake_toJSON == prefix_toJSON \o body_toJSON \o stake_data_toJSON \o uncommitted_suffix_toJSON
uncommitted_stake_fromJSON == prefix_fromJSON \o body_fromJSON \o stake_data_fromJSON \o uncommitted_suffix_fromJSON

committed_recall_digest == serialize_prefix \o serialize_body \o serialize_recall
committed_recall_serialize == committed_recall_digest \o serialize_suffix
committed_recall_deserialize == deserialize_prefix \o deserialize_body \o deserialize_recall \o deserialize_suffix
committed_recall_toJSON == prefix_toJSON \o body_toJSON \o recall_data_toJSON \o suffix_toJSON
committed_recall_fromJSON == prefix_fromJSON \o body_fromJSON \o recall_data_fromJSON \o suffix_fromJSON

uncommitted_recall_digest == serialize_prefix \o serialize_body \o serialize_recall
uncommitted_recall_serialize == uncommitted_recall_digest \o serialize_uncommitted_suffix
uncommitted_recall_deserialize ==
    deserialize_prefix \o deserialize_body \o deserialize_recall \o deserialize_uncommitted_suffix
uncommitted_recall_toJSON == prefix_toJSON \o body_toJSON \o recall_data_toJSON \o uncommitted_suffix_toJSON
uncommitted_recall_fromJSON == prefix_fromJSON \o body_fromJSON \o recall_data_fromJSON \o uncommitted_suffix_fromJSON

-----------------------------------------------------------------------------
(* Staking records *)

candidate_serialize ==
    <<varint("record_version"), key("public_signing_key"), key("public_view_key"), key("public_spend_key"),
      varint("initial_stake"), varint("block_production_assigned"), varint("block_validation_assigned"),
      varint("blocks_produced"), varint("blocks_validated")>>
candidate_deserialize ==
    <<varint("record_version"), key("public_signing_key"), key("public_view_key"), key("public_spend_key"),
      varint("initial_stake"), varint("block_production_assigned"), varint("block_validation_assigned"),
      varint("blocks_produced"), varint("blocks_validated")>>
candidate_toJSON ==
    <<varint("record_version"), key("public_signing_key"), key("public_view_key"), key("public_spend_key"),
      varint("initial_stake"), varint("block_production_assigned"), varint("block_validation_assigned"),
      varint("blocks_produced"), varint("blocks_validated")>>
candidate_fromJSON ==
    <<varint("record_version"), key("public_signing_key"), key("public_view_key"), key("public_spend_key"),
      varint("initial_stake"), varint("block_production_assigned"), varint("block_validation_assigned"),
      varint("blocks_produced"), varint("blocks_validated")>>

stake_serialize == <<varint("record_version"), key("candidate_public_key"), key("public_view_key"),
                     key("public_spend_key"), varint("stake")>>
stake_deserialize == <<varint("record_version"), key("candidate_public_key"), key("public_view_key"),
                       key("public_spend_key"), varint("stake")>>
stake_toJSON == <<varint("record_version"), key("candidate_public_key"), key("public_view_key"),
                  key("public_spend_key"), varint("stake")>>
stake_fromJSON == <<varint("record_version"), key("candidate_public_key"), key("public_view_key"),
                    key("public_spend_key"), varint("stake")>>

-----------------------------------------------------------------------------
(* Network packets.  An address is eight components and its flags, written  *)
(* as one token; IPParser, which turns it into a string and back, is        *)
(* external.                                                                *)

peer_serialize == <<address("address"), varint("port"), key("peer_id"), key("network_id"),
                    varint("last_seen")>>
peer_deserialize == <<address("address"), varint("port"), key("peer_id"), key("network_id"),
                      varint("last_seen")>>
peer_toJSON == <<address("address"), varint("port"), key("peer_id"), key("network_id"),
                 varint("last_seen")>>
peer_fromJSON == <<address("address"), varint("port"), key("peer_id"), key("network_id"),
                   varint("last_seen")>>

handshake_serialize == <<varint("type"), varint("version"), key("peer_id"), varint("peer_port"),
                         key("network_id"), vector("peers", peer_serialize)>>
handshake_deserialize == <<varint("type"), varint("version"), key("peer_id"), varint("peer_port"),
                           key("network_id"), vector("peers", peer_deserialize)>>
handshake_toJSON == <<varint("type"), varint("version"), key("peer_id"), varint("peer_port"),
                      key("network_id"), vector("peers", peer_toJSON)>>
handshake_fromJSON == <<varint("type"), varint("version"), key("peer_id"), key("network_id"),
                        varint("peer_port"), vector("peers", peer_fromJSON)>>

peer_exchange_serialize == <<varint("type"), varint("version"), key("peer_id"), varint("peer_port"),
                             key("network_id"), vector("peers", peer_serialize)>>
peer_exchange_deserialize == <<varint("type"), varint("version"), key("peer_id"), varint("peer_port"),
                               key("network_id"), vector("peers", peer_deserialize)>>
peer_exchange_toJSON == <<varint("type"), varint("version"), key("peer_id"), varint("peer_port"),
                          key("network_id"), vector("peers", peer_toJSON)>>
peer_exchange_fromJSON == <<varint("type"), varint("version"), key("peer_id"), key("network_id"),
                            varint("peer_port"), vector("peers", peer_fromJSON)>>

keepalive_serialize == <<varint("type"), varint("version"), key("peer_id")>>
keepalive_deserialize == <<varint("type"), varint("version"), key("peer_id")>>
keepalive_toJSON == <<varint("type"), varint("version"), key("peer_id")>>
keepalive_fromJSON == <<varint("type"), varint("version"), key("peer_id")>>

data_serialize == <<varint("type"), varint("version"), key("network_id"), bytes("payload")>>
data_deserialize == <<varint("type"), varint("version"), key("network_id"), bytes("payload")>>
data_toJSON == <<varint("type"), varint("version"), key("network_id"), bytes("payload")>>
data_fromJSON == <<varint("type"), varint("version"), key("network_id"), bytes("payload")>>
=============================================================================
