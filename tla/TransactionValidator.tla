------------------------ MODULE TransactionValidator ------------------------
(***************************************************************************)
(* Core::TransactionValidator and Core::StakingEngine over the databases   *)
(* of Core::BlockchainStorage: threads that validate transactions, store   *)
(* the ones that passed in blocks, select outputs for a ring, and add      *)
(* stakes.  validate only reads, put_block checks nothing of what validate *)
(* read, and each read is an LMDB transaction of its own, so what a thread *)
(* learnt may be out of date when it acts on it.                           *)
(*                                                                         *)
(* put_block is one step, and so is each del_block that rewind makes:      *)
(* BlockchainStorage shows that they are atomic.                           *)
(* check(), which reads no database, is in Transactions; here it is the    *)
(* error it gives for each transaction.                                    *)
(***************************************************************************)
EXTENDS Integers, Sequences, FiniteSets

CONSTANTS
    Threads,
    None,          \* an absent key, an idle thread's argument, a free mutex
    Txs,           \* transactions, committed and uncommitted form alike
    KeyImages, Outputs,
    Type,          \* of a transaction: "user", "genesis" or "other"
    CheckError,    \* what check() returns for it
    RangeProof,    \* whether its range proof verifies
    TxKeyImages, RingParticipants, TxOutputs,
    MaxIndex,      \* bound: block indexes are 0 .. MaxIndex
    Candidates,    \* candidate public keys
    MINIMUM_STAKE_AMOUNT, REQUIRED_CANDIDACY_AMOUNT,
    Stakes         \* committed stake transactions: version, candidate, staker, amount

Indexes == 0..MaxIndex
Amounts == 0..REQUIRED_CANDIDACY_AMOUNT + 1
StakeTx == [version : Nat, candidate : Candidates, staker : Nat, amount : Amounts]

ASSUME ValidatorAssumption ==
    /\ None \notin Threads \cup Txs \cup Stakes \cup Nat
    /\ MaxIndex \in Nat
    /\ Type \in [Txs -> {"user", "genesis", "other"}]
    /\ TxKeyImages \in [Txs -> SUBSET KeyImages]
    /\ RingParticipants \in [Txs -> Seq(Outputs)]
    /\ TxOutputs \in [Txs -> SUBSET Outputs]
    /\ \A x \in Txs : Type[x] # "user" => TxKeyImages[x] = {}
    /\ {MINIMUM_STAKE_AMOUNT, REQUIRED_CANDIDACY_AMOUNT} \subseteq Nat
    /\ Stakes \subseteq StakeTx

VARIABLES
    stored,        \* m_transactions
    key_images,    \* m_key_images
    outputs,       \* m_transaction_outputs
    indexes,       \* the indexes in m_block_indexes
    bare,          \* of these, the ones whose block has no transaction but its reward
    candidates,    \* m_db_candidates: the staker of each candidate, None if absent
    write_mutex,   \* StakingEngine::write_mutex
    pc,
    arg,           \* the transaction or stake a thread's call is about
    k,             \* ring members fetched so far
    accepted,      \* the committed transactions validate() accepted for a caller
    fresh,         \* history: of these, the ones accepted since the last put_block
    raced          \* history: a block held a transaction that was not fresh, two that
                   \* exclude each other, or a genesis transaction above block 0

storage_vars == <<stored, key_images, outputs, indexes, bare>>
call_vars == <<arg, k>>
vars == <<stored, key_images, outputs, indexes, bare, candidates, write_mutex, pc, arg, k,
          accepted, fresh, raced>>

PCs == {"idle", "validate", "images", "ring", "draw", "stake_lock", "stake", "stake_put"}

Init ==
    /\ stored = {} /\ key_images = {} /\ outputs = {} /\ indexes = {} /\ bare = {}
    /\ candidates = [c \in Candidates |-> None]
    /\ write_mutex = None
    /\ pc = [t \in Threads |-> "idle"]
    /\ arg = [t \in Threads |-> None]
    /\ k = [t \in Threads |-> 0]
    /\ accepted = [t \in Threads |-> {}]
    /\ fresh = [t \in Threads |-> {}]
    /\ raced = FALSE

Goto(t, l) == pc' = [pc EXCEPT ![t] = l]

Call(t, l, x) ==
    /\ pc[t] = "idle"
    /\ Goto(t, l)
    /\ arg' = [arg EXCEPT ![t] = x]
    /\ UNCHANGED k

Return(t) ==
    /\ Goto(t, "idle")
    /\ arg' = [arg EXCEPT ![t] = None]
    /\ k' = [k EXCEPT ![t] = 0]

-----------------------------------------------------------------------------
(* BlockchainStorage, as the validator reads it *)

\* Mutant: only when all of them exist
key_image_exists_all(x) == TxKeyImages[x] # {} /\ TxKeyImages[x] \subseteq key_images

key_image_exists(x) == TxKeyImages[x] \cap key_images # {}

block_exists(n) == n \in indexes

output_count == Cardinality(outputs)

-----------------------------------------------------------------------------
(* validate(block_index, transaction_t) *)

\* check() comes first
validate_call(t, x) ==
    /\ CheckError[x] = "SUCCESS"
    /\ Call(t, "validate", x)
    /\ UNCHANGED <<candidates, write_mutex, accepted, fresh, raced, storage_vars>>

\* ... of both forms
check_failed(t, x) ==
    /\ pc[t] = "idle"
    /\ CheckError[x] # "SUCCESS"
    /\ Return(t)
    /\ UNCHANGED <<candidates, write_mutex, accepted, fresh, raced, storage_vars>>

\* One read: the key images of a user transaction, block 0 for the genesis
\* transaction, nothing for the others
validate_result(x) ==
    CASE Type[x] = "user" /\ key_image_exists(x) -> "TX_KEY_IMAGE_ALREADY_EXISTS"
      [] Type[x] = "genesis" /\ block_exists(0) -> "TX_GENESIS_ALREADY_EXISTS"
      [] OTHER -> "SUCCESS"

validate(t) ==
    /\ pc[t] = "validate"
    /\ LET e == validate_result(arg[t])
           S == IF e = "SUCCESS" THEN {arg[t]} ELSE {}
       IN  /\ Return(t)
           /\ accepted' = [accepted EXCEPT ![t] = @ \cup S]
           /\ fresh' = [fresh EXCEPT ![t] = @ \cup S]
    /\ UNCHANGED <<candidates, write_mutex, raced, storage_vars>>

-----------------------------------------------------------------------------
(* validate(block_index, uncommitted_transaction_t) *)

validate_uncommitted(t, x) ==
    /\ CheckError[x] = "SUCCESS" /\ Type[x] = "user"
    /\ \/ ~RangeProof[x] /\ pc[t] = "idle" /\ Return(t)
       \/ RangeProof[x] /\ Call(t, "images", x)
    /\ UNCHANGED <<candidates, write_mutex, accepted, fresh, raced, storage_vars>>

validate_images(t) ==
    /\ pc[t] = "images"
    /\ \/ key_image_exists(arg[t]) /\ Return(t)
       \/ ~key_image_exists(arg[t]) /\ Goto(t, "ring") /\ UNCHANGED call_vars
    /\ UNCHANGED <<candidates, write_mutex, accepted, fresh, raced, storage_vars>>

\* get_transaction_output for the next member of the ring: an error, or a
\* record that is decoded in another order than put_transaction_output wrote it
\* in.  Then the reader runs past its end and throws, or the keys it gives are
\* nobody's and the unlock_block is made of their bytes
ring_member(t) ==
    /\ pc[t] = "ring" /\ k[t] < Len(RingParticipants[arg[t]])
    /\ \/ Return(t)
       \/ /\ RingParticipants[arg[t]][k[t] + 1] \in outputs
          /\ k' = [k EXCEPT ![t] = @ + 1]
          /\ UNCHANGED <<pc, arg>>
    /\ UNCHANGED <<candidates, write_mutex, accepted, fresh, raced, storage_vars>>

\* The ring is complete: a member that seems locked is refused, and a signature
\* over keys that are not the ring's does not verify.  An error either way
ring_signatures(t) ==
    /\ pc[t] = "ring" /\ k[t] = Len(RingParticipants[arg[t]])
    /\ Return(t)
    /\ UNCHANGED <<candidates, write_mutex, accepted, fresh, raced, storage_vars>>

-----------------------------------------------------------------------------
(* get_random_outputs(block_index, count) *)

get_random_outputs(t, count) ==
    /\ pc[t] = "idle"
    /\ \/ output_count < count /\ Return(t)
       \/ output_count >= count /\ count = 0 /\ Return(t)
       \/ output_count >= count /\ count > 0 /\ Goto(t, "draw") /\ UNCHANGED call_vars
    /\ UNCHANGED <<candidates, write_mutex, accepted, fresh, raced, storage_vars>>

\* A draw: what was decoded does not have the hash it was found under, so the
\* loop goes on; only an exception of the reader ends it
draw(t) ==
    /\ pc[t] = "draw"
    /\ Return(t)
    /\ UNCHANGED <<candidates, write_mutex, accepted, fresh, raced, storage_vars>>

-----------------------------------------------------------------------------
(* The caller stores transactions S that validate() accepted for it *)

Exclude(x, y) == \/ TxKeyImages[x] \cap TxKeyImages[y] # {}
                 \/ Type[x] = "genesis" /\ Type[y] = "genesis"

Clash(S) == \E x, y \in S : x # y /\ Exclude(x, y)

\* validate() asks for block 0: a genesis transaction belongs there
Misplaced(S, n) == n # 0 /\ \E x \in S : Type[x] = "genesis"

\* put_block: the transactions, their key images and outputs, the index.  None
\* of it is checked against what is there.  A genesis transaction is the
\* block's reward; every other kind of reward spends nothing and is left out
put_block(t, n, S) ==
    /\ pc[t] = "idle"
    /\ stored' = stored \cup S
    /\ key_images' = key_images \cup UNION {TxKeyImages[x] : x \in S}
    /\ outputs' = outputs \cup UNION {TxOutputs[x] : x \in S}
    /\ indexes' = indexes \cup {n}
    /\ bare' = IF \A x \in S : Type[x] = "genesis" THEN bare \cup {n} ELSE bare \ {n}
    /\ accepted' = [accepted EXCEPT ![t] = @ \ S]
    /\ fresh' = [u \in Threads |-> {}]
    /\ raced' = (raced \/ ~(S \subseteq fresh[t]) \/ Clash(S) \/ Misplaced(S, n))
    /\ UNCHANGED <<candidates, write_mutex, pc, call_vars>>

\* A del_block of a rewind to block n, above which it deletes.  It fails for a
\* block with transactions, whose records get_block cannot decode, and it
\* leaves the reward of the others, with its outputs
rewind(t, n, i) ==
    /\ pc[t] = "idle"
    /\ n \in indexes /\ i \in bare /\ i > n
    /\ indexes' = indexes \ {i}
    /\ bare' = bare \ {i}
    /\ UNCHANGED <<stored, key_images, outputs, candidates, write_mutex, pc, call_vars, accepted,
                   fresh, raced>>

-----------------------------------------------------------------------------
(* StakingEngine::add_stake *)

add_stake(t, s) ==
    /\ Call(t, "stake_lock", s)
    /\ UNCHANGED <<candidates, write_mutex, accepted, fresh, raced, storage_vars>>

\* Mutant: the mutex is not waited for
add_stake_no_lock(t) ==
    /\ pc[t] = "stake_lock"
    /\ write_mutex' = t
    /\ Goto(t, "stake")
    /\ UNCHANGED <<candidates, call_vars, accepted, fresh, raced, storage_vars>>

add_stake_lock(t) ==
    /\ pc[t] = "stake_lock" /\ write_mutex = None
    /\ write_mutex' = t
    /\ Goto(t, "stake")
    /\ UNCHANGED <<candidates, call_vars, accepted, fresh, raced, storage_vars>>

\* The candidate is looked up, then the amount compared.  Version 2 stores
\* nothing yet
add_stake_result(s) ==
    LET exists == candidates[s.candidate] # None
    IN  CASE s.version = 1 /\ exists -> "STAKING_CANDIDATE_ALREADY_EXISTS"
          [] s.version = 1 /\ ~exists /\ s.amount # REQUIRED_CANDIDACY_AMOUNT ->
                "STAKING_CANDIDATE_AMOUNT_INVALID"
          [] s.version = 2 /\ ~exists -> "STAKING_CANDIDATE_NOT_FOUND"
          [] s.version = 2 /\ exists /\ s.amount < MINIMUM_STAKE_AMOUNT -> "STAKING_STAKE_AMOUNT"
          [] s.version \notin {1, 2} -> "TX_INVALID_VERSION"
          [] OTHER -> "SUCCESS"

add_stake_refused(t) ==
    /\ pc[t] = "stake" /\ add_stake_result(arg[t]) # "SUCCESS"
    /\ Return(t)
    /\ write_mutex' = None
    /\ UNCHANGED <<candidates, accepted, fresh, raced, storage_vars>>

add_stake_accepted(t) ==
    /\ pc[t] = "stake" /\ add_stake_result(arg[t]) = "SUCCESS"
    /\ \/ arg[t].version = 1 /\ Goto(t, "stake_put") /\ UNCHANGED <<write_mutex, call_vars>>
       \/ arg[t].version = 2 /\ Return(t) /\ write_mutex' = None
    /\ UNCHANGED <<candidates, accepted, fresh, raced, storage_vars>>

\* Mutant: the record is keyed by the wrong field
add_stake_put_keyed(t) ==
    /\ pc[t] = "stake_put"
    /\ candidates' = [s \in Candidates \cup {arg[t].staker} |->
                        IF s = arg[t].staker THEN s ELSE candidates[s]]
    /\ Return(t)
    /\ write_mutex' = None
    /\ UNCHANGED <<accepted, fresh, raced, storage_vars>>

\* m_db_candidates->put, a transaction of its own
add_stake_put(t) ==
    /\ pc[t] = "stake_put"
    /\ \/ /\ candidates' = [candidates EXCEPT ![arg[t].candidate] = arg[t].staker]
          /\ Return(t)
       \/ UNCHANGED candidates /\ Return(t)
    /\ write_mutex' = None
    /\ UNCHANGED <<accepted, fresh, raced, storage_vars>>

-----------------------------------------------------------------------------

calls(t) ==
    \/ \E x \in Txs : check_failed(t, x)
    \/ \E x \in Txs : validate_call(t, x)
    \/ \E x \in Txs : validate_uncommitted(t, x)
    \/ \E count \in 0..Cardinality(Outputs) : get_random_outputs(t, count)
    \/ \E n \in Indexes, S \in SUBSET accepted[t] : put_block(t, n, S)
    \/ \E n, i \in Indexes : rewind(t, n, i)
    \/ \E s \in Stakes : add_stake(t, s)

step(t) ==
    \/ validate(t) \/ validate_images(t) \/ ring_member(t) \/ ring_signatures(t)
    \/ add_stake_lock(t) \/ add_stake_refused(t) \/ add_stake_accepted(t) \/ add_stake_put(t)

Next == \E t \in Threads : calls(t) \/ step(t) \/ draw(t)

Spec == Init /\ [][Next]_vars

-----------------------------------------------------------------------------

\* The state has the shapes the code gives it
TypeOK ==
    /\ stored \subseteq Txs
    /\ key_images \subseteq KeyImages
    /\ indexes \subseteq Indexes /\ bare \subseteq indexes
    /\ outputs \subseteq Outputs
    /\ candidates \in [Candidates -> Nat \cup {None}]
    /\ write_mutex \in Threads \cup {None}
    /\ pc \in [Threads -> PCs]
    /\ arg \in [Threads -> Txs \cup Stakes \cup {None}]
    /\ k \in [Threads -> Nat]
    /\ accepted \in [Threads -> SUBSET Txs]
    /\ fresh \in [Threads -> SUBSET Txs]
    /\ raced \in BOOLEAN

\* validate(), then put_block(), with nothing between them that makes the two
\* one.  A key image is spent by two stored transactions, or a second genesis
\* transaction stored, only in one of three ways: a block held a transaction
\* validated before the last block was stored, two that exclude each other, or
\* a genesis transaction above block 0, where validate() does not look for one.
\* A rewind opens no fourth way: it keeps every key image, and block 0
SpentOnce ==
    ~raced => /\ \A x, y \in stored : x # y => ~Exclude(x, y)
              /\ key_images = UNION {TxKeyImages[x] : x \in stored}

\* add_stake looks a candidate up and puts it in two transactions, under the
\* mutex: a candidate once stored stays the one whose stake made it so,
\* whatever other threads stake at the same time
CandidateOnce ==
    [][\A c \in Candidates : candidates[c] # None => candidates'[c] = candidates[c]]_vars

=============================================================================
