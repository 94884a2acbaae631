--------------------- MODULE TransactionValidatorProofs ---------------------
(***************************************************************************)
(* TransactionValidator's safety for any number of threads, transactions,  *)
(* blocks and candidates.  IInv adds to the properties what a thread's     *)
(* argument is (Arguments), who is between add_stake's read and its put    *)
(* (Staking), and that what validate() found is still so until the next    *)
(* put_block (StillTrue).                                                  *)
(***************************************************************************)
EXTENDS TransactionValidator, TLAPS

\* A call is about a transaction or a stake, by the operation it is in
Arguments ==
    \A t \in Threads :
        /\ pc[t] \in {"validate", "images", "ring"} => arg[t] \in Txs
        /\ pc[t] \in {"stake_lock", "stake", "stake_put"} => arg[t] \in Stakes

\* Between add_stake's read and its put the thread has the mutex, so the
\* candidate it found absent is absent still
Staking ==
    \A t \in Threads :
        /\ pc[t] \in {"stake", "stake_put"} => write_mutex = t
        /\ pc[t] = "stake_put" => candidates[arg[t].candidate] = None

\* No block was stored since a fresh transaction was validated, and a stored
\* genesis transaction is in block 0
StillTrue ==
    /\ \A t \in Threads : \A x \in fresh[t] :
          /\ TxKeyImages[x] \cap key_images = {}
          /\ Type[x] = "genesis" => 0 \notin indexes
    /\ ~raced => \A x \in stored : Type[x] = "genesis" => 0 \in indexes

IInv == TypeOK /\ Arguments /\ Staking /\ StillTrue /\ SpentOnce

-----------------------------------------------------------------------------

\* The databases start empty and no call is under way.
LEMMA InitInv == Init => IInv
<1> SUFFICES ASSUME Init PROVE IInv
  OBVIOUS
<1>1. TypeOK
  BY DEF Init, TypeOK, PCs
<1>2. Arguments /\ Staking
  BY DEF Init, Arguments, Staking
<1>3. StillTrue /\ SpentOnce
  BY DEF Init, StillTrue, SpentOnce
<1> QED BY <1>1, <1>2, <1>3 DEF IInv

\* The shape of a call and of a return, for the variables of a thread.
LEMMA CallTypes ==
    ASSUME TypeOK, NEW t \in Threads, NEW l \in PCs, NEW x \in Txs \cup Stakes, Call(t, l, x)
    PROVE  /\ pc' \in [Threads -> PCs]
           /\ arg' \in [Threads -> Txs \cup Stakes \cup {None}]
           /\ k' \in [Threads -> Nat]
           /\ pc'[t] = l /\ arg'[t] = x
           /\ \A u \in Threads \ {t} : pc'[u] = pc[u] /\ arg'[u] = arg[u]
BY DEF TypeOK, Call, Goto

LEMMA ReturnTypes ==
    ASSUME TypeOK, NEW t \in Threads, Return(t)
    PROVE  /\ pc' \in [Threads -> PCs]
           /\ arg' \in [Threads -> Txs \cup Stakes \cup {None}]
           /\ k' \in [Threads -> Nat]
           /\ pc'[t] = "idle"
           /\ \A u \in Threads \ {t} : pc'[u] = pc[u] /\ arg'[u] = arg[u]
BY DEF TypeOK, Return, Goto, PCs

\* A step that leaves databases, mutex and history alone and only enters,
\* leaves or advances a call of t keeps everything.
LEMMA CallStep ==
    ASSUME IInv, NEW t \in Threads,
           UNCHANGED <<candidates, write_mutex, accepted, fresh, raced, storage_vars>>,
           \/ Return(t)
           \/ \E x \in Txs, l \in {"validate", "images"} : Call(t, l, x)
           \/ \E s \in Stakes : Call(t, "stake_lock", s)
    PROVE  IInv'
<1>1. SpentOnce' /\ StillTrue'
  BY DEF IInv, SpentOnce, StillTrue, storage_vars
<1>2. CASE Return(t)
  BY <1>1, <1>2, ReturnTypes DEF IInv, TypeOK, Arguments, Staking, storage_vars
<1>3. ASSUME NEW x \in Txs, NEW l \in {"validate", "images"}, Call(t, l, x) PROVE IInv'
  BY <1>1, <1>3, CallTypes DEF IInv, TypeOK, Arguments, Staking, storage_vars, PCs
<1>4. ASSUME NEW s \in Stakes, Call(t, "stake_lock", s) PROVE IInv'
  BY <1>1, <1>4, CallTypes DEF IInv, TypeOK, Arguments, Staking, storage_vars, PCs
<1> QED BY <1>2, <1>3, <1>4

\* What validate() accepts excludes nothing that is stored.
LEMMA AcceptedIsFree ==
    ASSUME TypeOK, NEW x \in Txs, validate_result(x) = "SUCCESS"
    PROVE  /\ TxKeyImages[x] \cap key_images = {}
           /\ Type[x] = "genesis" => 0 \notin indexes
<1>1. CASE Type[x] = "user"
  BY <1>1 DEF validate_result, key_image_exists
<1>2. CASE Type[x] = "genesis"
  BY <1>2, ValidatorAssumption DEF validate_result, block_exists
<1>3. CASE Type[x] = "other"
  BY <1>3, ValidatorAssumption
<1> QED BY <1>1, <1>2, <1>3, ValidatorAssumption

LEMMA ValidateStep ==
    ASSUME IInv, NEW t \in Threads, validate(t)
    PROVE  IInv'
<1> DEFINE S == IF validate_result(arg[t]) = "SUCCESS" THEN {arg[t]} ELSE {}
<1>1. /\ Return(t)
      /\ accepted' = [accepted EXCEPT ![t] = @ \cup S]
      /\ fresh' = [fresh EXCEPT ![t] = @ \cup S]
      /\ UNCHANGED <<candidates, write_mutex, raced, stored, key_images, outputs, indexes, bare>>
  BY DEF validate, storage_vars
<1>2. arg[t] \in Txs
  BY DEF validate, IInv, Arguments
<1>3. S \subseteq Txs
  BY <1>2
<1>4. \A x \in S : /\ TxKeyImages[x] \cap key_images = {}
                   /\ Type[x] = "genesis" => 0 \notin indexes
  BY <1>2, AcceptedIsFree DEF IInv
<1> HIDE DEF S
<1>5. accepted' \in [Threads -> SUBSET Txs] /\ fresh' \in [Threads -> SUBSET Txs]
  BY <1>1, <1>3 DEF IInv, TypeOK
<1>6. TypeOK' /\ Arguments' /\ Staking'
  BY <1>1, <1>5, ReturnTypes DEF IInv, TypeOK, Arguments, Staking
<1>7. \A u \in Threads : \A x \in fresh'[u] : x \in fresh[u] \/ x \in S
  BY <1>1 DEF IInv, TypeOK
<1>8. StillTrue' /\ SpentOnce'
  BY <1>1, <1>4, <1>7 DEF IInv, StillTrue, SpentOnce
<1> QED BY <1>6, <1>8 DEF IInv

\* A block of transactions that are fresh and do not exclude each other spends
\* nothing twice.
LEMMA PutBlockStep ==
    ASSUME IInv, NEW t \in Threads, NEW n \in Indexes, NEW S \in SUBSET accepted[t],
           put_block(t, n, S)
    PROVE  IInv'
<1>1. S \subseteq Txs
  BY DEF IInv, TypeOK
<1>2. TypeOK'
  <2>1. key_images' \subseteq KeyImages /\ outputs' \subseteq Outputs /\ stored' \subseteq Txs
    BY <1>1, ValidatorAssumption DEF put_block, IInv, TypeOK
  <2>2. accepted' \in [Threads -> SUBSET Txs] /\ fresh' \in [Threads -> SUBSET Txs]
    BY <1>1 DEF put_block, IInv, TypeOK
  <2>3. raced' \in BOOLEAN
    BY DEF put_block
  <2>4. indexes' \subseteq Indexes /\ bare' \subseteq indexes'
    BY DEF put_block, IInv, TypeOK
  <2> QED BY <2>1, <2>2, <2>3, <2>4 DEF put_block, call_vars, IInv, TypeOK
<1>3. Arguments' /\ Staking'
  BY DEF put_block, call_vars, IInv, Arguments, Staking
<1>4. \A u \in Threads : fresh'[u] = {}
  BY DEF put_block
<1>5. ASSUME ~raced' PROVE ~raced /\ S \subseteq fresh[t] /\ ~Clash(S) /\ ~Misplaced(S, n)
  BY <1>5 DEF put_block
<1>6. StillTrue'
  <2> SUFFICES ASSUME ~raced', NEW x \in stored', Type[x] = "genesis" PROVE 0 \in indexes'
    BY <1>4 DEF StillTrue
  <2>1. CASE x \in stored
    BY <1>5, <2>1 DEF IInv, StillTrue, put_block
  <2>2. CASE x \in S
    BY <1>5, <2>2 DEF Misplaced, put_block
  <2> QED BY <2>1, <2>2 DEF put_block
<1>7. SpentOnce'
  <2> SUFFICES ASSUME ~raced'
               PROVE  /\ \A x, y \in stored' : x # y => ~Exclude(x, y)
                      /\ key_images' = UNION {TxKeyImages[x] : x \in stored'}
    BY DEF SpentOnce, Exclude
  <2>1. /\ \A x, y \in stored : x # y => ~Exclude(x, y)
        /\ key_images = UNION {TxKeyImages[x] : x \in stored}
    BY <1>5 DEF IInv, SpentOnce
  <2>2. key_images' = UNION {TxKeyImages[x] : x \in stored'}
    BY <2>1 DEF put_block
  <2>3. ASSUME NEW x \in S, NEW y \in stored PROVE ~Exclude(x, y) /\ ~Exclude(y, x)
    <3>1. TxKeyImages[y] \subseteq key_images
      BY <2>1
    <3>2. TxKeyImages[x] \cap key_images = {} /\ (Type[x] = "genesis" => 0 \notin indexes)
      BY <1>5 DEF IInv, StillTrue
    <3>3. Type[y] = "genesis" => 0 \in indexes
      BY <1>5 DEF IInv, StillTrue
    <3> QED BY <3>1, <3>2, <3>3 DEF Exclude
  <2>4. ASSUME NEW x \in S, NEW y \in S, x # y PROVE ~Exclude(x, y)
    BY <1>5, <2>4 DEF Clash
  <2>5. stored' = stored \cup S
    BY DEF put_block
  <2> QED BY <2>1, <2>2, <2>3, <2>4, <2>5
<1> QED BY <1>2, <1>3, <1>6, <1>7 DEF IInv

\* A rewind takes no key image back, and not block 0.
LEMMA RewindStep ==
    ASSUME IInv, NEW t \in Threads, NEW n \in Indexes, NEW i \in Indexes, rewind(t, n, i)
    PROVE  IInv'
<1>1. TypeOK'
  BY DEF rewind, call_vars, IInv, TypeOK
<1>2. Arguments' /\ Staking'
  BY DEF rewind, call_vars, IInv, Arguments, Staking
<1>3. i # 0
  BY ValidatorAssumption DEF rewind, Indexes
<1>4. StillTrue' /\ SpentOnce'
  BY <1>3 DEF rewind, IInv, StillTrue, SpentOnce
<1> QED BY <1>1, <1>2, <1>4 DEF IInv

\* add_stake: from the lock on the thread is alone, up to the put.
LEMMA StakeStep ==
    ASSUME IInv, NEW t \in Threads,
           add_stake_lock(t) \/ add_stake_refused(t) \/ add_stake_accepted(t) \/ add_stake_put(t)
    PROVE  IInv'
<1> USE DEF IInv, TypeOK, storage_vars, call_vars
<1>1. SpentOnce' /\ StillTrue'
  BY DEF SpentOnce, StillTrue, add_stake_lock, add_stake_refused, add_stake_accepted, add_stake_put
<1>2. CASE add_stake_lock(t)
  BY <1>1, <1>2, ValidatorAssumption DEF add_stake_lock, Goto, PCs, Arguments, Staking
<1>3. CASE add_stake_refused(t)
  <2>1. Return(t) /\ write_mutex = t
    BY <1>3 DEF add_stake_refused, Staking
  <2> QED BY <1>1, <1>3, <2>1, ReturnTypes DEF add_stake_refused, Arguments, Staking
<1>4. CASE add_stake_accepted(t)
  <2>1. write_mutex = t /\ arg[t] \in Stakes
    BY <1>4 DEF add_stake_accepted, Arguments, Staking
  <2>2. CASE Return(t) /\ write_mutex' = None
    BY <1>1, <1>4, <2>1, <2>2, ReturnTypes DEF add_stake_accepted, Arguments, Staking
  <2>3. CASE arg[t].version = 1 /\ Goto(t, "stake_put") /\ UNCHANGED <<write_mutex, call_vars>>
    <3>1. candidates[arg[t].candidate] = None
      BY <1>4, <2>3 DEF add_stake_accepted, add_stake_result
    <3> QED BY <1>1, <1>4, <2>1, <2>3, <3>1
            DEF add_stake_accepted, Goto, PCs, Arguments, Staking
  <2> QED BY <1>4, <2>2, <2>3 DEF add_stake_accepted
<1>5. CASE add_stake_put(t)
  <2>1. Return(t) /\ write_mutex = t /\ write_mutex' = None /\ arg[t] \in Stakes
    BY <1>5 DEF add_stake_put, Arguments, Staking
  <2>2. arg[t].staker \in Nat /\ arg[t].candidate \in Candidates
    BY <2>1, ValidatorAssumption DEF StakeTx
  <2>3. candidates' \in [Candidates -> Nat \cup {None}]
    BY <1>5, <2>2 DEF add_stake_put
  <2> QED BY <1>1, <1>5, <2>1, <2>3, ReturnTypes DEF add_stake_put, Arguments, Staking
<1> QED BY <1>2, <1>3, <1>4, <1>5

\* Every step of every thread keeps the invariant.
LEMMA NextInv == IInv /\ [Next]_vars => IInv'
<1> SUFFICES ASSUME IInv, [Next]_vars PROVE IInv'
  OBVIOUS
<1>1. CASE UNCHANGED vars
  BY <1>1 DEF vars, IInv, TypeOK, Arguments, Staking, StillTrue, SpentOnce
<1>2. ASSUME NEW t \in Threads, calls(t) PROVE IInv'
  <2>1. ASSUME NEW x \in Txs, check_failed(t, x) PROVE IInv'
    BY <2>1, CallStep DEF check_failed
  <2>2. ASSUME NEW x \in Txs, validate_call(t, x) PROVE IInv'
    BY <2>2, CallStep DEF validate_call
  <2>3. ASSUME NEW x \in Txs, validate_uncommitted(t, x) PROVE IInv'
    BY <2>3, CallStep DEF validate_uncommitted
  <2>4. ASSUME NEW count \in 0..Cardinality(Outputs), get_random_outputs(t, count) PROVE IInv'
    <3>1. CASE Return(t)
      BY <2>4, <3>1, CallStep DEF get_random_outputs
    <3>2. CASE Goto(t, "draw") /\ UNCHANGED call_vars
      BY <2>4, <3>2 DEF get_random_outputs, Goto, call_vars, storage_vars, PCs,
                        IInv, TypeOK, Arguments, Staking, StillTrue, SpentOnce
    <3> QED BY <2>4, <3>1, <3>2 DEF get_random_outputs
  <2>5. ASSUME NEW n \in Indexes, NEW S \in SUBSET accepted[t], put_block(t, n, S) PROVE IInv'
    BY <2>5, PutBlockStep
  <2>6. ASSUME NEW s \in Stakes, add_stake(t, s) PROVE IInv'
    BY <2>6, CallStep DEF add_stake
  <2>7. ASSUME NEW n \in Indexes, NEW i \in Indexes, rewind(t, n, i) PROVE IInv'
    BY <2>7, RewindStep
  <2> QED BY <1>2, <2>1, <2>2, <2>3, <2>4, <2>5, <2>6, <2>7 DEF calls
<1>3. ASSUME NEW t \in Threads, step(t) PROVE IInv'
  <2>1. CASE validate(t)
    BY <2>1, ValidateStep
  <2>2. CASE validate_images(t)
    <3>1. CASE Return(t)
      BY <2>2, <3>1, CallStep DEF validate_images
    <3>2. CASE Goto(t, "ring") /\ UNCHANGED call_vars
      BY <2>2, <3>2 DEF validate_images, Goto, call_vars, storage_vars, PCs,
                        IInv, TypeOK, Arguments, Staking, StillTrue, SpentOnce
    <3> QED BY <2>2, <3>1, <3>2 DEF validate_images
  <2>3. CASE ring_member(t)
    <3>1. CASE Return(t)
      BY <2>3, <3>1, CallStep DEF ring_member
    <3>2. CASE k' = [k EXCEPT ![t] = @ + 1] /\ UNCHANGED <<pc, arg>>
      BY <2>3, <3>2 DEF ring_member, storage_vars,
                        IInv, TypeOK, Arguments, Staking, StillTrue, SpentOnce
    <3> QED BY <2>3, <3>1, <3>2 DEF ring_member
  <2>4. CASE ring_signatures(t)
    BY <2>4, CallStep DEF ring_signatures
  <2> QED BY <1>3, <2>1, <2>2, <2>3, <2>4, StakeStep DEF step
<1>4. ASSUME NEW t \in Threads, draw(t) PROVE IInv'
  BY <1>4, CallStep DEF draw
<1> QED BY <1>1, <1>2, <1>3, <1>4 DEF Next

-----------------------------------------------------------------------------

\* The invariant of validator, storage and staking engine always holds.
THEOREM Invariance == Spec => []IInv
BY InitInv, NextInv, PTL DEF Spec

\* Every variable keeps its type: a candidate's record is keyed by candidates.
THEOREM TypeCorrect == Spec => []TypeOK
BY Invariance, PTL DEF IInv

\* Whatever threads validate, store and rewind at the same time, a key image is
\* spent twice, or a second genesis transaction stored, only through a block
\* that holds something not fresh, two transactions that exclude each other, or
\* a genesis transaction above block 0.
THEOREM AlwaysSpentOnce == Spec => []SpentOnce
BY Invariance, PTL DEF IInv

\* No stake ever replaces a candidate.
THEOREM CandidatesStay == Spec => CandidateOnce
<1>1. ASSUME IInv, [Next]_vars
      PROVE  \A c \in Candidates : candidates[c] # None => candidates'[c] = candidates[c]
  <2> SUFFICES ASSUME NEW c \in Candidates, candidates[c] # None PROVE candidates'[c] = candidates[c]
    OBVIOUS
  <2>1. ASSUME NEW t \in Threads, add_stake_put(t) PROVE candidates'[c] = candidates[c]
    <3>1. candidates[arg[t].candidate] = None
      BY <1>1, <2>1 DEF add_stake_put, IInv, Staking
    <3> QED BY <1>1, <2>1, <3>1 DEF add_stake_put, IInv, TypeOK
  <2>2. CASE \A t \in Threads : ~add_stake_put(t)
    <3>1. UNCHANGED candidates
      BY <1>1, <2>2 DEF Next, calls, step, vars, check_failed, validate_call, validate_uncommitted,
           get_random_outputs, put_block, rewind, add_stake, validate, validate_images, ring_member,
           ring_signatures, add_stake_lock, add_stake_refused, add_stake_accepted, draw
    <3> QED BY <3>1
  <2> QED BY <2>1, <2>2
<1> QED BY <1>1, Invariance, PTL DEF Spec, CandidateOnce

=============================================================================
