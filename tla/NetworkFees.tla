----------------------------- MODULE NetworkFees -----------------------------
(***************************************************************************)
(* network_fees.cpp with the constants of config.h.  Discounts are whole   *)
(* percentages; the code multiplies floats, which agrees with integer      *)
(* arithmetic for every base fee below 450 (14 zeros and a base fee of 450 *)
(* are the first to differ, by one atomic unit).  A hash has at most 256   *)
(* zeros; the code throws for more.                                        *)
(***************************************************************************)
EXTENDS Integers

MINIMUM_FEE == 1
CHUNK_SIZE == 32
BASE_CHUNK_SIZE == CHUNK_SIZE * 10
CHUNK_FEE == 1
MINIMUM_POW_ZEROS == 1
MAXIMUM_POW_ZEROS == 16
POW_ZERO_DISCOUNT_MULTIPLIER == 2

calculate_base_transaction_fee(size) ==
    IF size <= BASE_CHUNK_SIZE THEN MINIMUM_FEE
    ELSE LET chunks == (size - BASE_CHUNK_SIZE + CHUNK_SIZE - 1) \div CHUNK_SIZE
         IN  chunks * CHUNK_FEE + MINIMUM_FEE

calculate_transaction_discount(zeros) ==
    (CASE zeros <= MINIMUM_POW_ZEROS -> 0
       [] zeros >= MAXIMUM_POW_ZEROS -> MAXIMUM_POW_ZEROS - MINIMUM_POW_ZEROS
       [] OTHER -> zeros - MINIMUM_POW_ZEROS) * POW_ZERO_DISCOUNT_MULTIPLIER

calculate_transaction_fee(size, zeros) ==
    LET base == calculate_base_transaction_fee(size)
        discounted == base - (base * calculate_transaction_discount(zeros)) \div 100
    IN  IF discounted > MINIMUM_FEE THEN discounted ELSE MINIMUM_FEE
=============================================================================
