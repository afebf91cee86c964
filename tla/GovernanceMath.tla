---------------------------- MODULE GovernanceMath ----------------------------
(***************************************************************************)
(* The integer arithmetic of code governance                               *)
(* (crates/governance-core/src/{math,identity,gates,epoch_governance}.rs): *)
(* the weight of a vote and the ratios the gates compare.  The code's      *)
(* scale is 10_000 basis points; every constant of the code is written     *)
(* here as its share of BasisPoints, so that a small scale exercises the   *)
(* same rounding.                                                          *)
(***************************************************************************)
EXTENDS Integers, FiniteSets, FiniteSetsExt, Sequences

CONSTANTS
    BasisPoints,    \* 10_000 in the code
    StakeQuantum    \* STAKE_QUANTUM_ATOMS

ASSUME GovernanceMathAssumption ==
    /\ BasisPoints \in Nat \ {0} /\ BasisPoints % 20 = 0
    /\ StakeQuantum \in Nat \ {0}

\* integer_sqrt: the largest r with r <= value / r, by bisection between 1 and
\* the power of two of half the bits, rounded up.
BitLength(value) == CHOOSE n \in 0..value : value < 2^n /\ (n = 0 \/ 2^(n - 1) <= value)

IntegerSqrt(value) ==
    LET top == 2^((BitLength(value) + 1) \div 2)
        search[width \in 0..top] ==
            [low \in 1..top |->
                IF width = 0 THEN low
                ELSE LET middle == low + (width + 1) \div 2
                     IN  IF middle <= value \div middle
                         THEN search[low + width - middle][middle]
                         ELSE search[middle - 1 - low][low]]
    IN  IF value < 2 THEN value ELSE search[top - 1][1]

StakeScore(atoms) == IntegerSqrt(atoms \div StakeQuantum)

\* IdentityState::status_bps; 0 stands for None, a state that may not vote.
StatusBps(status) ==
    CASE status = "Human" -> BasisPoints
      [] status = "Verified" -> (17 * BasisPoints) \div 20
      [] status = "Newbie" -> (7 * BasisPoints) \div 10
      [] OTHER -> 0

VerifiedOrHuman(status) == status \in {"Human", "Verified"}

\* flip_trust_bps, for reported <= finalized.
FlipTrustBps(finalized, reported) ==
    LET rate == ((reported + 1) * BasisPoints) \div (finalized + 20)
        penalty == (((3 * BasisPoints) \div 2) * rate) \div BasisPoints
        raw == IF penalty > BasisPoints THEN 0 ELSE BasisPoints - penalty
    IN  Max({raw, (2 * BasisPoints) \div 5})

EffectiveVoteWeight(atoms, status, trust) ==
    (StakeScore(atoms) * StatusBps(status) * trust) \div (BasisPoints * BasisPoints)

\* ratio_bps: numerator / denominator in basis points, without a product that
\* could overflow: the remainder is carried BasisPoints times.
RatioBps(numerator, denominator) ==
    LET capped == Min({numerator, denominator})
        addend == capped % denominator
        carry[n \in 0..BasisPoints] ==
            IF n = 0 THEN [remainder |-> 0, fractional |-> 0]
            ELSE LET c == carry[n - 1]
                 IN  IF addend # 0 /\ c.remainder >= denominator - addend
                     THEN [remainder |-> c.remainder - (denominator - addend),
                           fractional |-> c.fractional + 1]
                     ELSE [remainder |-> c.remainder + addend,
                           fractional |-> c.fractional]
    IN  IF denominator = 0 THEN 0
        ELSE Min({(capped \div denominator) * BasisPoints
                    + carry[BasisPoints].fractional, BasisPoints})

\* apply_bps and mul_bps: a share of an amount, whole units and remainder apart.
ApplyBps(amount, bps) ==
    (amount \div BasisPoints) * bps + ((amount % BasisPoints) * bps) \div BasisPoints

==============================================================================
