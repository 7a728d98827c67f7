------------------------------ MODULE PerpSim ------------------------------
(***************************************************************************)
(* The offline model of a perpetual market in which the funding and the    *)
(* weight floor were designed (sim/perp.ts, class PerpSim).  It keeps the  *)
(* books of the program and leaves out what Solana adds: signers, rent,    *)
(* the widths of integers, sweeps of the fees.  The entry weight and the   *)
(* exit value are the program's own formulas, the funding is not.          *)
(***************************************************************************)
EXTENDS PerpMath

CONSTANTS Makers, Amounts, MIN_DEPOSIT_LAMPORTS, EPOCH_SECS

VARIABLES
    now, createdAt, lastEpochAt, isClosed,
    pools, weightedPools,
    vault, protocolFeeCollected, creatorFeeCollected, cumulativeFunding,
    positions,      \* Map of the ids of live positions to SimPosition
    nextId

clock_vars == <<now, createdAt, lastEpochAt, isClosed>>
sim_vars == <<clock_vars, pools, weightedPools, vault, protocolFeeCollected,
              creatorFeeCollected, cumulativeFunding, positions, nextId>>

(* Funding of one epoch.  The rate is scaled by the imbalance to whole     *)
(* basis points first, and only then applied to the loser's pool.          *)
SimFunding(amounts) ==
    LET scaledBps == (FUNDING_RATE_BPS * ImbalanceBps(amounts)) \div BPS_SCALE
    IN  IF amounts[0] = 0 \/ amounts[1] = 0 THEN 0
        ELSE (amounts[1 - FundingWinner(amounts)] * scaledBps) \div BPS_SCALE

Advance(seconds) ==
    /\ now' = now + seconds
    /\ UNCHANGED <<createdAt, lastEpochAt, isClosed, pools, weightedPools, vault,
                   protocolFeeCollected, creatorFeeCollected, cumulativeFunding, positions,
                   nextId>>

Deposit(maker, side, amount) ==
    LET weight == ComputeEntryWeight(now - createdAt)
        pos    == [maker |-> maker, side |-> side, amount |-> amount, entryWeight |-> weight]
    IN  /\ ~ isClosed
        /\ amount >= MIN_DEPOSIT_LAMPORTS
        /\ positions' = [id \in DOMAIN positions \cup {nextId} |->
                             IF id = nextId THEN pos ELSE positions[id]]
        /\ nextId' = nextId + 1
        /\ pools' = [pools EXCEPT ![side] = @ + amount]
        /\ weightedPools' = [weightedPools EXCEPT ![side] = @ + amount * weight]
        /\ vault' = vault + amount
        /\ UNCHANGED <<clock_vars, protocolFeeCollected, creatorFeeCollected, cumulativeFunding>>

(* A crank that moves the given funding.                                   *)
MoveFunding(funding) ==
    LET winner == FundingWinner(pools)
        rebate == LesserOf(CrankerRebate(funding), vault)
    IN  /\ ~ isClosed
        /\ now - lastEpochAt >= EPOCH_SECS
        /\ funding > 0
        /\ pools' = [pools EXCEPT ![1 - winner] = @ - funding,
                                  ![winner] = @ + (funding - rebate)]
        /\ vault' = vault - rebate
        /\ cumulativeFunding' = cumulativeFunding + funding
        /\ lastEpochAt' = now
        /\ UNCHANGED <<now, createdAt, isClosed, weightedPools, protocolFeeCollected,
                       creatorFeeCollected, positions, nextId>>

CrankEpoch == MoveFunding(SimFunding(pools))

Exit(id) ==
    LET pos         == positions[id]
        gross       == ComputeExitValue(pos.amount, pos.entryWeight, pools[pos.side],
                                        weightedPools[pos.side])
        profit      == IF gross > pos.amount THEN gross - pos.amount ELSE 0
        protocolFee == FeeOn(profit, PROTOCOL_FEE_BPS)
        creatorFee  == FeeOn(profit, CREATOR_FEE_BPS)
    IN  /\ pools' = [pools EXCEPT ![pos.side] = @ - gross]
        /\ weightedPools' = [weightedPools EXCEPT ![pos.side] = @ - pos.amount * pos.entryWeight]
        /\ vault' = vault - (gross - protocolFee - creatorFee)
        /\ protocolFeeCollected' = protocolFeeCollected + protocolFee
        /\ creatorFeeCollected' = creatorFeeCollected + creatorFee
        /\ positions' = [other \in DOMAIN positions \ {id} |-> positions[other]]
        /\ UNCHANGED <<clock_vars, cumulativeFunding, nextId>>

(* A crank of the offline model, but for what the truncation of the scaled *)
(* rate may lose: a basis point of the loser's pool.                       *)
CrankWithin(funding) ==
    /\ SimFunding(pools) <= funding
    /\ funding <= SimFunding(pools) + pools[1 - FundingWinner(pools)] \div BPS_SCALE + 1
    /\ MoveFunding(funding)
=============================================================================
