--------------------------- MODULE PerpSimMirror ---------------------------
(***************************************************************************)
(* The offline model over the state of the program (sim/perp.ts:108-109:   *)
(* "State transitions match the on-chain program 1:1 (with the             *)
(* rebate-clamp shortcut: assumes vault never short)").                    *)
(***************************************************************************)
EXTENDS ChubiPerp

LivePositions == {n \in Nonces : positions[n].live}

SimPosition(p) == [maker |-> p.maker, side |-> p.side, amount |-> p.amount,
                   entryWeight |-> p.entry_weight]

Sim == INSTANCE PerpSim WITH
    Makers               <- Accounts,
    now                  <- clock,
    createdAt            <- created_at,
    lastEpochAt          <- last_epoch_at,
    isClosed             <- is_closed,
    weightedPools        <- weighted_pools,
    protocolFeeCollected <- protocol_fee_collected,
    creatorFeeCollected  <- creator_account.fee_collected,
    cumulativeFunding    <- cumulative_funding_paid,
    positions            <- [n \in LivePositions |-> SimPosition(positions[n])],
    nextId               <- position_count

(* The vault cannot spare what the step owes.                              *)
ShortOfRebate  == Available < CrankerRebate(ComputeFunding(pools))
ShortOfExit(n) == Available < Net(positions[n])

(* Whatever happened before (caps, sweeps and a close included), every     *)
(* tick, deposit, crank and exit for which the vault is not short takes    *)
(* the books where the offline model takes them; only the funding is its   *)
(* own, and never more than a basis point of the loser's pool and a        *)
(* lamport above what the offline model charges.                           *)
SimMirrorsMarket ==
    [][/\ clock' > clock => Sim!Advance(clock' - clock)
       /\ position_count' > position_count =>
              \E maker \in Accounts, side \in Sides, amount \in Amounts :
                  Sim!Deposit(maker, side, amount)
       /\ (cumulative_funding_paid' > cumulative_funding_paid /\ ~ ShortOfRebate) =>
              Sim!CrankWithin(cumulative_funding_paid' - cumulative_funding_paid)
       /\ \A n \in LivePositions :
              ~ positions[n]'.live /\ ~ ShortOfExit(n) => Sim!Exit(n)]_vars
=============================================================================
