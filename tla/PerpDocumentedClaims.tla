------------------------ MODULE PerpDocumentedClaims ------------------------
(***************************************************************************)
(* Statements that the repository's own documentation makes about the      *)
(* perpetual program and that its code does not keep.                      *)
(***************************************************************************)
EXTENDS MCPerp

(* constants.rs:18-20, a weight floor of 0.9 "caps that worst-case         *)
(* dilution at ~10%", the part of the principal that a deposit loses on    *)
(* the spot to earlier holders of its side: right after a deposit the      *)
(* position is worth 85% of it or more.                                    *)
DocumentedDilutionCap ==
    [][\A n \in Nonces :
          n = position_count /\ positions'[n].live =>
              100 * Gross(positions[n])' >= 85 * positions'[n].amount]_vars

-----------------------------------------------------------------------------
(* sim/perp.ts:108-109, "State transitions match the on-chain program 1:1  *)
(* (with the rebate-clamp shortcut: assumes vault never short)": a crank   *)
(* that is not short of its rebate is a crank of the offline model.        *)
DocumentedSimMirror ==
    [][cumulative_funding_paid' > cumulative_funding_paid /\ ~ ShortOfRebate =>
          Sim!CrankEpoch]_vars
=============================================================================
