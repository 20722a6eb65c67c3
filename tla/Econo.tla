-------------------------------- MODULE Econo --------------------------------
(***************************************************************************)
(* The economic health loop (src/evm/econo_loop.go): a package variable    *)
(* that the task registry, state rent, the storage endowment and mineral   *)
(* rights accrue into, and the policy that ProduceBlock draws from it at   *)
(* every epoch.  The window is measured in uint64 arithmetic.  The split   *)
(* into professional and micro tasks feeds an indicator only and is left   *)
(* out.                                                                    *)
(***************************************************************************)
EXTENDS Precompiles

CONSTANTS
    Supply0,            \* WAYStartingSupply
    EpochLength,        \* blocks of an epoch
    Window,             \* EconoWindowBlocks
    OutputThreshold,    \* EconoGBPExpansionThreshold
    VelocityThreshold,  \* EconoVelocityExpansionThreshold, basis points
    SurgeClaims,        \* EconoMRTExpansionClaims
    MRTWeight,          \* EconoMRTPayWeight
    BurnBps,            \* EconoExpansionBurnBps
    MaxBurnBps          \* EconoMaxBurnBps

ASSUME EconoAssumption ==
    /\ EpochLength \in Nat \ {0} /\ Window \in Nat \ {0}
    /\ {Supply0, OutputThreshold, VelocityThreshold, SurgeClaims, MRTWeight,
        BurnBps, MaxBurnBps} \subseteq Nat

VARIABLES
    supply,         \* waySupplySlot: the live total supply
    econoSnap,      \* econoSnap
    econoPolicy     \* econoPolicy, as the phase it was last set for

econoVars == <<supply, econoSnap, econoPolicy>>

Snapshots == [gbp : Nat, tasks : Nat, mrtPaid : Nat, mrtClaims : Nat,
              rent : Nat, storage : Nat, start : Nat, phase : {0, 1}]

NewWindow(b) == [gbp |-> 0, tasks |-> 0, mrtPaid |-> 0, mrtClaims |-> 0,
                 rent |-> 0, storage |-> 0, start |-> b, phase |-> 0]

EconoInit ==
    /\ supply = Supply0
    /\ econoSnap = NewWindow(0)
    /\ econoPolicy = "cold"

\* The reset at the head of each accrual, for a caller that passes block b.
Reset(b) == IF Sub64(b, econoSnap.start) >= Window THEN NewWindow(b) ELSE econoSnap

EconoAccruePayout(amount, b) ==
    econoSnap' = [Reset(b) EXCEPT !.gbp = Add64(@, amount), !.tasks = Add64(@, 1)]

EconoAccrueMRT(tokens, b) ==
    econoSnap' = [Reset(b) EXCEPT !.mrtPaid = Add64(@, tokens * MRTWeight),
                                  !.mrtClaims = Add64(@, 1), !.tasks = Add64(@, 1)]

EconoAccrueRent(amount, b) ==
    econoSnap' = [Reset(b) EXCEPT !.rent = Add64(@, amount), !.tasks = Add64(@, 1)]

EconoAccrueStorage(amount, b) ==
    econoSnap' = [Reset(b) EXCEPT !.storage = Add64(@, amount), !.tasks = Add64(@, 1)]

EconoGBPEquiv ==
    (econoSnap.gbp + econoSnap.rent + econoSnap.mrtPaid + econoSnap.storage) % Word

EconoVelocityBps ==
    IF supply = 0 THEN 0 ELSE (econoSnap.tasks * 10000) \div supply

ComputeEconoPhase ==
    IF \/ EconoGBPEquiv >= OutputThreshold /\ EconoVelocityBps >= VelocityThreshold
       \/ econoSnap.mrtClaims >= SurgeClaims
    THEN 1 ELSE 0

\* A restart: the package variables start anew.
EconoRestart ==
    /\ econoSnap' = NewWindow(0)
    /\ econoPolicy' = "cold"

\* AccrueEcono and ApplyEconoPolicy, at an epoch's end: the snapshot and the
\* policy take the new phase.
AccrueEcono ==
    /\ econoSnap' = [econoSnap EXCEPT !.phase = ComputeEconoPhase]
    /\ econoPolicy' = IF ComputeEconoPhase = 1 THEN "burn" ELSE "grant"

\* What ApplyEconoPolicy burns of a treasury of n.
TreasuryBurn(n) ==
    LET bps == IF BurnBps > MaxBurnBps THEN MaxBurnBps ELSE BurnBps
    IN IF ComputeEconoPhase = 1 THEN (n * bps) \div 10000 ELSE 0
=============================================================================
