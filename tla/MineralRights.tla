---------------------------- MODULE MineralRights ----------------------------
(***************************************************************************)
(* The mineral rights precompile 0x20 (src/evm/mineral_rights.go): a claim *)
(* is registered, attested to by verifiers of several professions, has its *)
(* reserves approved, and is turned into tokens.  Status only ever takes   *)
(* the values up to Active: no operation freezes or cancels a claim.       *)
(*                                                                         *)
(* Names are stored in 32 bytes, so the name that is read back (Cut) is    *)
(* the account's own only when it is short enough.  Dates, the spot price  *)
(* and the block of the environmental check are written and read by no     *)
(* condition; they are left out.                                           *)
(*                                                                         *)
(* The record of a verifier is its role and 30 bytes of the claim's ID,    *)
(* and records are found by scanning all values of the precompile: a deed  *)
(* hash or a name that a caller chose may pass for one.                    *)
(***************************************************************************)
EXTENDS Econo, FiniteSets, FiniteSetsExt

CONSTANTS
    Cut,        \* the first 32 bytes of an account's name
    Names,      \* the names that can be read back
    Miners,     \* bound: the accounts that register claims ...
    Others,     \* ... and the names claims are registered for or passed to
    Deeds,      \* deed hashes, none of them zero
    Roles,      \* professions a verifier may state
    Ounces,     \* reserves that may be approved
    Nobody,     \* the empty name
    PassesFor   \* the deeds and names whose bytes are those of a verifier's
                \* record, each with its [role, claim]

ASSUME MineralRightsAssumption ==
    /\ Cut \in [Accounts -> Names] /\ IsFiniteSet(Names)
    /\ Miners \subseteq Accounts /\ Others \subseteq Names
    /\ {"lawyer", "surveyor"} \subseteq Roles
    /\ Ounces \subseteq Nat
    /\ Nobody \notin Names

Pending == 1
Verified == 2
Reserved == 3
Issued == 4
Active == 5

Tiers == {"inferred", "indicated", "measured"}

VARIABLES
    mrt,        \* claims by identifier: the caller, the deed and the block
    mrtBal,     \* tokens of each claim by name
    mrtCount,   \* mrtSlotClaimCount
    written     \* history: the deeds and names ever stored

mrtVars == <<mrt, mrtBal, mrtCount, written>>

MrtInit ==
    /\ mrt = [id \in {} |-> 0]
    /\ mrtBal = [id \in {} |-> 0]
    /\ mrtCount = 0
    /\ written = {}

NewClaim(deed, owner) ==
    [deed |-> deed, owner |-> owner, transferee |-> Nobody, status |-> Pending, tier |-> "none",
     ounces |-> 0, tokens |-> 0, attest |-> [v \in {} |-> 0]]

-----------------------------------------------------------------------------

\* mrtRegisterClaim: in another's name, or for the caller when none is given.
RegisterClaim(c, deed, name) ==
    LET id == <<c, deed, block>>
        owner == IF name = Nobody THEN Cut[c] ELSE name
    IN /\ Call
       /\ Level[c] >= 2
       /\ id \notin DOMAIN mrt
       /\ mrt' = [i \in DOMAIN mrt \cup {id} |-> IF i = id THEN NewClaim(deed, owner) ELSE mrt[i]]
       /\ mrtBal' = [i \in DOMAIN mrt \cup {id} |->
                        IF i = id THEN [n \in Names |-> 0] ELSE mrtBal[i]]
       /\ mrtCount' = mrtCount + 1
       /\ written' = written \cup {deed, owner}
       /\ UNCHANGED econoVars

\* Attestations of a claim, after verifier v has added one.
Attested(id, v, role, ok) ==
    [u \in DOMAIN mrt[id].attest \cup {v} |->
        IF u = v THEN [role |-> role, ok |-> ok] ELSE mrt[id].attest[u]]

\* The deeds and names in storage, and the ones among xs that pass for a record.
Stored ==
    (UNION {{mrt[id].deed, mrt[id].owner, mrt[id].transferee} : id \in DOMAIN mrt}) \ {Nobody}
Forged(xs, id, role) ==
    \E x \in xs \cap DOMAIN PassesFor : PassesFor[x] = [role |-> role, claim |-> id]

HasRole(attest, role) == \E v \in DOMAIN attest : attest[v].role = role

\* mrtGetVerifierRoles: the records of the claim, and what passes for one.
RoleFound(id, attest, role) == HasRole(attest, role) \/ Forged(Stored, id, role)

\* Ownership counts as verified with the approval of the verifier that completes
\* a lawyer and a surveyor; what the earlier ones said is not looked at.
\* (Mutant: two attestations are enough.)
CompletesCount(id, attest, ok) == ok /\ Cardinality(DOMAIN attest) >= 2
Completes(id, attest, ok) ==
    /\ ok
    /\ Cardinality(DOMAIN attest) >= 2
    /\ RoleFound(id, attest, "lawyer") /\ RoleFound(id, attest, "surveyor")

\* mrtVerifyClaim: once per verifier, at any status; an approval of a claim that
\* is, or now becomes, verified accrues with the tokens the claim has by then.
VerifyClaim(v, id, role, ok) ==
    LET attest == Attested(id, v, role, ok)
        status == IF mrt[id].status = Pending /\ Completes(id, attest, ok)
                  THEN Verified ELSE mrt[id].status
    IN /\ Call
       /\ Level[v] >= 2
       /\ v \notin DOMAIN mrt[id].attest
       /\ mrt' = [mrt EXCEPT ![id].attest = attest, ![id].status = status]
       /\ IF status = Verified /\ ok
          THEN EconoAccrueMRT(mrt[id].tokens, block)
          ELSE UNCHANGED econoSnap
       /\ UNCHANGED <<mrtBal, mrtCount, written, supply, econoPolicy>>

VerifiersNeeded(tier) == IF tier = "inferred" THEN 2 ELSE 3

ApproveReserve(c, id, tier, ounces) ==
    /\ Call
    /\ Level[c] >= 2
    /\ mrt[id].status = Verified
    /\ Cardinality(DOMAIN mrt[id].attest) >= VerifiersNeeded(tier)
    /\ mrt' = [mrt EXCEPT ![id].status = Reserved, ![id].tier = tier, ![id].ounces = ounces]
    /\ UNCHANGED <<mrtBal, mrtCount, written, econoVars>>

\* mrtIssueTokens, by anyone: one token for an ounce, to the original owner.
\* (Mutant: tokens can be issued again once they are out.)
IssuableAgain(id) == mrt[id].status >= Reserved
Issuable(id) == mrt[id].status = Reserved

IssueTokens(id) ==
    /\ Call
    /\ Issuable(id)
    /\ mrt' = [mrt EXCEPT ![id].status = Issued, ![id].tokens = mrt[id].ounces]
    /\ mrtBal' = [mrtBal EXCEPT ![id][mrt[id].owner] = @ + mrt[id].ounces]
    /\ UNCHANGED <<mrtCount, written, econoVars>>

EnvironmentalCheck(c, id) ==
    /\ Call
    /\ Level[c] >= 2
    /\ mrt[id].status >= Issued
    /\ mrt' = [mrt EXCEPT ![id].status = Active]
    /\ UNCHANGED <<mrtBal, mrtCount, written, econoVars>>

\* mrtTransferRights names a new holder; the tokens stay where they are.  An
\* empty name is not stored.
TransferRights(c, id, name) ==
    LET holder == IF mrt[id].transferee # Nobody THEN mrt[id].transferee ELSE mrt[id].owner
    IN /\ Call
       /\ c = holder
       /\ mrt' = [mrt EXCEPT ![id].transferee = IF name = Nobody THEN @ ELSE name]
       /\ written' = written \cup ({name} \ {Nobody})
       /\ UNCHANGED <<mrtBal, mrtCount, econoVars>>

MrtNext ==
    \/ \E c \in Miners, deed \in Deeds, name \in Others \cup {Nobody} :
           RegisterClaim(c, deed, name)
    \/ \E v \in Accounts, id \in DOMAIN mrt :
          \/ \E role \in Roles, ok \in BOOLEAN : VerifyClaim(v, id, role, ok)
          \/ \E tier \in Tiers, ounces \in Ounces : ApproveReserve(v, id, tier, ounces)
          \/ EnvironmentalCheck(v, id)
          \/ \E name \in Others \cup {Nobody} : TransferRights(v, id, name)
    \/ \E id \in DOMAIN mrt : IssueTokens(id)

-----------------------------------------------------------------------------
(* Properties *)

\* A claim passes the stages only on the word of enough different verifiers: an
\* approval behind a verified claim, and the number of verifiers its tier asks for
\* behind approved reserves.  The lawyer and the surveyor of a verified claim are
\* verifiers that said so, or a deed or name some caller stored that reads like
\* their record.
ClaimsAttested ==
    \A id \in DOMAIN mrt :
        LET c == mrt[id]
        IN /\ c.status >= Verified =>
                 /\ \A role \in {"lawyer", "surveyor"} :
                       HasRole(c.attest, role) \/ Forged(written, id, role)
                 /\ \E v \in DOMAIN c.attest : c.attest[v].ok
           /\ c.status >= Reserved =>
                 Cardinality(DOMAIN c.attest) >= (IF c.tier = "inferred" THEN 2 ELSE 3)

\* Tokens are backed ounce for ounce: what all names hold of a claim is what its
\* reserves were approved for, once it is issued, and nothing before.
TokensBacked ==
    \A id \in DOMAIN mrt :
        SumFunctionOnSet(mrtBal[id], Names) =
            IF mrt[id].status >= Issued THEN mrt[id].ounces ELSE 0
=============================================================================
