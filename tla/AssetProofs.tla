---------------------------- MODULE AssetProofs ------------------------------
(***************************************************************************)
(* The assets of the economy of module Economy: the claims on minerals and *)
(* the tokens issued for them, the supply of SWAY, and the locks.          *)
(***************************************************************************)
EXTENDS Economy, Sums, TLAPS

-----------------------------------------------------------------------------
(* Mineral rights *)

Attestation == [role : Roles, ok : BOOLEAN]
Attestations == UNION {[S -> Attestation] : S \in SUBSET Accounts}

Claims ==
    [deed : Deeds, owner : Names, transferee : Names \cup {Nobody}, status : 1 .. 5,
     tier : Tiers \cup {"none"}, ounces : Nat, tokens : Nat, attest : Attestations]

Approved(attest) == \E v \in DOMAIN attest : attest[v].ok

\* A role somebody stated, or that something among xs passes for.
Spoken(xs, id, attest, role) == HasRole(attest, role) \/ Forged(xs, id, role)

\* What ClaimsAttested says of one claim when xs was written; and what the claim
\* itself stores is among it.
WellAttested(xs, id, c) ==
    /\ c.status >= Verified =>
          /\ Spoken(xs, id, c.attest, "lawyer") /\ Spoken(xs, id, c.attest, "surveyor")
          /\ Approved(c.attest)
    /\ c.status >= Reserved =>
          Cardinality(DOMAIN c.attest) >= (IF c.tier = "inferred" THEN 2 ELSE 3)
    /\ {c.deed, c.owner, c.transferee} \subseteq xs \cup {Nobody}

MrtClaimsInv ==
    /\ mrt \in [DOMAIN mrt -> Claims]
    /\ \A id \in DOMAIN mrt : WellAttested(written, id, mrt[id])

\* What is written stays written.
LEMMA WellAttestedMore ==
  ASSUME NEW xs, NEW ys, xs \subseteq ys, NEW id, NEW c, WellAttested(xs, id, c)
  PROVE  WellAttested(ys, id, c)
<1>1. \A role : Spoken(xs, id, c.attest, role) => Spoken(ys, id, c.attest, role)
  BY DEF Spoken, Forged
<1> QED
  BY <1>1 DEF WellAttested

LEMMA StoredIsWritten ==
  ASSUME MrtClaimsInv
  PROVE  Stored \subseteq written
<1> SUFFICES ASSUME NEW x \in Stored PROVE x \in written
  OBVIOUS
<1>1. x # Nobody
  BY DEF Stored
<1>2. PICK id \in DOMAIN mrt : x \in {mrt[id].deed, mrt[id].owner, mrt[id].transferee}
  BY DEF Stored
<1>3. {mrt[id].deed, mrt[id].owner, mrt[id].transferee} \subseteq written \cup {Nobody}
  BY DEF MrtClaimsInv, WellAttested
<1> QED
  BY <1>1, <1>2, <1>3

LEMMA AttestersFinite ==
  ASSUME NEW a \in Attestations
  PROVE  /\ DOMAIN a \subseteq Accounts /\ a \in [DOMAIN a -> Attestation]
         /\ IsFiniteSet(DOMAIN a) /\ Cardinality(DOMAIN a) \in Nat
<1>1. DOMAIN a \subseteq Accounts /\ a \in [DOMAIN a -> Attestation]
  BY DEF Attestations
<1> QED
  BY <1>1, QuestsAssumption, FS_Subset, FS_CardinalityType

\* One more attestation takes nothing away from the others.
LEMMA MoreAttested ==
  ASSUME NEW a \in Attestations, NEW v \in Accounts, v \notin DOMAIN a,
         NEW role \in Roles, NEW ok \in BOOLEAN,
         NEW b, b = [u \in DOMAIN a \cup {v} |-> IF u = v THEN [role |-> role, ok |-> ok] ELSE a[u]]
  PROVE  /\ b \in Attestations
         /\ \A r : HasRole(a, r) => HasRole(b, r)
         /\ Approved(a) => Approved(b)
         /\ ok => Approved(b)
         /\ Cardinality(DOMAIN b) >= Cardinality(DOMAIN a)
<1>1. DOMAIN a \subseteq Accounts /\ a \in [DOMAIN a -> Attestation]
  BY AttestersFinite
<1>2. DOMAIN b = DOMAIN a \cup {v} /\ b[v].ok = ok
      /\ \A u \in DOMAIN a : b[u] = a[u]
  OBVIOUS
<1>3. b \in Attestations
  <2>1. [role |-> role, ok |-> ok] \in Attestation
    BY DEF Attestation
  <2>2. b \in [DOMAIN a \cup {v} -> Attestation]
    BY <1>1, <2>1
  <2>3. DOMAIN a \cup {v} \in SUBSET Accounts
    BY <1>1
  <2> QED
    BY <2>2, <2>3 DEF Attestations
<1>4. \A r : HasRole(a, r) => HasRole(b, r)
  BY <1>2 DEF HasRole
<1>5. (Approved(a) => Approved(b)) /\ (ok => Approved(b))
  BY <1>2 DEF Approved
<1>6. Cardinality(DOMAIN b) >= Cardinality(DOMAIN a)
  <2>1. /\ IsFiniteSet(DOMAIN a) /\ Cardinality(DOMAIN a) \in Nat
    BY AttestersFinite
  <2>2. Cardinality(DOMAIN a \cup {v}) = Cardinality(DOMAIN a) + 1
    BY <2>1, FS_AddElement
  <2> QED
    BY <1>2, <2>1, <2>2
<1> QED
  BY <1>3, <1>4, <1>5, <1>6

\* Fields of a claim that an update leaves alone.
LEMMA IssuedClaim ==
  ASSUME NEW r \in Claims, NEW st \in 1 .. 5
  PROVE  LET c == [r EXCEPT !.status = st, !.tokens = r.ounces]
         IN /\ c \in Claims /\ c.attest = r.attest /\ c.tier = r.tier /\ c.status = st
            /\ c.deed = r.deed /\ c.owner = r.owner /\ c.transferee = r.transferee
<1> DEFINE c == [r EXCEPT !.status = st, !.tokens = r.ounces]
<1>1. c \in Claims
  BY DEF Claims
<1>2. /\ c.attest = r.attest /\ c.tier = r.tier /\ c.status = st
      /\ c.deed = r.deed /\ c.owner = r.owner /\ c.transferee = r.transferee
  BY DEF Claims
<1> QED
  BY <1>1, <1>2

\* Replacing one claim by another that is well attested.
LEMMA OneClaimChanged ==
  ASSUME MrtClaimsInv, NEW id \in DOMAIN mrt, NEW c \in Claims, written \subseteq written',
         WellAttested(written', id, c), mrt' = [mrt EXCEPT ![id] = c]
  PROVE  MrtClaimsInv'
<1>1. DOMAIN mrt' = DOMAIN mrt /\ mrt' \in [DOMAIN mrt -> Claims]
  BY DEF MrtClaimsInv
<1>2. ASSUME NEW i \in DOMAIN mrt PROVE WellAttested(written', i, mrt'[i])
  <2>1. CASE i = id
    <3>1. mrt'[i] = c
      BY <2>1
    <3> QED
      BY <2>1, <3>1
  <2>2. CASE i # id
    <3>1. mrt'[i] = mrt[i] /\ WellAttested(written, i, mrt[i])
      BY <2>2 DEF MrtClaimsInv
    <3> QED
      BY <3>1, WellAttestedMore
  <2> QED
    BY <2>1, <2>2
<1> QED
  BY <1>1, <1>2 DEF MrtClaimsInv

LEMMA RegisterClaimKeeps ==
  ASSUME MrtClaimsInv, NEW c \in Accounts, NEW deed \in Deeds, NEW name \in Names \cup {Nobody},
         RegisterClaim(c, deed, name)
  PROVE  MrtClaimsInv'
<1> DEFINE id == <<c, deed, block>>
           owner == IF name = Nobody THEN Cut[c] ELSE name
           D == DOMAIN mrt \cup {id}
<1>1. /\ mrt' = [i \in D |-> IF i = id THEN NewClaim(deed, owner) ELSE mrt[i]]
      /\ written' = written \cup {deed, owner}
  BY DEF RegisterClaim
<1>2. owner \in Names
  BY MineralRightsAssumption
<1>3. [v \in {} |-> 0] \in Attestations
  <2>1. [v \in {} |-> 0] \in [{} -> Attestation] /\ {} \in SUBSET Accounts
    OBVIOUS
  <2> QED
    BY <2>1 DEF Attestations
<1>4. NewClaim(deed, owner) \in Claims
  BY <1>2, <1>3 DEF NewClaim, Claims, Pending
<1> HIDE DEF id, owner
<1>5. WellAttested(written', id, NewClaim(deed, owner))
  BY <1>1 DEF NewClaim, WellAttested, Pending, Verified, Reserved
<1>6. DOMAIN mrt' = D /\ mrt' \in [D -> Claims]
  BY <1>1, <1>4 DEF MrtClaimsInv
<1>7. ASSUME NEW i \in D PROVE WellAttested(written', i, mrt'[i])
  <2>1. CASE i = id
    <3>1. mrt'[i] = NewClaim(deed, owner)
      BY <1>1, <2>1
    <3> QED
      BY <1>5, <2>1, <3>1
  <2>2. CASE i # id
    <3>1. mrt'[i] = mrt[i] /\ WellAttested(written, i, mrt[i]) /\ written \subseteq written'
      BY <1>1, <2>2 DEF MrtClaimsInv
    <3> QED
      BY <3>1, WellAttestedMore
  <2> QED
    BY <2>1, <2>2
<1> QED
  BY <1>6, <1>7 DEF MrtClaimsInv

LEMMA VerifyClaimKeeps ==
  ASSUME MrtClaimsInv, NEW v \in Accounts, NEW id \in DOMAIN mrt, NEW role \in Roles,
         NEW ok \in BOOLEAN, VerifyClaim(v, id, role, ok)
  PROVE  MrtClaimsInv'
<1> DEFINE a == mrt[id].attest
           b == Attested(id, v, role, ok)
           st == IF mrt[id].status = Pending /\ Completes(id, b, ok) THEN Verified
                 ELSE mrt[id].status
           c == [mrt[id] EXCEPT !.attest = b, !.status = st]
<1>1. /\ v \notin DOMAIN a
      /\ mrt' = [mrt EXCEPT ![id] = c] /\ written' = written
  BY DEF VerifyClaim
<1>2. /\ mrt[id] \in Claims /\ WellAttested(written, id, mrt[id]) /\ a \in Attestations
      /\ mrt[id].status \in 1 .. 5
  BY DEF MrtClaimsInv, Claims
<1>3. /\ b \in Attestations
      /\ \A r : HasRole(a, r) => HasRole(b, r)
      /\ Approved(a) => Approved(b)
      /\ ok => Approved(b)
      /\ Cardinality(DOMAIN b) >= Cardinality(DOMAIN a)
  <2>1. b = [u \in DOMAIN a \cup {v} |-> IF u = v THEN [role |-> role, ok |-> ok] ELSE a[u]]
    BY DEF Attested
  <2> HIDE DEF a, b
  <2> QED
    BY <1>1, <1>2, <2>1, MoreAttested
<1>4. /\ st \in 1 .. 5
      /\ st >= Verified =>
            Spoken(written, id, b, "lawyer") /\ Spoken(written, id, b, "surveyor") /\ Approved(b)
      /\ st >= Reserved => mrt[id].status = st
  <2>1. CASE mrt[id].status = Pending /\ Completes(id, b, ok)
    <3>1. st = Verified
      BY <2>1
    <3>2. ASSUME NEW r, RoleFound(id, b, r) PROVE Spoken(written, id, b, r)
      BY <3>2, StoredIsWritten DEF RoleFound, Spoken, Forged
    <3>3. Spoken(written, id, b, "lawyer") /\ Spoken(written, id, b, "surveyor") /\ Approved(b)
      BY <1>3, <2>1, <3>2 DEF Completes
    <3> QED
      BY <3>1, <3>3 DEF Verified, Reserved
  <2>2. CASE ~(mrt[id].status = Pending /\ Completes(id, b, ok))
    <3>1. \A r : Spoken(written, id, a, r) => Spoken(written, id, b, r)
      BY <1>3 DEF Spoken
    <3> QED
      BY <1>2, <1>3, <2>2, <3>1 DEF WellAttested
  <2> QED
    BY <2>1, <2>2
<1>5. Cardinality(DOMAIN a) \in Nat /\ Cardinality(DOMAIN b) \in Nat
  BY <1>2, <1>3, AttestersFinite
<1> HIDE DEF b, st
<1>6. /\ c \in Claims /\ c.attest = b /\ c.status = st /\ c.tier = mrt[id].tier
      /\ c.deed = mrt[id].deed /\ c.owner = mrt[id].owner /\ c.transferee = mrt[id].transferee
  BY <1>2, <1>3, <1>4 DEF Claims
<1>7. WellAttested(written, id, c)
  <2>1. st >= Reserved => Cardinality(DOMAIN a) >= (IF mrt[id].tier = "inferred" THEN 2 ELSE 3)
    BY <1>2, <1>4 DEF WellAttested
  <2>2. {c.deed, c.owner, c.transferee} \subseteq written \cup {Nobody}
    BY <1>2, <1>6 DEF WellAttested
  <2> QED
    BY <1>3, <1>4, <1>5, <1>6, <2>1, <2>2 DEF WellAttested
<1> QED
  BY <1>1, <1>6, <1>7, OneClaimChanged

LEMMA ApproveReserveKeeps ==
  ASSUME MrtClaimsInv, NEW id \in DOMAIN mrt, NEW v, NEW tier \in Tiers, NEW ounces \in Ounces,
         ApproveReserve(v, id, tier, ounces)
  PROVE  MrtClaimsInv'
<1> DEFINE c1 == [mrt[id] EXCEPT !.status = Reserved]
           c2 == [c1 EXCEPT !.tier = tier]
           c3 == [c2 EXCEPT !.ounces = ounces]
<1>1. mrt[id] \in Claims /\ WellAttested(written, id, mrt[id])
  BY DEF MrtClaimsInv
<1>2. Reserved \in 1 .. 5 /\ ounces \in Nat
  BY MineralRightsAssumption DEF Reserved
<1>3. /\ mrt' = [mrt EXCEPT ![id] = c3] /\ written' = written
      /\ mrt[id].status = Verified
      /\ Cardinality(DOMAIN mrt[id].attest) >= (IF tier = "inferred" THEN 2 ELSE 3)
  BY DEF ApproveReserve, VerifiersNeeded
<1>4. /\ c1 \in Claims /\ c1.attest = mrt[id].attest /\ c1.status = Reserved
      /\ c1.deed = mrt[id].deed /\ c1.owner = mrt[id].owner /\ c1.transferee = mrt[id].transferee
  BY <1>1, <1>2 DEF Claims
<1> HIDE DEF c1
<1>5. /\ c2 \in Claims /\ c2.attest = c1.attest /\ c2.status = c1.status /\ c2.tier = tier
      /\ c2.deed = c1.deed /\ c2.owner = c1.owner /\ c2.transferee = c1.transferee
  BY <1>4 DEF Claims
<1> HIDE DEF c2
<1>6. /\ c3 \in Claims /\ c3.attest = c2.attest /\ c3.status = c2.status /\ c3.tier = c2.tier
      /\ c3.deed = c2.deed /\ c3.owner = c2.owner /\ c3.transferee = c2.transferee
  BY <1>2, <1>5 DEF Claims
<1> HIDE DEF c3
<1>7. WellAttested(written, id, c3)
  BY <1>1, <1>3, <1>4, <1>5, <1>6 DEF WellAttested, Verified, Reserved
<1> QED
  BY <1>3, <1>6, <1>7, OneClaimChanged

LEMMA LaterStagesKeep ==
  ASSUME MrtClaimsInv, NEW id \in DOMAIN mrt, NEW v,
         IssueTokens(id) \/ EnvironmentalCheck(v, id)
  PROVE  MrtClaimsInv'
<1>1. mrt[id] \in Claims /\ WellAttested(written, id, mrt[id])
  BY DEF MrtClaimsInv
<1>2. CASE IssueTokens(id)
  <2> DEFINE c == [mrt[id] EXCEPT !.status = Issued, !.tokens = mrt[id].ounces]
  <2>1. mrt' = [mrt EXCEPT ![id] = c] /\ written' = written /\ mrt[id].status = Reserved
    BY <1>2 DEF IssueTokens, Issuable
  <2>2. /\ c \in Claims /\ c.attest = mrt[id].attest /\ c.tier = mrt[id].tier
        /\ c.status = Issued
        /\ c.deed = mrt[id].deed /\ c.owner = mrt[id].owner /\ c.transferee = mrt[id].transferee
    <3>1. Issued \in 1 .. 5
      BY DEF Issued
    <3> QED
      BY <1>1, <3>1, IssuedClaim
  <2>3. WellAttested(written, id, c)
    BY <1>1, <2>1, <2>2 DEF WellAttested, Verified, Reserved, Issued
  <2> QED
    BY <2>1, <2>2, <2>3, OneClaimChanged
<1>3. CASE EnvironmentalCheck(v, id)
  <2> DEFINE c == [mrt[id] EXCEPT !.status = Active]
  <2>1. mrt' = [mrt EXCEPT ![id] = c] /\ written' = written /\ mrt[id].status >= Issued
    BY <1>3 DEF EnvironmentalCheck
  <2>2. /\ c \in Claims /\ c.attest = mrt[id].attest /\ c.tier = mrt[id].tier
        /\ c.status = Active
        /\ c.deed = mrt[id].deed /\ c.owner = mrt[id].owner /\ c.transferee = mrt[id].transferee
    BY <1>1 DEF Claims, Active
  <2>3. WellAttested(written, id, c)
    BY <1>1, <2>1, <2>2 DEF WellAttested, Verified, Reserved, Issued, Active, Claims
  <2> QED
    BY <2>1, <2>2, <2>3, OneClaimChanged
<1> QED
  BY <1>2, <1>3

LEMMA TransferKeeps ==
  ASSUME MrtClaimsInv, NEW id \in DOMAIN mrt, NEW v, NEW name \in Names \cup {Nobody},
         TransferRights(v, id, name)
  PROVE  MrtClaimsInv'
<1> DEFINE to == IF name = Nobody THEN mrt[id].transferee ELSE name
           c == [mrt[id] EXCEPT !.transferee = to]
<1>1. mrt[id] \in Claims /\ WellAttested(written, id, mrt[id])
  BY DEF MrtClaimsInv
<1>2. mrt' = [mrt EXCEPT ![id] = c] /\ written' = written \cup ({name} \ {Nobody})
  BY DEF TransferRights
<1>3. to \in Names \cup {Nobody} /\ to \in written' \cup {Nobody}
  BY <1>1, <1>2 DEF Claims, WellAttested
<1> HIDE DEF to
<1>4. /\ c \in Claims /\ c.attest = mrt[id].attest /\ c.tier = mrt[id].tier
      /\ c.status = mrt[id].status
      /\ c.deed = mrt[id].deed /\ c.owner = mrt[id].owner /\ c.transferee = to
  BY <1>1, <1>3 DEF Claims
<1>5. WellAttested(written', id, c)
  <2>1. written \subseteq written'
    BY <1>2
  <2>2. WellAttested(written', id, mrt[id])
    BY <1>1, <2>1, WellAttestedMore
  <2> QED
    BY <1>3, <1>4, <2>2 DEF WellAttested
<1> QED
  BY <1>2, <1>4, <1>5, OneClaimChanged

LEMMA MrtCallsKeep ==
  ASSUME MrtClaimsInv, MrtNext
  PROVE  MrtClaimsInv'
<1>0. Miners \subseteq Accounts /\ Others \cup {Nobody} \subseteq Names \cup {Nobody}
  BY MineralRightsAssumption
<1>1. ASSUME NEW c \in Miners, NEW deed \in Deeds, NEW name \in Others \cup {Nobody},
             RegisterClaim(c, deed, name)
      PROVE  MrtClaimsInv'
  BY <1>0, <1>1, RegisterClaimKeeps
<1>2. ASSUME NEW v \in Accounts, NEW id \in DOMAIN mrt, NEW name \in Others \cup {Nobody},
             TransferRights(v, id, name)
      PROVE  MrtClaimsInv'
  BY <1>0, <1>2, TransferKeeps
<1> QED
  BY <1>1, <1>2, VerifyClaimKeeps, ApproveReserveKeeps, LaterStagesKeep DEF MrtNext

\* The claims change in the calls of their precompile only.
LEMMA MrtSteps ==
  ASSUME [Next]_vars
  PROVE  UNCHANGED mrtVars \/ MrtNext
BY DEF Next, ProduceBlock, Restart, vars

\* A claim gets past a stage only on the word of enough different verifiers, or
\* of a deed or name that reads like a verifier's record in the scan of
\* mrtGetVerifierRoles (mrtVerifyClaim, mrtApproveReserve): whatever was attested
\* and stored before, after and in which order, by any number of accounts.
THEOREM StagesAttested == Spec => []ClaimsAttested
<1>1. Init => MrtClaimsInv
  BY DEF Init, MrtInit, MrtClaimsInv
<1>2. MrtClaimsInv /\ [Next]_vars => MrtClaimsInv'
  <2> SUFFICES ASSUME MrtClaimsInv, [Next]_vars PROVE MrtClaimsInv'
    OBVIOUS
  <2>1. CASE UNCHANGED mrtVars
    BY <2>1 DEF MrtClaimsInv, mrtVars
  <2> QED
    BY <2>1, MrtSteps, MrtCallsKeep
<1>3. MrtClaimsInv => ClaimsAttested
  BY DEF MrtClaimsInv, WellAttested, Spoken, Approved, ClaimsAttested
<1> QED
  BY <1>1, <1>2, <1>3, PTL DEF Spec

-----------------------------------------------------------------------------
(* The tokens of a claim *)

\* What TokensBacked says of one claim; before the issue nobody holds a token.
Backed(b, c) ==
    /\ b \in [Names -> Nat]
    /\ c.status < Issued => \A n \in Names : b[n] = 0
    /\ c.status >= Issued => SumFunctionOnSet(b, Names) = c.ounces

MrtTokensInv ==
    /\ mrtBal = [id \in DOMAIN mrt |-> mrtBal[id]]
    /\ \A id \in DOMAIN mrt : Backed(mrtBal[id], mrt[id])

\* All that is issued for a claim is with one name.
LEMMA IssuedToOwner ==
  ASSUME NEW held, NEW o \in Names, NEW n
  PROVE  held \in [Names -> Nat] /\ (\A y \in Names : held[y] = 0) /\ n \in Nat
            => /\ [held EXCEPT ![o] = @ + n] \in [Names -> Nat]
               /\ SumFunctionOnSet([held EXCEPT ![o] = @ + n], Names) = n
<1> DEFINE g == [held EXCEPT ![o] = @ + n]
<1>1. SUFFICES ASSUME held \in [Names -> Nat], \A y \in Names : held[y] = 0, n \in Nat
      PROVE  g \in [Names -> Nat] /\ SumFunctionOnSet(g, Names) = n
  OBVIOUS
<1>2. g \in [Names -> Nat]
  BY <1>1
<1>3. \A y \in Names : held[y] \in Int /\ g[y] \in Int
  BY <1>1
<1>4. \A y \in Names \ {o} : g[y] = held[y]
  BY <1>1
<1>5. g[o] = n /\ held[o] = 0 /\ n \in Nat
  BY <1>1
<1>6. \A y \in Names : held[y] = 0
  BY <1>1
<1>7. IsFiniteSet(Names)
  BY MineralRightsAssumption
<1> HIDE DEF g
<1>8. SumFunctionOnSet(g, Names) = SumFunctionOnSet(held, Names) - held[o] + g[o]
  BY <1>3, <1>4, <1>7, SumReplace
<1>9. SumFunctionOnSet(held, Names) = 0
  BY <1>6, <1>7, SumZero
<1> QED
  BY <1>2, <1>5, <1>8, <1>9

\* A claim is replaced; its tokens move only when they are issued.
LEMMA OneBackedChanged ==
  ASSUME NEW id \in DOMAIN mrt, NEW c, NEW b
  PROVE  MrtTokensInv /\ Backed(b, c)
            /\ mrt' = [mrt EXCEPT ![id] = c] /\ mrtBal' = [mrtBal EXCEPT ![id] = b]
            => MrtTokensInv'
<1>1. SUFFICES ASSUME MrtTokensInv, Backed(b, c), mrt' = [mrt EXCEPT ![id] = c],
                      mrtBal' = [mrtBal EXCEPT ![id] = b]
               PROVE  MrtTokensInv'
  OBVIOUS
<1>2. DOMAIN mrtBal = DOMAIN mrt
  BY <1>1 DEF MrtTokensInv
<1>3. DOMAIN mrt' = DOMAIN mrt /\ DOMAIN mrtBal' = DOMAIN mrt
  BY <1>1, <1>2
<1>4. ASSUME NEW i \in DOMAIN mrt PROVE Backed(mrtBal'[i], mrt'[i])
  <2>1. CASE i = id
    <3>1. mrtBal'[i] = b /\ mrt'[i] = c
      BY <1>1, <1>2, <2>1
    <3> QED
      BY <1>1, <3>1
  <2>2. CASE i # id
    <3>1. mrtBal'[i] = mrtBal[i] /\ mrt'[i] = mrt[i]
      BY <1>1, <1>2, <2>2
    <3>2. Backed(mrtBal[i], mrt[i])
      BY <1>1 DEF MrtTokensInv
    <3> QED
      BY <3>1, <3>2
  <2> QED
    BY <2>1, <2>2
<1>5. mrtBal' = [i \in DOMAIN mrt |-> mrtBal'[i]]
  BY <1>1, <1>2
<1> QED
  BY <1>3, <1>4, <1>5 DEF MrtTokensInv

\* Nothing but the issue itself takes a claim to a stage with tokens, and no
\* stage with tokens lets the reserves be approved anew.
LEMMA MrtTokensKept ==
  ASSUME MrtClaimsInv, MrtTokensInv, MrtNext
  PROVE  MrtTokensInv'
<1>1. ASSUME NEW id \in DOMAIN mrt
      PROVE  /\ mrt[id] \in Claims /\ Backed(mrtBal[id], mrt[id])
             /\ mrt[id].owner \in Names /\ mrt[id].ounces \in Nat /\ mrt[id].status \in 1 .. 5
             /\ mrtBal = [mrtBal EXCEPT ![id] = mrtBal[id]]
  <2>1. mrt[id] \in Claims /\ Backed(mrtBal[id], mrt[id])
    BY DEF MrtClaimsInv, MrtTokensInv
  <2>2. mrt[id].owner \in Names /\ mrt[id].ounces \in Nat /\ mrt[id].status \in 1 .. 5
    BY <2>1 DEF Claims
  <2>3. mrtBal = [mrtBal EXCEPT ![id] = mrtBal[id]]
    BY DEF MrtTokensInv
  <2> QED
    BY <2>1, <2>2, <2>3
<1>2. ASSUME NEW c \in Accounts, NEW deed, NEW name, RegisterClaim(c, deed, name)
      PROVE  MrtTokensInv'
  <2> DEFINE id == <<c, deed, block>>
             owner == IF name = Nobody THEN Cut[c] ELSE name
             zero == [n \in Names |-> 0]
  <2>1. /\ DOMAIN mrt' = DOMAIN mrt \cup {id} /\ DOMAIN mrtBal' = DOMAIN mrt \cup {id}
        /\ mrt'[id] = NewClaim(deed, owner) /\ mrtBal'[id] = zero
        /\ mrtBal' = [i \in DOMAIN mrt' |-> mrtBal'[i]]
        /\ \A i \in DOMAIN mrt : mrt'[i] = mrt[i] /\ mrtBal'[i] = mrtBal[i]
    BY <1>2 DEF RegisterClaim
  <2>2. Backed(zero, NewClaim(deed, owner))
    BY DEF Backed, NewClaim, Pending, Issued
  <2> HIDE DEF id, owner, zero
  <2> QED
    BY <2>1, <2>2 DEF MrtTokensInv
<1>3. ASSUME NEW v \in Accounts, NEW id \in DOMAIN mrt, NEW role \in Roles, NEW ok \in BOOLEAN,
             VerifyClaim(v, id, role, ok)
      PROVE  MrtTokensInv'
  <2> DEFINE b == Attested(id, v, role, ok)
             st == IF mrt[id].status = Pending /\ Completes(id, b, ok) THEN Verified
                   ELSE mrt[id].status
             c == [mrt[id] EXCEPT !.attest = b, !.status = st]
  <2>1. mrt' = [mrt EXCEPT ![id] = c] /\ mrtBal' = mrtBal
    BY <1>3 DEF VerifyClaim
  <2>2. /\ st = mrt[id].status \/ (st = 2 /\ mrt[id].status = 1)
    BY DEF Pending, Verified
  <2> HIDE DEF b, st
  <2>3. c.status = st /\ c.ounces = mrt[id].ounces
    BY <1>1 DEF Claims
  <2> HIDE DEF c
  <2>4. Backed(mrtBal[id], c)
    BY <1>1, <2>2, <2>3 DEF Backed, Issued
  <2> QED
    BY <1>1, <2>1, <2>4, OneBackedChanged
<1>4. ASSUME NEW v, NEW id \in DOMAIN mrt, NEW tier, NEW ounces, ApproveReserve(v, id, tier, ounces)
      PROVE  MrtTokensInv'
  <2> DEFINE c == [[[mrt[id] EXCEPT !.status = Reserved] EXCEPT !.tier = tier] EXCEPT !.ounces = ounces]
  <2>1. mrt' = [mrt EXCEPT ![id] = c] /\ mrtBal' = mrtBal /\ mrt[id].status = 2
    BY <1>4 DEF ApproveReserve, Verified
  <2>2. c.status = 3
    BY <1>1 DEF Claims, Reserved
  <2> HIDE DEF c
  <2>3. Backed(mrtBal[id], c)
    BY <1>1, <2>1, <2>2 DEF Backed, Issued
  <2> QED
    BY <1>1, <2>1, <2>3, OneBackedChanged
<1>5. ASSUME NEW id \in DOMAIN mrt, IssueTokens(id)
      PROVE  MrtTokensInv'
  <2> DEFINE c == [mrt[id] EXCEPT !.status = Issued, !.tokens = mrt[id].ounces]
             held == [mrtBal[id] EXCEPT ![mrt[id].owner] = @ + mrt[id].ounces]
  <2>1. mrt' = [mrt EXCEPT ![id] = c] /\ mrtBal' = [mrtBal EXCEPT ![id] = held]
        /\ mrt[id].status = 3
    BY <1>5 DEF IssueTokens, Issuable, Reserved
  <2>2. c.status = 4 /\ c.ounces = mrt[id].ounces
    BY <1>1 DEF Claims, Issued
  <2>3. mrtBal[id] \in [Names -> Nat] /\ \A n \in Names : mrtBal[id][n] = 0
    BY <1>1, <2>1 DEF Backed, Issued
  <2>4. held \in [Names -> Nat] /\ SumFunctionOnSet(held, Names) = mrt[id].ounces
    BY <1>1, <2>3, IssuedToOwner
  <2> HIDE DEF c, held
  <2>5. Backed(held, c)
    BY <2>2, <2>4 DEF Backed, Issued
  <2> QED
    BY <2>1, <2>5, OneBackedChanged
<1>6. ASSUME NEW v, NEW id \in DOMAIN mrt, EnvironmentalCheck(v, id)
      PROVE  MrtTokensInv'
  <2> DEFINE c == [mrt[id] EXCEPT !.status = Active]
  <2>1. mrt' = [mrt EXCEPT ![id] = c] /\ mrtBal' = mrtBal /\ mrt[id].status >= 4
    BY <1>6 DEF EnvironmentalCheck, Issued
  <2>2. c.status = 5 /\ c.ounces = mrt[id].ounces
    BY <1>1 DEF Claims, Active
  <2> HIDE DEF c
  <2>3. Backed(mrtBal[id], c)
    BY <1>1, <2>1, <2>2 DEF Backed, Issued
  <2> QED
    BY <1>1, <2>1, <2>3, OneBackedChanged
<1>7. ASSUME NEW v, NEW id \in DOMAIN mrt, NEW name, TransferRights(v, id, name)
      PROVE  MrtTokensInv'
  <2> DEFINE c == [mrt[id] EXCEPT !.transferee = IF name = Nobody THEN @ ELSE name]
  <2>1. mrt' = [mrt EXCEPT ![id] = c] /\ mrtBal' = mrtBal
    BY <1>7 DEF TransferRights
  <2>2. c.status = mrt[id].status /\ c.ounces = mrt[id].ounces
    BY <1>1 DEF Claims
  <2> HIDE DEF c
  <2>3. Backed(mrtBal[id], c)
    BY <1>1, <2>2 DEF Backed
  <2> QED
    BY <1>1, <2>1, <2>3, OneBackedChanged
<1>8. Miners \subseteq Accounts
  BY MineralRightsAssumption
<1> QED
  BY <1>2, <1>3, <1>4, <1>5, <1>6, <1>7, <1>8 DEF MrtNext

\* Tokens are issued once for a claim, ounce for ounce, and nothing that happens
\* to the claim before or after moves them or its reserves (mrtIssueTokens,
\* mrtApproveReserve), for any number of claims and names.
THEOREM TokensAreBacked == Spec => []TokensBacked
<1>1. Init => MrtClaimsInv /\ MrtTokensInv
  BY DEF Init, MrtInit, MrtClaimsInv, MrtTokensInv
<1>2. MrtClaimsInv /\ MrtTokensInv /\ [Next]_vars => MrtClaimsInv' /\ MrtTokensInv'
  <2> SUFFICES ASSUME MrtClaimsInv, MrtTokensInv, [Next]_vars PROVE MrtClaimsInv' /\ MrtTokensInv'
    OBVIOUS
  <2>1. CASE UNCHANGED mrtVars
    BY <2>1 DEF MrtClaimsInv, MrtTokensInv, mrtVars
  <2> QED
    BY <2>1, MrtSteps, MrtCallsKeep, MrtTokensKept
<1>3. MrtClaimsInv /\ MrtTokensInv => TokensBacked
  <2> SUFFICES ASSUME MrtClaimsInv, MrtTokensInv, NEW id \in DOMAIN mrt
               PROVE  SumFunctionOnSet(mrtBal[id], Names)
                         = IF mrt[id].status >= Issued THEN mrt[id].ounces ELSE 0
    BY DEF TokensBacked
  <2>1. Backed(mrtBal[id], mrt[id]) /\ mrt[id] \in Claims
    BY DEF MrtTokensInv, MrtClaimsInv
  <2>2. mrt[id].status \in 1 .. 5
    BY <2>1 DEF Claims
  <2>3. CASE mrt[id].status < Issued
    <3>1. IsFiniteSet(Names) /\ \A n \in Names : mrtBal[id][n] = 0
      BY <2>1, <2>3, MineralRightsAssumption DEF Backed
    <3>2. SumFunctionOnSet(mrtBal[id], Names) = 0
      BY <3>1, SumZero
    <3> QED
      BY <2>2, <2>3, <3>2 DEF Issued
  <2> QED
    BY <2>1, <2>2, <2>3 DEF Backed, Issued
<1> QED
  BY <1>1, <1>2, <1>3, PTL DEF Spec

-----------------------------------------------------------------------------
(* SWAY *)

SwaySum == swayTotal + bucket.futureTasks + bucket.dexLP + bucket.ecosystem

\* What keeps the total under the ceiling: tokens and what may still be minted
\* together never exceed twice the first supply.
SwayInv ==
    /\ swayTotal \in Int
    /\ bucket \in [Buckets -> Nat]
    /\ SwaySum <= 2 * SwayInitialSupply

\* At genesis the buckets hold at most the first supply.
LEMMA SwayInitially == Init => SwayInv
<1> SUFFICES ASSUME Init PROVE SwayInv
  OBVIOUS
<1> DEFINE n == SwayInitialSupply
<1>1. n \in Nat
  BY ExchangeAssumption
<1>2. /\ swayTotal = n
      /\ bucket = [b \in Buckets |-> (n * Alloc[b]) \div 100]
  BY DEF Init, ExchangeInit
<1>3. /\ bucket["futureTasks"] = (n * 45) \div 100
      /\ bucket["dexLP"] = (n * 20) \div 100
      /\ bucket["ecosystem"] = (n * 35) \div 100
  BY <1>2 DEF Buckets, Alloc
<1>4. /\ (n * 45) \div 100 \in Nat /\ (n * 20) \div 100 \in Nat /\ (n * 35) \div 100 \in Nat
      /\ (n * 45) \div 100 + (n * 20) \div 100 + (n * 35) \div 100 <= n
  BY <1>1
<1>5. bucket \in [Buckets -> Nat]
  BY <1>2, <1>3, <1>4 DEF Buckets
<1> QED
  BY <1>1, <1>2, <1>3, <1>4, <1>5 DEF SwayInv, SwaySum

\* A mint takes from a bucket what it adds to the total.
LEMMA MintKeeps ==
  ASSUME SwayInv, NEW to, NEW n \in Nat, NEW b \in Buckets, CanMint(n, b), Mint(to, n, b)
  PROVE  SwayInv'
<1>1. /\ swayTotal' = swayTotal + n
      /\ bucket' = [bucket EXCEPT ![b] = @ - n]
      /\ bucket[b] >= n
  BY DEF Mint, Draw, CanMint
<1>2. bucket' \in [Buckets -> Nat]
  BY <1>1 DEF SwayInv
<1>3. SwaySum' = SwaySum
  BY <1>1 DEF SwayInv, SwaySum, Buckets
<1> QED
  BY <1>1, <1>2, <1>3 DEF SwayInv

LEMMA RewardKeeps ==
  ASSUME SwayInv, NEW to, NEW n \in Nat, NEW b \in Buckets, MintIfPossible(to, n, b)
  PROVE  SwayInv'
BY MintKeeps DEF MintIfPossible, SwayInv, SwaySum, swayVars

LEMMA SwayUnchanged ==
  ASSUME SwayInv, UNCHANGED <<swayTotal, bucket>>
  PROVE  SwayInv'
BY DEF SwayInv, SwaySum

\* The calls of the token.
LEMMA SwayCallsKeep ==
  ASSUME SwayInv, SwayNext
  PROVE  SwayInv'
<1>0. Volumes \subseteq Nat
  BY ExchangeAssumption
<1>1. CASE \E s \in Services, n \in Volumes : SwayMintToCaller(s, n)
  <2> PICK s \in Services, n \in Volumes : SwayMintToCaller(s, n)
    BY <1>1
  <2>1. MinterBucket[s] \in Buckets
    BY ExchangeAssumption DEF SwayMintToCaller, Buckets
  <2> QED
    BY <1>0, <2>1, MintKeeps DEF SwayMintToCaller
<1>2. CASE \E s \in Services, n \in Volumes : \E to \in Addrs : SwayMint(s, to, n)
  BY <1>0, <1>2, MintKeeps DEF SwayMint, Buckets
<1>3. CASE \E from \in Addrs \cup Services, n \in Volumes : SwayBurn(from, n)
  <2> PICK from \in Addrs \cup Services, n \in Volumes : SwayBurn(from, n)
    BY <1>3
  <2>1. swayTotal' = swayTotal - n /\ bucket' = bucket /\ n \in Nat
    BY <1>0 DEF SwayBurn
  <2> QED
    BY <2>1, ExchangeAssumption DEF SwayInv, SwaySum, Buckets
<1>4. CASE \E a \in Addrs : SwaySwapFeeReward(a)
  BY <1>4, SwayUnchanged DEF SwaySwapFeeReward
<1> QED
  BY <1>1, <1>2, <1>3, <1>4 DEF SwayNext

\* The swap route mints rewards.
LEMMA SwapCallsKeep ==
  ASSUME SwayInv, SwapNext
  PROVE  SwayInv'
<1>1. CASE \E c \in Accounts, pair \in Pairs : CreatePair(c, pair)
  BY <1>1, SwayUnchanged DEF CreatePair, swayVars
<1>2. CASE \E c \in Accounts, n \in Liquidities : AddLiquidity(c, n)
  BY <1>2, RewardKeeps, ExchangeAssumption DEF AddLiquidity, Buckets
<1>3. CASE \E c \in Accounts, x \in Volumes, least \in Volumes : Swap(c, x, least)
  <2> PICK c \in Accounts, x \in Volumes : MintIfPossible(c, FeeReward(x), "dexLP")
    BY <1>3 DEF Swap
  <2>1. FeeReward(x) \in Nat
    BY ExchangeAssumption DEF FeeReward
  <2> QED
    BY <2>1, RewardKeeps DEF Buckets
<1> QED
  BY <1>1, <1>2, <1>3 DEF SwapNext

\* No lock operation touches the token.
LEMMA LockCallsLeaveSway == LockNext => UNCHANGED swayVars
BY DEF LockNext, CreateTimeLock, CreateVestingLock, CreateMultiSigLock, Release, ExtendLock,
       ExtendNothing

\* The exchange's state changes in the exchange's calls only.
LEMMA ExchangeSteps ==
  ASSUME [Next]_vars
  PROVE  UNCHANGED exchangeVars \/ SwayNext \/ SwapNext \/ LockNext
BY DEF Next, ProduceBlock, Restart, vars

\* The supply of SWAY never exceeds its hard ceiling (swayMintInternal), although
\* the comparison is made on 64 bits: the buckets run out first.
THEOREM SwayWithinCeiling == Spec => []SwayCeilingHolds
<1>1. SwayInv => SwayCeilingHolds
  BY ExchangeAssumption DEF SwayInv, SwaySum, SwayCeilingHolds, Buckets
<1>2. SwayInv /\ [Next]_vars => SwayInv'
  <2> SUFFICES ASSUME SwayInv, [Next]_vars PROVE SwayInv'
    OBVIOUS
  <2>1. CASE UNCHANGED exchangeVars
    BY <2>1, SwayUnchanged DEF exchangeVars, swayVars
  <2>2. CASE LockNext
    BY <2>2, LockCallsLeaveSway, SwayUnchanged DEF swayVars
  <2> QED
    BY <2>1, <2>2, ExchangeSteps, SwayCallsKeep, SwapCallsKeep
<1> QED
  BY <1>1, <1>2, SwayInitially, PTL DEF Spec

-----------------------------------------------------------------------------
(* Locks *)

LockRecords == [type : {"time", "vesting", "multisig"}, at : Nat, end : Nat, cliff : Nat]
Promises == [until : Nat, intact : BOOLEAN]

\* An intact lock keeps its promise in its header: a time lock holds at least until
\* then, a vesting has its cliff and its end no earlier.
Kept(l, p) ==
    p.intact =>
        /\ l.type = "time" => p.until <= l.at
        /\ l.type = "vesting" => p.until <= l.cliff /\ p.until <= l.end

LockInv ==
    /\ block \in Nat
    /\ locks \in [DOMAIN locks -> LockRecords]
    /\ promised \in [DOMAIN locks -> Promises]
    /\ \A id \in DOMAIN locks : Kept(locks[id], promised[id])

\* A number that fits a word is not changed by it.
LEMMA Fits ==
  ASSUME NEW a \in Nat, a < Word
  PROVE  a % Word = a
BY PrecompilesAssumption

LEMMA AddFits ==
  ASSUME NEW a \in Nat, NEW n \in Nat
  PROVE  /\ Add64(a, n % Word) \in Nat
         /\ a + n < Word => Add64(a, n % Word) = a + n
<1>1. Word \in Nat \ {0}
  BY PrecompilesAssumption
<1>2. n % Word \in Nat
  BY <1>1
<1>3. (a + (n % Word)) % Word \in Nat
  BY <1>1, <1>2
<1>4. ASSUME a + n < Word PROVE Add64(a, n % Word) = a + n
  <2>1. n % Word = n
    BY <1>1, <1>4, Fits
  <2> QED
    BY <1>1, <1>4, <2>1, Fits DEF Add64
<1> QED
  BY <1>3, <1>4 DEF Add64

\* A header and a promise that agree, in the place of whatever had the identifier.
LEMMA HeaderKeeps ==
  ASSUME LockInv, UNCHANGED block,
         NEW id, NEW l \in LockRecords, NEW until \in Nat, NEW intact \in BOOLEAN,
         Kept(l, [until |-> until, intact |-> intact]),
         locks' = Header(id, l), promised' = Promise(id, until, intact)
  PROVE  LockInv'
<1> DEFINE D == DOMAIN locks \cup {id}
           p == [until |-> until, intact |-> intact]
<1>1. /\ locks' = [i \in D |-> IF i = id THEN l ELSE locks[i]]
      /\ promised' = [i \in D |-> IF i = id THEN p ELSE promised[i]]
  BY DEF Header, Promise
<1>2. p \in Promises /\ Kept(l, p)
  BY DEF Promises
<1>3. DOMAIN locks' = D
  BY <1>1
<1>4. locks' \in [D -> LockRecords] /\ promised' \in [D -> Promises]
  BY <1>1, <1>2 DEF LockInv
<1>5. ASSUME NEW i \in D PROVE Kept(locks'[i], promised'[i])
  <2>1. CASE i = id
    BY <1>1, <1>2, <2>1
  <2>2. CASE i # id
    BY <1>1, <2>2 DEF LockInv
  <2> QED
    BY <2>1, <2>2
<1> QED
  BY <1>3, <1>4, <1>5 DEF LockInv

\* A new lock that keeps its promise.
LEMMA PutKeeps ==
  ASSUME LockInv, UNCHANGED block,
         NEW id, NEW l \in LockRecords, NEW until \in Nat, NEW intact \in BOOLEAN,
         Kept(l, [until |-> until, intact |-> intact]),
         PutLock(id, l, until, intact)
  PROVE  LockInv'
<1> DEFINE old == IF id \in DOMAIN locks THEN promised[id].until ELSE 0
           u == IF until > old THEN until ELSE old
           i == intact /\ old = 0
<1>1. locks' = Header(id, l) /\ promised' = Promise(id, u, i)
  BY DEF PutLock
<1>2. old \in Nat
  BY DEF LockInv, Promises
<1> HIDE DEF old
<1>3. u \in Nat /\ i \in BOOLEAN
  BY <1>2
<1>4. i => intact /\ u = until
  BY <1>2
<1>5. Kept(l, [until |-> u, intact |-> i])
  BY <1>4 DEF Kept
<1> HIDE DEF u, i
<1> QED
  BY <1>1, <1>3, <1>5, HeaderKeeps

LEMMA PutTimeKeeps ==
  ASSUME LockInv, UNCHANGED block, NEW id, NEW period \in Nat, PutTimeLock(id, period)
  PROVE  LockInv'
<1> DEFINE l == TimeLock(Add64(block, period % Word))
<1>1. block \in Nat
  BY DEF LockInv
<1>2. /\ Add64(block, period % Word) \in Nat
      /\ block + period < Word => Add64(block, period % Word) = block + period
  BY <1>1, AddFits
<1>3. l \in LockRecords
  BY <1>2 DEF TimeLock, LockRecords
<1> DEFINE u == block + period
           i == block + period < Word
<1>4. u \in Nat /\ i \in BOOLEAN
  BY <1>1
<1>5. l.type = "time" /\ (i => l.at = u)
  BY <1>2 DEF TimeLock
<1>6. PutLock(id, l, u, i)
  BY DEF PutTimeLock
<1> HIDE DEF l, u, i
<1>7. Kept(l, [until |-> u, intact |-> i])
  BY <1>4, <1>5 DEF Kept
<1> QED
  BY <1>3, <1>4, <1>6, <1>7, PutKeeps

\* One lock replaced together with its promise.
LEMMA LockReplaced ==
  ASSUME LockInv, UNCHANGED block, NEW id \in DOMAIN locks,
         NEW l \in LockRecords, NEW p \in Promises, Kept(l, p),
         locks' = [locks EXCEPT ![id] = l], promised' = [promised EXCEPT ![id] = p]
  PROVE  LockInv'
<1>1. DOMAIN locks' = DOMAIN locks
  OBVIOUS
<1>2. locks' \in [DOMAIN locks -> LockRecords] /\ promised' \in [DOMAIN locks -> Promises]
  BY DEF LockInv
<1>3. ASSUME NEW i \in DOMAIN locks PROVE Kept(locks'[i], promised'[i])
  BY DEF LockInv
<1> QED
  BY <1>1, <1>2, <1>3 DEF LockInv

\* The calls of the lock precompile, one by one.
LEMMA LockCallsKeep ==
  ASSUME LockInv, LockNext
  PROVE  LockInv'
<1>0. Periods \subseteq Nat
  BY ExchangeAssumption
<1>1. ASSUME NEW pool \in Pools, NEW n \in Liquidities, NEW p \in Periods,
             CreateTimeLock(pool, n, p)
      PROVE  LockInv'
  BY <1>0, <1>1, PutTimeKeeps DEF CreateTimeLock, Call
<1>2. ASSUME NEW pool \in Pools, NEW n \in Liquidities, NEW p \in Periods,
             CreateMultiSigLock(pool, n, p)
      PROVE  LockInv'
  <2> DEFINE l == [type |-> "multisig", at |-> p, end |-> 0, cliff |-> 0]
  <2>1. l \in LockRecords /\ Word \in Nat /\ Kept(l, [until |-> Word, intact |-> TRUE])
    BY <1>0, PrecompilesAssumption DEF LockRecords, Kept
  <2>2. UNCHANGED block /\ PutLock(LockID(pool, n), l, Word, TRUE)
    BY <1>2 DEF CreateMultiSigLock, Call
  <2> QED
    BY <2>1, <2>2, PutKeeps
<1>3. ASSUME NEW pool \in Pools, NEW n \in Liquidities, NEW p \in Periods,
             NEW end \in Periods, NEW cliff \in Periods,
             CreateVestingLock(pool, n, p, end, cliff)
      PROVE  LockInv'
  <2> DEFINE l == [type |-> "vesting", at |-> p, end |-> end, cliff |-> cliff]
             until == IF cliff < end THEN cliff ELSE end
  <2>1. l \in LockRecords /\ until \in Nat
    BY <1>0 DEF LockRecords
  <2>2. Kept(l, [until |-> until, intact |-> TRUE])
    BY <1>0 DEF Kept
  <2>3. UNCHANGED block /\ PutLock(LockID(pool, n), l, until, TRUE)
    BY <1>3 DEF CreateVestingLock, Call
  <2> QED
    BY <2>1, <2>2, <2>3, PutKeeps
<1>4. ASSUME NEW id \in DOMAIN locks, Release(id)
      PROVE  LockInv'
  <2> DEFINE l == [locks[id] EXCEPT !.type = "time"]
             p == [promised[id] EXCEPT !.until = 0]
  <2>1. /\ block' = block
        /\ locks' = [locks EXCEPT ![id] = l] /\ promised' = [promised EXCEPT ![id] = p]
    BY <1>4 DEF Release, Call
  <2>2. locks[id] \in LockRecords /\ promised[id] \in Promises
    BY DEF LockInv
  <2>3. l \in LockRecords /\ l.type = "time" /\ l.at \in Nat
    BY <2>2 DEF LockRecords
  <2>4. p \in Promises /\ p.until = 0
    BY <2>2 DEF Promises
  <2>5. Kept(l, p)
    BY <2>3, <2>4 DEF Kept
  <2> HIDE DEF l, p
  <2> QED
    BY <2>1, <2>3, <2>4, <2>5, LockReplaced
<1>5. ASSUME NEW id \in DOMAIN locks, NEW n \in Periods, ExtendLock(id, n)
      PROVE  LockInv'
  <2> DEFINE at == Extended(locks[id].at, n)
             l == [locks[id] EXCEPT !.at = at]
             u == IF promised[id].until = 0 THEN 0 ELSE promised[id].until + n
             intact == promised[id].intact /\ locks[id].at + n < Word
             p == [promised[id] EXCEPT !.until = u, !.intact = intact]
  <2>1. /\ block' = block
        /\ locks[id].type = "time"
        /\ locks' = [locks EXCEPT ![id] = l] /\ promised' = [promised EXCEPT ![id] = p]
    BY <1>5 DEF ExtendLock, Call
  <2>2. /\ locks[id] \in LockRecords
        /\ promised[id] \in Promises
        /\ locks[id].at \in Nat /\ n \in Nat
        /\ promised[id].until \in Nat
    BY <1>0 DEF LockInv, LockRecords, Promises
  <2>3. /\ at \in Nat
        /\ locks[id].at + n < Word => at = locks[id].at + n
    BY <2>2, AddFits DEF Extended
  <2> HIDE DEF at
  <2>4. l \in LockRecords /\ l.at = at /\ l.type = "time"
    BY <2>1, <2>2, <2>3 DEF LockRecords
  <2>5. u \in Nat /\ intact \in BOOLEAN
    BY <2>2
  <2>6. intact => promised[id].intact /\ locks[id].at + n < Word
    OBVIOUS
  <2>7. u <= promised[id].until + n
    BY <2>2
  <2> HIDE DEF u, intact
  <2>8. p \in Promises /\ p.until = u /\ p.intact = intact
    <3>1. PICK q : q = promised[id]
      OBVIOUS
    <3>2. PICK c \in BOOLEAN : c = intact
      BY <2>5
    <3>3. q \in Promises /\ u \in Nat
      BY <2>2, <2>5, <3>1
    <3>4. p = [q EXCEPT !.until = u, !.intact = c]
      BY <3>1, <3>2
    <3> HIDE DEF p
    <3>5. p \in Promises /\ p.until = u /\ p.intact = c
      <4>1. p \in Promises
        BY <3>3, <3>4 DEF Promises
      <4>2. p.until = u
        BY <3>3, <3>4 DEF Promises
      <4>3. p.intact = c
        BY <3>3, <3>4 DEF Promises
      <4> QED
        BY <4>1, <4>2, <4>3
    <3> QED
      BY <3>2, <3>5
  <2>9. promised[id].intact => promised[id].until <= locks[id].at
    BY <2>1 DEF LockInv, Kept
  <2>10. intact => u <= at
    BY <2>2, <2>3, <2>5, <2>6, <2>7, <2>9
  <2> HIDE DEF l, p
  <2>11. Kept(l, p)
    BY <2>4, <2>8, <2>10 DEF Kept
  <2> QED
    BY <2>1, <2>4, <2>8, <2>11, LockReplaced
<1>6. ASSUME NEW id, NEW n \in Periods, ExtendNothing(id, n)
      PROVE  LockInv'
  <2> DEFINE l == TimeLock(Extended(0, n))
  <2>1. block' = block /\ locks' = Header(id, l) /\ promised' = Promise(id, 0, TRUE)
    BY <1>6 DEF ExtendNothing, Call
  <2>2. Extended(0, n) \in Nat
    BY <1>0, AddFits DEF Extended
  <2>3. l \in LockRecords /\ Kept(l, [until |-> 0, intact |-> TRUE])
    BY <2>2 DEF TimeLock, LockRecords, Kept
  <2> HIDE DEF l
  <2> QED
    BY <2>1, <2>3, HeaderKeeps
<1> QED
  BY <1>1, <1>2, <1>3, <1>4, <1>5, <1>6 DEF LockNext

LEMMA LocksUnchanged ==
  ASSUME LockInv, UNCHANGED lockVars, block' \in Nat
  PROVE  LockInv'
BY DEF LockInv, lockVars

\* Of the swap route's calls only addLiquidity makes a lock.
LEMMA SwapCallsKeepLocks ==
  ASSUME LockInv, SwapNext
  PROVE  LockInv'
<1>0. block' = block /\ block \in Nat
  BY DEF SwapNext, CreatePair, AddLiquidity, Swap, Call, LockInv
<1>1. ASSUME NEW c \in Accounts, NEW n \in Liquidities, AddLiquidity(c, n)
      PROVE  LockInv'
  <2>1. LPLockPeriod \in Nat
    BY ExchangeAssumption
  <2> QED
    BY <1>0, <1>1, <2>1, PutTimeKeeps, LocksUnchanged DEF AddLiquidity
<1>2. ASSUME NEW c \in Accounts, NEW pair \in Pairs, CreatePair(c, pair)
      PROVE  LockInv'
  BY <1>0, <1>2, LocksUnchanged DEF CreatePair
<1>3. ASSUME NEW c \in Accounts, NEW x \in Volumes, NEW least \in Volumes, Swap(c, x, least)
      PROVE  LockInv'
  BY <1>0, <1>3, LocksUnchanged DEF Swap
<1> QED
  BY <1>1, <1>2, <1>3 DEF SwapNext

\* Every operation of the precompiles is a call in the current block.
LEMMA OperationsAreCalls ==
  ASSUME \/ StakeNext \/ UnstakeNext \/ (\E types, lots : GovernanceNext(types, lots))
         \/ MarketNext \/ TaskNext \/ FundNext \/ BountyNext \/ CommunityNext \/ FaucetNext
         \/ RentNext \/ StorageNext \/ MrtNext \/ SwayNext \/ SwapNext \/ LockNext
  PROVE  Call
<1>1. StakeNext \/ UnstakeNext => Call
  BY DEF StakeNext, UnstakeNext, RegisterStake, RemoveStake, ClaimReward
<1>2. ASSUME NEW types, NEW lots, GovernanceNext(types, lots) PROVE Call
  BY <1>2 DEF GovernanceNext, CreateProposal, Vote, Finalize
<1>3. MarketNext => Call
  BY DEF MarketNext, CreateMarket, TradeMarket
<1>4. TaskNext \/ FundNext => Call
  BY DEF TaskNext, FundNext, TaskClaim, TaskVerify, TaskAutoVerify, VerifyAndPay,
         QuestSetAutopilot, QuestFund, GiveawayClaim
<1>5. BountyNext => Call
  BY DEF BountyNext, RegisterBounty, ClaimFix, VerifyFix, DelegateMicroTask
<1>6. CommunityNext => Call
  BY DEF CommunityNext, CreateTask, EscrowTask, VerifyCommunity
<1>7. FaucetNext => Call
  BY DEF FaucetNext, FaucetDrip, SetDripAmount, SetCooldown, SetDrip
<1>8. RentNext \/ StorageNext => Call
  BY DEF RentNext, RentPay, RentGetDue, StorageNext, RegisterOperator, UnregisterOperator,
         SubmitProof, GetCurrentEpoch
<1>9. MrtNext => Call
  <2>1. \A c, deed, name : RegisterClaim(c, deed, name) => Call
    BY DEF RegisterClaim
  <2>2. \A v, id, role, ok : VerifyClaim(v, id, role, ok) => Call
    BY DEF VerifyClaim
  <2>3. \A c, id, tier, ounces : ApproveReserve(c, id, tier, ounces) => Call
    BY DEF ApproveReserve
  <2>4. \A c, id, name : TransferRights(c, id, name) => Call
    BY DEF TransferRights
  <2>5. \A c, id : EnvironmentalCheck(c, id) \/ IssueTokens(id) => Call
    BY DEF EnvironmentalCheck, IssueTokens
  <2> QED
    BY <2>1, <2>2, <2>3, <2>4, <2>5, Zenon DEF MrtNext
<1>10. SwayNext \/ SwapNext => Call
  BY DEF SwayNext, SwayMintToCaller, SwayMint, SwayBurn, SwaySwapFeeReward,
         SwapNext, CreatePair, AddLiquidity, Swap
<1>11. LockNext => Call
  BY DEF LockNext, CreateTimeLock, CreateVestingLock, CreateMultiSigLock, Release, ExtendLock,
         ExtendNothing
<1> QED
  BY <1>1, <1>2, <1>3, <1>4, <1>5, <1>6, <1>7, <1>8, <1>9, <1>10, <1>11

\* Only the block itself moves the block number, and nothing moves the bounds.
LEMMA BlockSteps ==
  ASSUME [Next]_vars
  PROVE  UNCHANGED <<scenario, block>> \/ NextBlock
<1>1. CASE ProduceBlock
  BY <1>1 DEF ProduceBlock
<1>2. CASE Restart
  BY <1>2 DEF Restart, Between
<1>3. CASE UNCHANGED vars
  BY <1>3 DEF vars, callVars
<1>4. CASE Call
  BY <1>4 DEF Call
<1> QED
  BY <1>1, <1>2, <1>3, <1>4, OperationsAreCalls DEF Next

\* Locks are made and changed in two families of calls.
LEMMA LockSteps ==
  ASSUME [Next]_vars, block \in Nat
  PROVE  SwapNext \/ LockNext \/ (UNCHANGED lockVars /\ block' \in Nat)
<1>1. block' \in Nat
  <2>1. UNCHANGED <<scenario, block>> \/ NextBlock
    BY BlockSteps
  <2> QED
    BY <2>1 DEF NextBlock
<1>2. CASE UNCHANGED exchangeVars
  BY <1>1, <1>2 DEF exchangeVars
<1>3. CASE SwayNext
  <2>1. UNCHANGED lockVars
    BY <1>3 DEF SwayNext, SwayMintToCaller, SwayMint, SwayBurn, SwaySwapFeeReward
  <2> QED
    BY <1>1, <2>1
<1> QED
  BY <1>1, <1>2, <1>3, ExchangeSteps

\* Nobody releases a lock before the block it was promised to hold until
\* (trustlessReleasableAmount, trustlessRelease), unless a 64-bit sum of it
\* wrapped (trustlessExtend) or a lock with the same identifier replaced it while
\* it stood (generateLockID): through extensions by anyone, the locks that
\* addLiquidity makes, headers made by extending nothing, and any order of calls,
\* the header keeps the promise.
THEOREM IntactLocksHold == Spec => []IntactLockHolds
<1>1. Init => LockInv
  BY DEF Init, CallsInit, ExchangeInit, NoLocks, LockInv
<1>2. LockInv /\ [Next]_vars => LockInv'
  <2> SUFFICES ASSUME LockInv, [Next]_vars PROVE LockInv'
    OBVIOUS
  <2>1. block \in Nat
    BY DEF LockInv
  <2> QED
    BY <2>1, LockSteps, LockCallsKeep, SwapCallsKeepLocks, LocksUnchanged
<1>3. LockInv => IntactLockHolds
  <2> SUFFICES ASSUME LockInv, NEW id \in DOMAIN locks,
                      promised[id].intact, block < promised[id].until
               PROVE  Releasable(locks[id]) = 0
    BY DEF IntactLockHolds
  <2>1. /\ Kept(locks[id], promised[id]) /\ block \in Nat
        /\ locks[id] \in LockRecords /\ promised[id] \in Promises
    BY DEF LockInv
  <2> QED
    BY <2>1 DEF Kept, LockRecords, Promises, Releasable
<1> QED
  BY <1>1, <1>2, <1>3, PTL DEF Spec

-----------------------------------------------------------------------------
(* State rent *)

\* A quotient and a remainder are the only ones.
LEMMA DivModUnique ==
  ASSUME NEW m \in Nat \ {0}, NEW q \in Nat, NEW r \in Nat, r < m, NEW x, x = q * m + r
  PROVE  x \in Nat /\ x % m = r /\ x \div m = q
<1>1. x \in Nat
  OBVIOUS
<1> DEFINE p == x \div m
           t == x % m
<1>2. p \in Nat /\ t \in Nat /\ t < m /\ x = p * m + t
  BY <1>1
<1> HIDE DEF p, t
<1>3. \A a, b \in Nat : a >= b + 1 => a * m >= b * m + m
  OBVIOUS
<1>4. ~(p >= q + 1)
  <2>1. p * m \in Nat /\ q * m \in Nat
    BY <1>2
  <2> QED
    BY <1>2, <1>3, <2>1
<1>5. ~(q >= p + 1)
  <2>1. p * m \in Nat /\ q * m \in Nat
    BY <1>2
  <2> QED
    BY <1>2, <1>3, <2>1
<1>6. p = q
  BY <1>2, <1>4, <1>5
<1>7. t = r
  <2>1. q * m \in Nat
    OBVIOUS
  <2> QED
    BY <1>2, <1>6, <2>1
<1> QED
  BY <1>1, <1>6, <1>7 DEF p, t

\* What the two fields read back after they were overwritten.
LEMMA WithBlockFacts ==
  ASSUME NEW slot \in Nat, NEW f \in BOOLEAN, NEW b \in Nat
  PROVE  LET s == WithBlock(slot, f, b)
         IN  s \in Nat /\ LastRentBlock(s) = b % BlockBytes /\ (Frozen(s) <=> f)
<1> DEFINE h == slot \div (BlockBytes * FlagByte)
           g == IF f THEN 1 ELSE 0
           r == b % BlockBytes
           q == h * FlagByte + g
           s == WithBlock(slot, f, b)
<1>1. BlockBytes \in Nat \ {0} /\ FlagByte \in Nat \ {0} /\ FlagByte > 1
  BY EndowmentAssumption
<1>2. BlockBytes * FlagByte \in Nat \ {0}
  BY <1>1
<1>3. h \in Nat /\ g \in Nat /\ g < FlagByte /\ r \in Nat /\ r < BlockBytes
  <2>1. h \in Nat
    BY <1>2
  <2>2. r \in Nat /\ r < BlockBytes
    BY <1>1
  <2> QED
    BY <1>1, <2>1, <2>2
<1>4. s = h * BlockBytes * FlagByte + (IF f THEN BlockBytes ELSE 0) + r
  BY DEF WithBlock
<1> HIDE DEF h, r, s
<1>5. q \in Nat
  BY <1>1, <1>3
<1>6. s = q * BlockBytes + r
  <2>1. \A x, y, z \in Nat : x * y * z = (x * z) * y /\ (x * z) * y \in Nat
    OBVIOUS
  <2>2. h * BlockBytes * FlagByte = (h * FlagByte) * BlockBytes /\ (h * FlagByte) * BlockBytes \in Nat
    BY <1>1, <1>3, <2>1
  <2>3. q * BlockBytes = (h * FlagByte) * BlockBytes + (IF f THEN BlockBytes ELSE 0)
    <3>1. \A x, y \in Nat : (x + 1) * y = x * y + y /\ (x + 0) * y = x * y + 0
      OBVIOUS
    <3>2. h * FlagByte \in Nat
      BY <1>1, <1>3
    <3> QED
      BY <1>1, <3>1, <3>2
  <2> QED
    BY <1>1, <1>3, <1>4, <2>2, <2>3
<1>7. q % FlagByte = g
  <2> HIDE DEF q, g
  <2>1. q = h * FlagByte + g
    BY DEF q
  <2> QED
    BY <1>1, <1>3, <2>1, DivModUnique
<1> HIDE DEF q
<1>8. s \in Nat /\ s % BlockBytes = r /\ s \div BlockBytes = q
  BY <1>1, <1>3, <1>5, <1>6, DivModUnique
<1> QED
  BY <1>7, <1>8 DEF LastRentBlock, Frozen, r, s

\* What the slot under a prefix says: two bytes of the block it was last paid in,
\* unless it reads as never paid, and a freeze once somebody asked too late.
Told(slot, last, q) ==
    /\ slot # 0 => LastRentBlock(slot) = last % BlockBytes
    /\ q > last + Grace => Frozen(slot) \/ slot = 0

RentInv ==
    /\ scenario \in Scenarios /\ block \in 1 .. scenario.blocks
    /\ rent \in [Prefixes -> Nat] /\ paidBlock \in [Prefixes -> Nat]
    /\ asked \in [Prefixes -> Nat]
    /\ \A p \in Prefixes : paidBlock[p] <= block /\ Told(rent[p], paidBlock[p], asked[p])

LEMMA RentConstants ==
  ASSUME RentInv
  PROVE  /\ block \in Nat /\ block < Word /\ Word \in Nat \ {0}
         /\ BlockBytes \in Nat \ {0} /\ Grace \in Nat
<1>1. scenario.blocks \in 1 .. (Word - 1) /\ Word \in Nat \ {0}
  BY PrecompilesAssumption DEF RentInv
<1> QED
  BY <1>1, EndowmentAssumption DEF RentInv

\* One prefix changes and the others do not.
LEMMA OneRentChanged ==
  ASSUME RentInv, UNCHANGED <<scenario, block>>, NEW p \in Prefixes,
         NEW s \in Nat, NEW last \in Nat, NEW q \in Nat, last <= block, Told(s, last, q),
         rent' = [rent EXCEPT ![p] = s], paidBlock' = [paidBlock EXCEPT ![p] = last],
         asked' = [asked EXCEPT ![p] = q]
  PROVE  RentInv'
<1>1. /\ rent' \in [Prefixes -> Nat] /\ paidBlock' \in [Prefixes -> Nat]
      /\ asked' \in [Prefixes -> Nat]
  BY DEF RentInv
<1>2. ASSUME NEW i \in Prefixes
      PROVE  paidBlock'[i] <= block /\ Told(rent'[i], paidBlock'[i], asked'[i])
  <2>1. CASE i = p
    <3>1. rent'[i] = s /\ paidBlock'[i] = last /\ asked'[i] = q
      BY <2>1 DEF RentInv
    <3> QED
      BY <3>1
  <2>2. CASE i # p
    <3>1. rent'[i] = rent[i] /\ paidBlock'[i] = paidBlock[i] /\ asked'[i] = asked[i]
      BY <2>2 DEF RentInv
    <3> QED
      BY <3>1 DEF RentInv
  <2> QED
    BY <2>1, <2>2
<1> QED
  BY <1>1, <1>2 DEF RentInv

LEMMA RentPayKeeps ==
  ASSUME RentInv, NEW c \in Accounts, NEW n \in RentAmounts, RentPay(c, n)
  PROVE  RentInv'
<1> DEFINE p == Prefix[c]
           s == WithBlock(rent[p] + n, FALSE, block)
<1>1. /\ rent' = [rent EXCEPT ![p] = s] /\ paidBlock' = [paidBlock EXCEPT ![p] = block]
      /\ asked' = [asked EXCEPT ![p] = 0] /\ UNCHANGED <<scenario, block>>
  BY DEF RentPay, Call
<1>2. p \in Prefixes
  BY DEF Prefixes
<1>3. block \in Nat /\ Grace \in Nat /\ block <= block
  BY RentConstants
<1> HIDE DEF p
<1>4. rent[p] + n \in Nat
  BY <1>2, EndowmentAssumption DEF RentInv
<1>5. s \in Nat /\ LastRentBlock(s) = block % BlockBytes
  BY <1>3, <1>4, WithBlockFacts
<1> HIDE DEF s
<1>6. Told(s, block, 0)
  BY <1>3, <1>5 DEF Told
<1> QED
  BY <1>1, <1>2, <1>3, <1>5, <1>6, OneRentChanged

LEMMA RentGetDueKeeps ==
  ASSUME RentInv, NEW p \in Prefixes, RentGetDue(p)
  PROVE  RentInv'
<1> DEFINE slot == rent[p]
           last == LastRentBlock(slot)
           late == slot # 0 /\ Elapsed(slot) > Grace
           s == IF late THEN WithBlock(slot, TRUE, last) ELSE slot
           paid0 == paidBlock[p]
<1>1. slot \in Nat /\ paid0 \in Nat /\ paid0 <= block
      /\ (slot # 0 => last = paid0 % BlockBytes)
  BY DEF RentInv, Told
<1>2. /\ rent' = [rent EXCEPT ![p] = s] /\ paidBlock' = [paidBlock EXCEPT ![p] = paid0]
      /\ asked' = [asked EXCEPT ![p] = block] /\ UNCHANGED <<scenario, block>>
  BY DEF RentGetDue, Call, RentInv
<1>3. /\ block \in Nat /\ block < Word /\ Word \in Nat \ {0}
      /\ BlockBytes \in Nat \ {0} /\ Grace \in Nat
  BY RentConstants
<1>4. last \in Nat /\ last < BlockBytes /\ last % BlockBytes = last
  BY <1>1, <1>3 DEF LastRentBlock
<1>5. Elapsed(slot) = (block - last) % Word
  BY DEF Elapsed, Sub64
<1> HIDE DEF last, slot, paid0
<1>6. CASE late
  <2>1. LET w == WithBlock(slot, TRUE, last)
        IN  w \in Nat /\ LastRentBlock(w) = last % BlockBytes /\ Frozen(w)
    BY <1>1, <1>4, WithBlockFacts
  <2>2. s \in Nat /\ LastRentBlock(s) = last /\ Frozen(s)
    BY <1>4, <1>6, <2>1
  <2>3. last = paid0 % BlockBytes
    BY <1>1, <1>6
  <2> HIDE DEF s
  <2>4. Told(s, paid0, block)
    BY <2>2, <2>3 DEF Told
  <2> QED
    BY <1>1, <1>2, <1>3, <2>2, <2>4, OneRentChanged
<1>7. CASE ~late
  <2>1. s = slot
    BY <1>7
  <2>2. ASSUME slot # 0 PROVE ~(block > paid0 + Grace)
    <3>1. last <= paid0
      BY <1>1, <1>3, <2>2
    <3>2. block - last \in Nat /\ block - last < Word /\ block - last >= block - paid0
      BY <1>1, <1>3, <1>4, <3>1
    <3>3. (block - last) % Word = block - last
      BY <1>3, <3>2, Fits
    <3>4. ~((block - last) % Word > Grace)
      BY <1>5, <1>7, <2>2
    <3> QED
      BY <1>1, <1>3, <1>4, <3>2, <3>3, <3>4
  <2>3. slot # 0 => LastRentBlock(slot) = paid0 % BlockBytes
    BY <1>1 DEF last
  <2> HIDE DEF s
  <2>4. Told(s, paid0, block)
    BY <2>1, <2>2, <2>3 DEF Told
  <2> QED
    BY <1>1, <1>2, <1>3, <2>1, <2>4, OneRentChanged
<1> QED
  BY <1>6, <1>7

\* The slots change in the two calls of the precompile only.
LEMMA RentSteps ==
  ASSUME [Next]_vars
  PROVE  RentNext \/ UNCHANGED rentVars
<1>1. CASE StorageNext
  BY <1>1 DEF StorageNext, RegisterOperator, UnregisterOperator, SubmitProof, GetCurrentEpoch
<1>2. CASE UNCHANGED endowVars
  BY <1>2 DEF endowVars
<1> QED
  BY <1>1, <1>2 DEF Next, ProduceBlock, Restart, vars

\* Whoever asks for the rent of a name that last paid more than the grace period
\* ago finds it frozen, and until the next payment it stays so (rentPay,
\* rentGetDue): for any grace period, longer or shorter than what the two bytes
\* hold of a block, any payments and any number of names that share a slot.
THEOREM LateNamesAreFrozen == Spec => []LateIsFrozen
<1>1. Init => RentInv
  <2> SUFFICES ASSUME Init PROVE RentInv
    OBVIOUS
  <2>1. /\ block = 1 /\ scenario \in Scenarios
        /\ rent = [p \in Prefixes |-> 0] /\ paidBlock = [p \in Prefixes |-> 0]
        /\ asked = [p \in Prefixes |-> 0]
    BY DEF Init, CallsInit, EndowmentInit
  <2>2. Told(0, 0, 0)
    BY EndowmentAssumption DEF Told
  <2>3. block \in 1 .. scenario.blocks
    BY <2>1, PrecompilesAssumption
  <2> QED
    BY <2>1, <2>2, <2>3 DEF RentInv
<1>2. RentInv /\ [Next]_vars => RentInv'
  <2> SUFFICES ASSUME RentInv, [Next]_vars PROVE RentInv'
    OBVIOUS
  <2>1. CASE RentNext
    BY <2>1, RentPayKeeps, RentGetDueKeeps DEF RentNext
  <2>2. CASE UNCHANGED rentVars
    <3>1. rent' = rent /\ paidBlock' = paidBlock /\ asked' = asked
      BY <2>2 DEF rentVars
    <3>2. scenario.blocks \in Nat
      BY PrecompilesAssumption DEF RentInv
    <3>3. /\ scenario' = scenario /\ block' \in 1 .. scenario.blocks /\ block <= block'
      <4>1. UNCHANGED <<scenario, block>> \/ NextBlock
        BY BlockSteps
      <4> QED
        BY <3>2, <4>1 DEF RentInv, NextBlock
    <3> QED
      BY <3>1, <3>2, <3>3 DEF RentInv
  <2> QED
    BY <2>1, <2>2, RentSteps
<1>3. RentInv => LateIsFrozen
  BY DEF RentInv, Told, LateIsFrozen
<1> QED
  BY <1>1, <1>2, <1>3, PTL DEF Spec
=============================================================================
